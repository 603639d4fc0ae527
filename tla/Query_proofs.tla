----------------------------- MODULE Query_proofs -----------------------------
(***************************************************************************)
(* From CREATE TABLE to the answer of a SELECT: the invariants of Query    *)
(* hold for all tables, INSERTs and SELECTs, whatever the bounds.          *)
(***************************************************************************)
EXTENDS Query, Rows_proofs

-----------------------------------------------------------------------------
(* What CREATE TABLE plans *)

ColumnSet == [name : STRING, type : ColumnType, nullable : BOOLEAN,
              default : SUBSET Literal]
DefaultFits(c) ==
    c.default = {} \/ \E v \in Literal : c.default = {v} /\ (v = Null \/ v.type = c.type)
IsSchema(schema) ==
    /\ schema \in Seq(ColumnSet) /\ schema # <<>>
    /\ \A i, j \in 1..Len(schema) : schema[i].name = schema[j].name => i = j
    /\ \A i \in 1..Len(schema) : DefaultFits(schema[i])
IsTable(t) ==
    /\ IsSchema(t.schema) /\ t.engine \in EngineName
    /\ t.order_by \in Seq(Names(t.schema)) /\ t.primary_key \in Seq(Names(t.schema))
    /\ Begins(t.primary_key, t.order_by)

LEMMA NullIs == Null \in Literal /\ Null.type = "null" /\ Null.v = 0
BY DEF Null, Value, Literal, ValueType

LEMMA TypedShape ==
    ASSUME NEW v \in Literal, NEW type \in ColumnType
    PROVE  Typed(v, type) = {} \/
           \E w \in Literal : Typed(v, type) = {w} /\ (w = Null \/ w.type = type)
<1>1. CASE v = Null
  BY <1>1, NullIs DEF Typed
<1>2. CASE v # Null /\ v.type = "num" /\ type = "int"
  <2>1. Typed(v, type) = {Value("int", v.v)} /\ v.v \in Int
    BY <1>2 DEF Typed, Literal
  <2>2. Value("int", v.v) \in Literal /\ Value("int", v.v).type = "int"
    BY <2>1 DEF Literal, ValueType, Value
  <2>3. QED
    BY <1>2, <2>1, <2>2
<1>3. CASE v # Null /\ ~(v.type = "num" /\ type = "int")
  BY <1>3 DEF Typed
<1>4. QED
  BY <1>1, <1>2, <1>3

LEMMA CatOver ==
    ASSUME NEW S, NEW a \in Seq(S), NEW b \in Seq(S), NEW M,
           \A i \in DOMAIN Cat(a, b) : Cat(a, b)[i] \in M
    PROVE  a \in Seq(M) /\ b \in Seq(M)
<1> DEFINE c == Cat(a, b)
<1>1. c \in Seq(S) /\ Len(c) = Len(a) + Len(b)
  BY CatType
<1>2. \A i \in 1..Len(a) : c[i] = a[i]
  BY CatType
<1>3. \A i \in 1..Len(b) : c[Len(a) + i] = b[i]
  BY CatType
<1>4. Len(a) \in Nat /\ Len(b) \in Nat
  OBVIOUS
<1>5. \A i \in DOMAIN c : c[i] \in M
  OBVIOUS
<1> HIDE DEF c
<1>6. \A i \in 1..(Len(a) + Len(b)) : c[i] \in M
  BY <1>1, <1>4, <1>5
<1>7. \A i \in 1..Len(a) : i \in 1..(Len(a) + Len(b))
  BY <1>4
<1>8. \A i \in 1..Len(b) : Len(a) + i \in 1..(Len(a) + Len(b))
  BY <1>4
<1>9. \A i \in 1..Len(a) : a[i] \in M
  BY <1>2, <1>6, <1>7
<1>10. \A i \in 1..Len(b) : b[i] \in M
  BY <1>3, <1>6, <1>8
<1>11. QED
  BY <1>9, <1>10

LEMMA SchemaNames ==
    ASSUME NEW schema, IsSchema(schema)
    PROVE  /\ Len(schema) \in Nat \ {0} /\ DOMAIN schema = 1..Len(schema)
           /\ \A i \in 1..Len(schema) : /\ schema[i] \in ColumnSet
                                        /\ schema[i].name \in Names(schema)
                                        /\ IndexOf(schema, schema[i].name) = i
           /\ \A n \in Names(schema) : /\ n \in STRING
                                       /\ IndexOf(schema, n) \in 1..Len(schema)
                                       /\ schema[IndexOf(schema, n)].name = n
<1>1. /\ schema \in Seq(ColumnSet) /\ schema # <<>>
      /\ \A i, j \in 1..Len(schema) : schema[i].name = schema[j].name => i = j
  BY DEF IsSchema
<1>2. Len(schema) \in Nat \ {0} /\ DOMAIN schema = 1..Len(schema)
      /\ \A i \in 1..Len(schema) : schema[i] \in ColumnSet
  BY <1>1, EmptySeq
<1>3. \A n : n \in Names(schema) <=> \E i \in 1..Len(schema) : schema[i].name = n
  BY <1>2 DEF Names
<1>4. \A n \in Names(schema) : /\ IndexOf(schema, n) \in 1..Len(schema)
                               /\ schema[IndexOf(schema, n)].name = n
  <2> TAKE n \in Names(schema)
  <2> DEFINE found == {i \in DOMAIN schema : schema[i].name = n}
  <2>1. found # {} /\ \A i \in found : i \in 1..Len(schema) /\ schema[i].name = n
    BY <1>2, <1>3
  <2>2. IndexOf(schema, n) = CHOOSE i \in found : TRUE
    BY <2>1 DEF IndexOf
  <2> HIDE DEF found
  <2>3. IndexOf(schema, n) \in found
    BY <2>1, <2>2
  <2>4. QED
    BY <2>1, <2>3
<1>5. \A i \in 1..Len(schema) : schema[i].name \in STRING
  <2>1. \A c \in ColumnSet : c.name \in STRING
    BY DEF ColumnSet
  <2>2. QED
    BY <1>2, <2>1
<1>6. QED
  BY <1>1, <1>2, <1>3, <1>4, <1>5

ConstraintSet == [kind : STRING, value : Literal]

LEMMA SaidShape ==
    ASSUME NEW column, column.constraints \in Seq(ConstraintSet), NEW kinds
    PROVE  Said(column, kinds) \in Seq(ConstraintSet)
BY FilteredType DEF Said

LEMMA ColumnPlanned ==
    ASSUME NEW column, column.name \in STRING,
           column.constraints \in Seq(ConstraintSet), ValidColumn(column)
    PROVE  ColumnDef(column) \in ColumnSet /\ DefaultFits(ColumnDef(column))
           /\ ColumnDef(column).name = column.name
<1> DEFINE s == Said(column, {"default"})
           n == Len(s)
           d == IF n = 0 THEN {} ELSE Default(column, n)
<1>1. s \in Seq(ConstraintSet) /\ n \in Nat /\ DOMAIN s = 1..n
  <2>1. s \in Seq(ConstraintSet)
    BY SaidShape
  <2> HIDE DEF s
  <2>2. QED
    BY <2>1
<1>2. column.type \in ColumnType /\ \A i \in DOMAIN s : Default(column, i) # {}
  BY DEF ValidColumn
<1>3. d = {} \/ \E v \in Literal : d = {v} /\ (v = Null \/ v.type = column.type)
  <2>1. CASE n = 0
    BY <2>1
  <2>2. CASE n # 0
    <3>1. n \in 1..n /\ d = Default(column, n)
      BY <1>1, <2>2
    <3>2. s[n] \in ConstraintSet
      <4> HIDE DEF s
      <4>1. QED
        BY <1>1, <3>1
    <3>3. s[n].value \in Literal
      BY <3>2 DEF ConstraintSet
    <3>4. Default(column, n) = Typed(s[n].value, column.type)
      BY DEF Default
    <3>5. QED
      BY <1>2, <3>1, <3>3, <3>4, TypedShape
  <2>3. QED
    BY <2>1, <2>2
<1> DEFINE c == ColumnDef(column)
<1>4. c = [name |-> column.name, type |-> column.type,
           nullable |-> Said(column, {"notnull"}) = <<>>, default |-> d]
  BY DEF ColumnDef
<1> HIDE DEF d, s, n
<1>5. c.name = column.name /\ c.type = column.type /\ c.default = d
  BY <1>4
<1>6. d \in SUBSET Literal
  BY <1>3
<1>7. (Said(column, {"notnull"}) = <<>>) \in BOOLEAN
  OBVIOUS
<1>8. c \in ColumnSet
  BY <1>2, <1>4, <1>6, <1>7 DEF ColumnSet
<1> HIDE DEF c
<1>9. DefaultFits(c)
  BY <1>3, <1>5 DEF DefaultFits
<1>10. QED
  BY <1>5, <1>8, <1>9 DEF c

(* CREATE TABLE accepts only schemas with distinct names and typed         *)
(* defaults, and a primary key that begins the order.                      *)
LEMMA TablePlanned ==
    ASSUME NEW def, IsDefinition(def), NEW t \in Planned(def)
    PROVE  IsTable(t)
<1> DEFINE cols == def.columns
           N == Len(cols)
           schema == Schema(def)
           Given == [name : STRING, type : STRING, constraints : Seq(ConstraintSet)]
<1>1. Valid(def)
  BY DEF Planned
<1>2. PICK keys \in Keys(def) :
          t = [schema |-> Schema(def), engine |-> Settings(def),
               order_by |-> keys.order_by, primary_key |-> keys.primary_key]
  BY <1>1 DEF Planned
<1>3. cols \in Seq(Given)
  BY DEF IsDefinition, ConstraintSet
<1>4. cols # <<>> /\ \A i \in DOMAIN cols : ValidColumn(cols[i])
  BY <1>1 DEF Valid
<1>5. N \in Nat \ {0} /\ DOMAIN cols = 1..N /\ \A i \in 1..N : cols[i] \in Given
  <2> HIDE DEF Given, cols
  <2>1. QED
    BY <1>3, <1>4, EmptySeq
<1>6. \A i \in 1..N : cols[i].name \in STRING /\ cols[i].constraints \in Seq(ConstraintSet)
  BY <1>5
<1> HIDE DEF cols, Given, N
<1>7. DOMAIN schema = 1..N /\ \A i \in 1..N : schema[i] = ColumnDef(cols[i])
  BY <1>5 DEF Schema, cols
<1>8. \A i \in 1..N : schema[i] \in ColumnSet /\ DefaultFits(schema[i])
                      /\ schema[i].name = cols[i].name
  <2> TAKE i \in 1..N
  <2>1. ValidColumn(cols[i]) /\ cols[i].name \in STRING /\ cols[i].constraints \in Seq(ConstraintSet)
    BY <1>4, <1>5, <1>6
  <2>2. QED
    BY <1>7, <2>1, ColumnPlanned
<1>9. schema = [i \in 1..N |-> schema[i]]
  BY <1>5 DEF Schema, cols
<1> HIDE DEF schema
<1>10. schema \in Seq(ColumnSet) /\ Len(schema) = N
  BY <1>5, <1>8, <1>9
<1>11. \A i, j \in 1..N : schema[i].name = schema[j].name => i = j
  <2>1. NoDuplicates([i \in DOMAIN cols |-> cols[i].name])
    BY <1>1 DEF Valid, cols
  <2>2. \A i, j \in 1..N : cols[i].name = cols[j].name => i = j
    BY <1>5, <2>1 DEF NoDuplicates
  <2>3. QED
    BY <1>8, <2>2
<1>12. IsSchema(schema)
  <2>1. schema # <<>>
    BY <1>5, <1>10, EmptySeq
  <2>2. QED
    BY <1>8, <1>10, <1>11, <2>1 DEF IsSchema
<1>13. Settings(def) \in EngineName
  <2>1. CASE def.options = <<>>
    BY <2>1 DEF Settings, EngineName
  <2>2. CASE def.options # <<>>
    <3> DEFINE O == [key : STRING, name : STRING]
    <3>1. def.options \in Seq(O)
      BY DEF IsDefinition
    <3> HIDE DEF O
    <3>2. Len(def.options) \in DOMAIN def.options
      BY <2>2, <3>1, EmptySeq
    <3>3. def.options[Len(def.options)].name \in EngineName
      BY <1>1, <3>2 DEF Valid
    <3>4. QED
      BY <2>2, <3>3 DEF Settings, Last
  <2>3. QED
    BY <2>1, <2>2
<1> DEFINE o == def.order_by
           k == def.primary_key
<1>14. o \in Seq(STRING) /\ k \in Seq(STRING)
  BY DEF IsDefinition
<1>15. NamesIn(Cat(o, k), schema)
  BY <1>2 DEF Keys, Cat, schema
<1> HIDE DEF o, k
<1>16. o \in Seq(Names(schema)) /\ k \in Seq(Names(schema))
  <2> DEFINE STR == STRING
             M == Names(schema)
  <2> HIDE DEF STR, M
  <2>1. o \in Seq(STR) /\ k \in Seq(STR)
    BY <1>14 DEF STR
  <2>2. \A i \in DOMAIN Cat(o, k) : Cat(o, k)[i] \in M
    BY <1>15 DEF NamesIn, M
  <2>3. o \in Seq(M) /\ k \in Seq(M)
    BY <2>1, <2>2, CatOver
  <2>4. QED
    BY <2>3 DEF M
<1>17. /\ keys.order_by \in Seq(Names(schema)) /\ keys.primary_key \in Seq(Names(schema))
       /\ Begins(keys.primary_key, keys.order_by)
  <2> DEFINE first == <<cols[1].name>>
             M == Names(schema)
  <2>1. /\ keys \in Settled(o, k) /\ IsPrefix(k, o)
        \/ keys \in Settled(o, o) \/ keys \in Settled(k, k) \/ keys \in Settled(first, first)
    BY <1>2 DEF Keys, o, k, cols
  <2>2. first \in Seq(M)
    <3>1. 1 \in 1..N
      BY <1>5
    <3>2. cols[1].name \in M
      BY <1>7, <1>8, <3>1 DEF Names
    <3> HIDE DEF M
    <3>3. QED
      BY <3>2
  <2>3. \A s \in Seq(M) : Begins(s, s)
    BY DEF Begins
  <2>4. IsPrefix(k, o) => Begins(k, o)
    BY <1>14 DEF IsPrefix, Begins
  <2> HIDE DEF first, M
  <2>5. \A a, b : keys \in Settled(a, b) => keys.order_by = a /\ keys.primary_key = b
    BY DEF Settled
  <2>6. o \in Seq(M) /\ k \in Seq(M)
    BY <1>16 DEF M
  <2>7. keys.order_by \in Seq(M) /\ keys.primary_key \in Seq(M)
        /\ Begins(keys.primary_key, keys.order_by)
    BY <2>1, <2>2, <2>3, <2>4, <2>5, <2>6
  <2>8. QED
    BY <2>7 DEF M
<1>18. /\ t.schema = schema /\ t.engine = Settings(def)
       /\ t.order_by = keys.order_by /\ t.primary_key = keys.primary_key
  BY <1>2 DEF schema
<1>19. QED
  BY <1>12, <1>13, <1>17, <1>18 DEF IsTable

-----------------------------------------------------------------------------
(* What INSERT stores *)

Fits(c, v) == v.type = c.type \/ (v = Null /\ (c.nullable \/ c.default = {Null}))
Row(schema) == {r \in [Names(schema) -> Literal] :
                   \A c \in 1..Len(schema) : Fits(schema[c], r[schema[c].name])}

(* A value is filled in that its column can hold.                          *)
LEMMA FilledFits ==
    ASSUME NEW schema, IsSchema(schema), NEW insert, IsInsert(insert),
           Accepted(schema, insert), NEW r \in 1..Len(insert.rows),
           NEW n \in Names(schema)
    PROVE  LET v == CHOOSE v \in Filled(Column(schema, n), insert.columns, insert.rows[r]) : TRUE
           IN  v \in Literal /\ Fits(Column(schema, n), v)
<1> DEFINE i == IndexOf(schema, n)
           c == schema[i]
           columns == insert.columns
           row == insert.rows[r]
           F == Filled(c, columns, row)
           v == CHOOSE x \in F : TRUE
           STR == STRING
           LIT == Literal
           SEQ == Seq(LIT)
<1>1. i \in 1..Len(schema) /\ c.name = n /\ Column(schema, n) = c /\ c \in ColumnSet
      /\ DOMAIN schema = 1..Len(schema)
  BY SchemaNames DEF Column
<1>2. DefaultFits(c)
  BY <1>1 DEF IsSchema
<1>3. c.type \in ColumnType
  BY <1>1 DEF ColumnSet
<1> HIDE DEF c, i
<1>4. columns \in Seq(STR) /\ insert.rows \in Seq(SEQ)
  BY DEF IsInsert
<1>5. row \in SEQ /\ r \in DOMAIN insert.rows
  <2> HIDE DEF SEQ
  <2>1. QED
    BY <1>4
<1>6. /\ Len(row) = Len(columns)
      /\ F # {}
      /\ F = {Null} /\ c.name \in ToSet(columns) => c.nullable
      /\ Required(c) => c.name \in ToSet(columns)
  BY <1>1, <1>5 DEF Accepted, c
<1> HIDE DEF F
<1>7. CASE c.name \in ToSet(columns)
  <2> DEFINE k == CHOOSE k \in DOMAIN columns : columns[k] = c.name
  <2>1. k \in DOMAIN columns
    BY <1>7 DEF ToSet
  <2> HIDE DEF k, columns, row
  <2>2. k \in 1..Len(row)
    BY <1>4, <1>6, <2>1
  <2>3. row[k] \in Literal
    BY <1>5, <2>2
  <2>4. F = Typed(row[k], c.type)
    BY <1>7 DEF F, Filled, k
  <2>5. PICK w \in Literal : F = {w} /\ (w = Null \/ w.type = c.type)
    BY <1>3, <1>6, <2>3, <2>4, TypedShape
  <2>6. v = w
    BY <2>5
  <2>7. w = Null => c.nullable
    BY <1>6, <1>7, <2>5
  <2> HIDE DEF v
  <2>8. v \in Literal /\ Fits(c, v)
    BY <2>5, <2>6, <2>7 DEF Fits
  <2>9. QED
    BY <1>1, <2>8 DEF v, F, c, columns, row
<1>8. CASE c.name \notin ToSet(columns)
  <2>1. F = IF c.default # {} THEN c.default ELSE {Null}
    BY <1>8 DEF F, Filled
  <2>2. v \in Literal /\ Fits(c, v)
    <3>1. CASE c.default = {}
      <4>1. v = Null /\ c.nullable
        BY <1>6, <1>8, <2>1, <3>1 DEF Required
      <4> HIDE DEF v
      <4>2. QED
        BY <4>1, NullIs DEF Fits
    <3>2. CASE c.default # {}
      <4>1. PICK w \in Literal : c.default = {w} /\ (w = Null \/ w.type = c.type)
        BY <1>2, <3>2 DEF DefaultFits
      <4>2. v = w
        BY <2>1, <4>1
      <4> HIDE DEF v
      <4>3. QED
        BY <4>1, <4>2 DEF Fits
    <3>3. QED
      BY <3>1, <3>2
  <2>3. QED
    BY <1>1, <2>2 DEF v, F, c, columns, row
<1>9. QED
  BY <1>7, <1>8

LEMMA RowsInserted ==
    ASSUME NEW schema, IsSchema(schema), NEW insert, IsInsert(insert),
           NEW rows \in InsertRows(schema, insert)
    PROVE  rows \in Seq(Row(schema))
<1>1. Accepted(schema, insert) /\ rows = Rows(schema, insert)
  BY DEF InsertRows
<1> DEFINE N == Len(insert.rows)
<1>2. N \in Nat /\ DOMAIN insert.rows = 1..N
  <2> DEFINE SEQ == Seq(Literal)
  <2>1. insert.rows \in Seq(SEQ)
    BY DEF IsInsert
  <2> HIDE DEF SEQ
  <2>2. QED
    BY <2>1
<1>3. DOMAIN rows = 1..N /\ rows = [r \in 1..N |-> rows[r]]
  BY <1>1, <1>2 DEF Rows
<1>4. ASSUME NEW r \in 1..N PROVE rows[r] \in Row(schema)
  <2> DEFINE row == rows[r]
             M == Names(schema)
  <2>1. row = [n \in M |-> CHOOSE v \in Filled(Column(schema, n), insert.columns, insert.rows[r]) : TRUE]
    BY <1>1, <1>2 DEF Rows
  <2>2. \A n \in M : row[n] \in Literal /\ Fits(Column(schema, n), row[n])
    BY <1>1, <2>1, FilledFits
  <2>3. DOMAIN row = M /\ row = [n \in M |-> row[n]]
    BY <2>1
  <2> HIDE DEF row, M
  <2>4. row \in [M -> Literal]
    BY <2>2, <2>3
  <2>5. \A c \in 1..Len(schema) : Fits(schema[c], row[schema[c].name])
    <3> TAKE c \in 1..Len(schema)
    <3>1. schema[c].name \in M /\ Column(schema, schema[c].name) = schema[c]
      BY SchemaNames DEF Column, M
    <3>2. QED
      BY <2>2, <3>1
  <2>6. QED
    BY <2>4, <2>5 DEF Row, row, M
<1> DEFINE R == Row(schema)
<1> HIDE DEF R
<1>5. rows \in Seq(R)
  BY <1>2, <1>3, <1>4 DEF R
<1>6. QED
  BY <1>5 DEF R

(* The rows as columns.                                                    *)
LEMMA ColumnsShape ==
    ASSUME NEW schema, IsSchema(schema), NEW rows \in Seq(Row(schema))
    PROVE  /\ Len(rows) \in Nat /\ DOMAIN rows = 1..Len(rows)
           /\ \A i \in 1..Len(rows) : rows[i] \in Row(schema)
           /\ \A i \in 1..Len(rows), n \in Names(schema) : rows[i][n] \in Literal
           /\ IsData(ColumnsOf(schema, rows), Len(schema), Len(rows))
           /\ \A i \in 1..Len(rows), c \in 1..Len(schema) :
                 ColumnsOf(schema, rows)[c][i] = rows[i][schema[c].name]
<1> DEFINE C == Len(schema)
           N == Len(rows)
           R == Row(schema)
           cols == ColumnsOf(schema, rows)
<1>1. C \in Nat \ {0} /\ DOMAIN schema = 1..C /\ \A c \in 1..C : schema[c].name \in Names(schema)
  BY SchemaNames
<1>2. N \in Nat /\ DOMAIN rows = 1..N /\ \A i \in 1..N : rows[i] \in R
  <2> HIDE DEF R
  <2>1. rows \in Seq(R)
    BY DEF R
  <2>2. QED
    BY <2>1
<1>3. \A r \in R : r \in [Names(schema) -> Literal]
  BY DEF Row
<1>4. \A i \in 1..N, n \in Names(schema) : rows[i][n] \in Literal
  BY <1>2, <1>3
<1>5. cols = [c \in 1..C |-> [i \in 1..N |-> rows[i][schema[c].name]]]
  BY <1>1, <1>2 DEF ColumnsOf
<1>6. \A i \in 1..N, c \in 1..C : cols[c][i] = rows[i][schema[c].name]
  BY <1>5
<1>7. \A i \in 1..N, c \in 1..C : rows[i][schema[c].name] \in Literal
  BY <1>1, <1>4
<1>8. cols \in [1..C -> [1..N -> Literal]]
  BY <1>5, <1>7
<1>9. IsData(cols, C, N)
  BY <1>1, <1>2, <1>8 DEF IsData
<1>10. QED
  BY <1>2, <1>4, <1>6, <1>9

LEMMA PositionsShape ==
    ASSUME NEW schema, IsSchema(schema), NEW names \in Seq(Names(schema))
    PROVE  /\ Positions(schema, names) \in Seq(1..Len(schema))
           /\ Len(Positions(schema, names)) = Len(names)
           /\ \A k \in 1..Len(names) :
                 /\ names[k] \in Names(schema)
                 /\ Positions(schema, names)[k] = IndexOf(schema, names[k])
                 /\ schema[Positions(schema, names)[k]].name = names[k]
<1> DEFINE C == Len(schema)
           M == Names(schema)
           p == Positions(schema, names)
<1>1. C \in Nat \ {0}
      /\ \A n \in M : IndexOf(schema, n) \in 1..C /\ schema[IndexOf(schema, n)].name = n
  BY SchemaNames
<1> HIDE DEF M
<1>2. names \in Seq(M)
  BY DEF M
<1>3. Len(names) \in Nat /\ DOMAIN names = 1..Len(names) /\ \A k \in 1..Len(names) : names[k] \in M
  BY <1>2
<1>4. p = [k \in 1..Len(names) |-> IndexOf(schema, names[k])]
  BY <1>3 DEF Positions
<1>5. \A k \in 1..Len(names) : p[k] = IndexOf(schema, names[k]) /\ p[k] \in 1..C
                               /\ schema[p[k]].name = names[k]
  BY <1>1, <1>3, <1>4
<1>6. p = [k \in 1..Len(names) |-> p[k]]
  BY <1>4
<1> HIDE DEF p, C
<1>7. p \in Seq(1..C) /\ Len(p) = Len(names)
  BY <1>1, <1>3, <1>5, <1>6
<1>8. QED
  BY <1>3, <1>5, <1>7 DEF p, C, M

(* Rows compare by the names of the keys as columns do by their positions. *)
LEMMA KeysByName ==
    ASSUME NEW schema, IsSchema(schema), NEW rows \in Seq(Row(schema)),
           NEW names \in Seq(Names(schema)),
           NEW i \in 1..Len(rows), NEW j \in 1..Len(rows)
    PROVE  LET cols == ColumnsOf(schema, rows)
               keys == Positions(schema, names)
           IN  /\ SameKey(RowAt(cols, i), RowAt(cols, j), keys)
                     <=> SameKey(rows[i], rows[j], names)
               /\ Below(RowAt(cols, i), RowAt(cols, j), keys)
                     <=> Below(rows[i], rows[j], names)
<1> DEFINE cols == ColumnsOf(schema, rows)
           keys == Positions(schema, names)
           a == RowAt(cols, i)
           b == RowAt(cols, j)
           n == Len(names)
<1>1. /\ keys \in Seq(1..Len(schema)) /\ Len(keys) = n
      /\ \A k \in 1..n : /\ names[k] \in Names(schema)
                         /\ schema[keys[k]].name = names[k]
  BY PositionsShape
<1>2. IsData(cols, Len(schema), Len(rows))
      /\ \A x \in 1..Len(rows), c \in 1..Len(schema) : cols[c][x] = rows[x][schema[c].name]
  BY ColumnsShape
<1>3. \A c \in 1..Len(schema) : a[c] = cols[c][i] /\ b[c] = cols[c][j]
  BY <1>1, <1>2, DataShape
<1>4. Len(schema) \in Nat
  BY SchemaNames
<1>5. n \in Nat /\ DOMAIN names = 1..n
  <2> DEFINE M == Names(schema)
  <2> HIDE DEF M
  <2>1. names \in Seq(M)
    BY DEF M
  <2>2. QED
    BY <2>1
<1> HIDE DEF keys, cols, a, b
<1>6. DOMAIN keys = 1..n /\ \A k \in 1..n : keys[k] \in 1..Len(schema)
  BY <1>1, <1>4, <1>5
<1>7. \A k \in 1..n : a[keys[k]] = rows[i][names[k]] /\ b[keys[k]] = rows[j][names[k]]
  <2> DEFINE C == Len(schema)
             N == Len(rows)
  <2>1. \A k \in 1..n : keys[k] \in 1..C /\ schema[keys[k]].name = names[k]
    BY <1>1, <1>6
  <2>2. i \in 1..N /\ j \in 1..N
    OBVIOUS
  <2>3. /\ \A x \in 1..N, c \in 1..C : cols[c][x] = rows[x][schema[c].name]
        /\ \A c \in 1..C : a[c] = cols[c][i] /\ b[c] = cols[c][j]
    BY <1>2, <1>3
  <2> HIDE DEF C, N, n
  <2>4. QED
    BY <2>1, <2>2, <2>3
<1> HIDE DEF n
<1>8. SameKey(a, b, keys) <=> SameKey(rows[i], rows[j], names)
  <2>1. SameKey(a, b, keys) <=> SameUpTo(a, b, keys, n + 1)
    BY <1>1 DEF SameKey
  <2>2. SameKey(rows[i], rows[j], names) <=> SameUpTo(rows[i], rows[j], names, n + 1)
    BY DEF SameKey, n
  <2>3. SameUpTo(a, b, keys, n + 1) <=> SameUpTo(rows[i], rows[j], names, n + 1)
    <3>1. \A k \in 1..((n + 1) - 1) : k \in 1..n
      BY <1>5
    <3>2. QED
      BY <1>7, <3>1 DEF SameUpTo
  <2>4. QED
    BY <2>1, <2>2, <2>3
<1>9. \A k \in 1..n : SameUpTo(a, b, keys, k) <=> SameUpTo(rows[i], rows[j], names, k)
  <2> TAKE k \in 1..n
  <2>1. \A l \in 1..(k - 1) : l \in 1..n
    BY <1>5
  <2>2. QED
    BY <1>7, <2>1 DEF SameUpTo
<1>10. Below(a, b, keys) <=> Below(rows[i], rows[j], names)
  BY <1>5, <1>6, <1>7, <1>9 DEF Below
<1>11. QED
  BY <1>8, <1>10 DEF cols, keys, a, b

(* Columns picked by a list of rows are those rows.                        *)
Listed(rows, q) == [i \in 1..Len(q) |-> rows[q[i]]]

LEMMA RowsPicked ==
    ASSUME NEW schema, IsSchema(schema), NEW rows \in Seq(Row(schema)),
           NEW q \in Seq(1..Len(rows))
    PROVE  RowsOf(schema, Picked(ColumnsOf(schema, rows), Len(schema), q)) = Listed(rows, q)
<1> DEFINE C == Len(schema)
           N == Len(rows)
           cols == ColumnsOf(schema, rows)
           s == Picked(cols, C, q)
           M == Names(schema)
<1>1. /\ N \in Nat /\ DOMAIN rows = 1..N
      /\ \A i \in 1..N : rows[i] \in Row(schema)
      /\ \A i \in 1..N, c \in 1..C : cols[c][i] = rows[i][schema[c].name]
  BY ColumnsShape
<1>2. C \in Nat \ {0} /\ 1 \in 1..C
  BY SchemaNames
<1>a. \A i \in 1..Len(q) : q[i] \in 1..N
  BY <1>1
<1>3. RowCount(s) = Len(q)
  <2>1. s[1] = [i \in 1..Len(q) |-> cols[1][q[i]]]
    BY <1>2 DEF Picked
  <2>2. Len(s[1]) = Len(q)
    BY <2>1
  <2>3. QED
    BY <2>2 DEF RowCount
<1> HIDE DEF cols
<1>4. RowsOf(schema, s) = [i \in 1..Len(q) |-> [n \in M |-> s[IndexOf(schema, n)][i]]]
  BY <1>3 DEF RowsOf
<1>5. ASSUME NEW i \in 1..Len(q)
      PROVE  [n \in M |-> s[IndexOf(schema, n)][i]] = rows[q[i]]
  <2>1. q[i] \in 1..N /\ rows[q[i]] \in Row(schema)
    BY <1>1, <1>5, <1>a
  <2>2. rows[q[i]] \in [M -> Literal]
    BY <2>1 DEF Row
  <2>3. \A n \in M : s[IndexOf(schema, n)][i] = rows[q[i]][n]
    <3> TAKE n \in M
    <3>1. IndexOf(schema, n) \in 1..C /\ schema[IndexOf(schema, n)].name = n
      BY SchemaNames
    <3>2. s[IndexOf(schema, n)][i] = cols[IndexOf(schema, n)][q[i]]
      BY <3>1 DEF Picked
    <3>3. QED
      BY <1>1, <2>1, <3>1, <3>2
  <2> HIDE DEF s, M
  <2>4. QED
    BY <2>2, <2>3
<1> HIDE DEF s, M
<1>6. RowsOf(schema, s) = [i \in 1..Len(q) |-> rows[q[i]]]
  BY <1>4, <1>5
<1>7. QED
  BY <1>6 DEF s, cols, Listed

(* What a MergeTree and a ReplacingMergeTree part hold of a batch.         *)
HoldsAll(t, batch, part) ==
    /\ \E order \in Orders(Len(batch)) : part = [i \in DOMAIN batch |-> batch[order[i]]]
    /\ \A i, j \in DOMAIN part : i < j => ~Below(part[j], part[i], t.order_by)
HoldsLast(t, batch, part) ==
    /\ ToSet(part) = {batch[i] : i \in {i \in DOMAIN batch : ~Outdone(t, batch, i)}}
    /\ \A i, j \in DOMAIN part : i < j => ~SameKey(part[i], part[j], t.primary_key)
IsPart(t, batch, part) ==
    /\ part \in Seq(Row(t.schema))
    /\ t.engine = "MergeTree" => HoldsAll(t, batch, part)
    /\ t.engine = "ReplacingMergeTree" => HoldsLast(t, batch, part)

LEMMA PartStored ==
    ASSUME NEW t, IsTable(t), NEW rows \in Seq(Row(t.schema)),
           ~OrderPanics(ColumnsOf(t.schema, rows), Positions(t.schema, t.order_by)),
           NEW stored \in StoreResults(t.engine, ColumnsOf(t.schema, rows),
                                       Positions(t.schema, t.order_by),
                                       Positions(t.schema, t.primary_key))
    PROVE  IsPart(t, rows, RowsOf(t.schema, stored))
<1> DEFINE schema == t.schema
           C == Len(schema)
           N == Len(rows)
           R == Row(schema)
           cols == ColumnsOf(schema, rows)
           keys == Positions(schema, t.order_by)
           primary == Positions(schema, t.primary_key)
           part == RowsOf(schema, stored)
<1>1. /\ IsSchema(schema) /\ t.engine \in EngineName /\ rows \in Seq(Row(schema))
      /\ t.order_by \in Seq(Names(schema)) /\ t.primary_key \in Seq(Names(schema))
      /\ Begins(t.primary_key, t.order_by)
  BY DEF IsTable
<1>2. /\ N \in Nat /\ DOMAIN rows = 1..N
      /\ \A i \in 1..N : rows[i] \in R
      /\ IsData(cols, C, N)
  BY <1>1, ColumnsShape
<1>3. /\ keys \in Seq(1..C) /\ Len(keys) = Len(t.order_by)
      /\ \A k \in 1..Len(t.order_by) : keys[k] = IndexOf(schema, t.order_by[k])
  BY <1>1, PositionsShape
<1>4. /\ primary \in Seq(1..C) /\ Len(primary) = Len(t.primary_key)
      /\ \A k \in 1..Len(t.primary_key) : primary[k] = IndexOf(schema, t.primary_key[k])
  BY <1>1, PositionsShape
<1> DEFINE O == t.order_by
           K == t.primary_key
<1>5. \A i, j \in 1..N :
         /\ SameKey(RowAt(cols, i), RowAt(cols, j), keys) <=> SameKey(rows[i], rows[j], O)
         /\ Below(RowAt(cols, i), RowAt(cols, j), keys) <=> Below(rows[i], rows[j], O)
         /\ SameKey(RowAt(cols, i), RowAt(cols, j), primary) <=> SameKey(rows[i], rows[j], K)
  BY <1>1, KeysByName
<1>6. ASSUME NEW q \in Seq(1..N)
      PROVE  RowsOf(schema, Picked(cols, C, q)) = Listed(rows, q)
  BY <1>1, RowsPicked
<1>7. ~OrderPanics(cols, keys) /\ stored \in StoreResults(t.engine, cols, keys, primary)
  OBVIOUS
<1>8. Begins(primary, keys)
  <2>1. Len(K) <= Len(O) /\ \A k \in 1..Len(K) : K[k] = O[k]
    BY <1>1 DEF Begins
  <2>2. Len(K) \in Nat /\ Len(O) \in Nat
    <3> DEFINE M == Names(schema)
    <3> HIDE DEF M
    <3>1. K \in Seq(M) /\ O \in Seq(M)
      BY <1>1 DEF M
    <3>2. QED
      BY <3>1
  <2> HIDE DEF keys, primary, O, K
  <2>3. \A k \in 1..Len(K) : k \in 1..Len(O)
    BY <2>1, <2>2
  <2>4. Len(primary) = Len(K) /\ Len(keys) = Len(O)
    BY <1>3, <1>4 DEF O, K
  <2>5. \A k \in 1..Len(K) : primary[k] = keys[k]
    BY <1>3, <1>4, <2>1, <2>3 DEF O, K
  <2>6. QED
    BY <2>1, <2>4, <2>5 DEF Begins
<1> HIDE DEF cols, keys, primary, C, R, O, K
<1>9. CASE t.engine = "MergeTree"
  <2>1. stored \in MergeTreeResults(cols, keys)
    BY <1>7, <1>9 DEF StoreResults
  <2>2. PICK p \in Orders(N) :
           /\ stored = [c \in 1..C |-> [i \in 1..N |-> cols[c][p[i]]]]
           /\ \A i, j \in 1..N : i < j => ~Below(RowAt(cols, p[j]), RowAt(cols, p[i]), keys)
    BY <1>2, <2>1, MergeTreeOrders
  <2>3. p \in [1..N -> 1..N]
    BY <1>2, OrderShape
  <2>4. Len(p) = N /\ p \in Seq(1..N) /\ \A i \in 1..N : p[i] \in 1..N
    BY <1>2, <2>3
  <2>5. RowsOf(schema, Picked(cols, C, p)) = Listed(rows, p)
    BY <1>6, <2>4
  <2>6. part = [i \in 1..N |-> rows[p[i]]]
    BY <2>2, <2>4, <2>5 DEF Picked, Listed
  <2> HIDE DEF part
  <2>7. part \in Seq(R)
    <3>1. \A i \in 1..N : rows[p[i]] \in R
      BY <1>2, <2>4
    <3>2. QED
      BY <1>2, <2>6, <3>1
  <2>8. DOMAIN part = 1..N /\ \A i \in 1..N : part[i] = rows[p[i]]
    BY <2>6
  <2>9. \A i, j \in 1..N : i < j => ~Below(part[j], part[i], O)
    BY <1>5, <2>2, <2>4, <2>8
  <2>10. HoldsAll(t, rows, part)
    BY <1>2, <2>6, <2>8, <2>9 DEF HoldsAll, O
  <2>11. t.engine # "ReplacingMergeTree"
    BY <1>9
  <2>12. QED
    BY <2>7, <2>10, <2>11 DEF IsPart, R, part
<1>10. CASE t.engine = "ReplacingMergeTree"
  <2>1. stored = ReplacingResult(cols, keys, primary)
    BY <1>7, <1>10 DEF StoreResults
  <2>2. PICK q \in Seq(1..N) :
              /\ ReplacingResult(cols, keys, primary) = Picked(cols, C, q)
              /\ Members(q) = {i \in 1..N : ~Replaced(cols, keys, primary, i)}
              /\ \A i, j \in 1..Len(q) : i < j =>
                    ~SameKey(RowAt(cols, q[i]), RowAt(cols, q[j]), primary)
    <3>1. IsData(cols, C, N) /\ keys \in Seq(1..C) /\ primary \in Seq(1..C)
      BY <1>2, <1>3, <1>4
    <3>2. Begins(primary, keys) /\ ~OrderPanics(cols, keys)
      BY <1>7, <1>8
    <3>3. QED
      BY <3>1, <3>2, ReplacingKeepsLast
  <2>3. Len(q) \in Nat /\ DOMAIN q = 1..Len(q) /\ \A i \in 1..Len(q) : q[i] \in 1..N
    BY <1>2
  <2>4. part = [i \in 1..Len(q) |-> rows[q[i]]]
    BY <1>6, <2>1, <2>2, <2>3 DEF Listed
  <2> HIDE DEF part
  <2>5. part \in Seq(R)
    <3>1. \A i \in 1..Len(q) : rows[q[i]] \in R
      BY <1>2, <2>3
    <3>2. QED
      BY <2>3, <2>4, <3>1
  <2>6. DOMAIN part = 1..Len(q) /\ \A i \in 1..Len(q) : part[i] = rows[q[i]]
    BY <2>4
  <2>7. \A i \in 1..N : Replaced(cols, keys, primary, i) <=> Outdone(t, rows, i)
    <3>1. RowCount(cols) = N
      BY <1>2, <1>3, DataShape
    <3>2. QED
      BY <1>2, <1>5, <3>1 DEF Replaced, Outdone, O, K
  <2>8. ToSet(part) = {rows[i] : i \in {i \in 1..N : ~Outdone(t, rows, i)}}
    <3> DEFINE Kept == {i \in 1..N : ~Outdone(t, rows, i)}
    <3>1. Members(q) = Kept
      BY <2>2, <2>7
    <3> HIDE DEF Kept
    <3>2. ToSet(part) = {rows[q[i]] : i \in 1..Len(q)}
      BY <2>6 DEF ToSet
    <3>3. Members(q) = {q[i] : i \in 1..Len(q)}
      BY <2>3 DEF Members
    <3>4. QED
      BY <3>1, <3>2, <3>3 DEF Kept
  <2>9. \A i, j \in 1..Len(q) : i < j => ~SameKey(part[i], part[j], K)
    BY <1>5, <2>2, <2>3, <2>6
  <2>10. HoldsLast(t, rows, part)
    BY <1>2, <2>6, <2>8, <2>9 DEF HoldsLast, K
  <2>11. t.engine # "MergeTree"
    BY <1>10
  <2>12. QED
    BY <2>5, <2>10, <2>11 DEF IsPart, R, part
<1>11. QED
  BY <1>1, <1>9, <1>10 DEF EngineName

(* Only values of different types stop the engine, and one of them is then *)
(* a Null that its column allows.                                          *)
LEMMA NullsPanic ==
    ASSUME NEW t, IsTable(t), NEW rows \in Seq(Row(t.schema)),
           OrderPanics(ColumnsOf(t.schema, rows), Positions(t.schema, t.order_by))
    PROVE  \E name \in ToSet(t.order_by) :
              Column(t.schema, name).nullable \/ Column(t.schema, name).default = {Null}
<1> DEFINE schema == t.schema
           C == Len(schema)
           N == Len(rows)
           cols == ColumnsOf(schema, rows)
           keys == Positions(schema, t.order_by)
           O == t.order_by
           M == Names(schema)
<1>1. IsSchema(schema) /\ O \in Seq(M) /\ rows \in Seq(Row(schema))
  BY DEF IsTable
<1>2. /\ keys \in Seq(1..C) /\ Len(keys) = Len(O)
      /\ \A k \in 1..Len(O) : /\ O[k] \in M
                              /\ keys[k] = IndexOf(schema, O[k])
                              /\ schema[keys[k]].name = O[k]
  BY <1>1, PositionsShape
<1>3. /\ N \in Nat /\ IsData(cols, C, N)
      /\ \A i \in 1..N : rows[i] \in Row(schema)
      /\ \A i \in 1..N, c \in 1..C : cols[c][i] = rows[i][schema[c].name]
  BY <1>1, ColumnsShape
<1>4. RowCount(cols) = N
  BY <1>2, <1>3, DataShape
<1>5. C \in Nat
  BY <1>1, SchemaNames
<1>6. Len(O) \in Nat /\ DOMAIN O = 1..Len(O)
  <2> HIDE DEF M, O
  <2>1. QED
    BY <1>1
<1>7. OrderPanics(cols, keys)
  OBVIOUS
<1> HIDE DEF cols, keys, C, O, M
<1>8. DOMAIN keys = 1..Len(O) /\ \A k \in 1..Len(O) : keys[k] \in 1..C
  BY <1>2, <1>5, <1>6
<1>9. PICK i \in 1..N, j \in 1..N, k \in 1..Len(O) :
         ~Comparable(RowAt(cols, i)[keys[k]], RowAt(cols, j)[keys[k]])
  BY <1>4, <1>7, <1>8 DEF OrderPanics
<1> DEFINE c == schema[keys[k]]
           x == rows[i][c.name]
           y == rows[j][c.name]
<1>10. RowAt(cols, i)[keys[k]] = x /\ RowAt(cols, j)[keys[k]] = y
  <2>1. RowAt(cols, i)[keys[k]] = cols[keys[k]][i] /\ RowAt(cols, j)[keys[k]] = cols[keys[k]][j]
    BY <1>2, <1>3, <1>8, DataShape
  <2>2. QED
    BY <1>3, <1>8, <2>1
<1>11. Fits(c, x) /\ Fits(c, y)
  BY <1>3, <1>8 DEF Row, C
<1>12. Column(schema, O[k]) = c
  BY <1>2 DEF Column
<1> HIDE DEF c, x, y
<1>13. x.type # y.type
  BY <1>9, <1>10 DEF Comparable
<1>14. c.nullable \/ c.default = {Null}
  BY <1>11, <1>13 DEF Fits
<1>15. O[k] \in ToSet(O)
  BY <1>6 DEF ToSet
<1>16. QED
  BY <1>12, <1>14, <1>15 DEF O

-----------------------------------------------------------------------------
(* What a SELECT plans *)

ItemSet == [what : {"star", "col", "agg"}, name : STRING, alias : STRING, fn : STRING]
Proj(schema) == [alias : STRING \cup {""}, name : Names(schema)]
IsQuery(schema, q) ==
    /\ q.columns \in Seq(Proj(schema)) /\ q.group_by \in Seq(Proj(schema))
    /\ q.aggregates \in Seq(ItemSet)
    /\ \A a \in 1..Len(q.aggregates) : /\ q.aggregates[a].name \in Names(schema)
                                       /\ q.aggregates[a].fn \in AggregateFn
    /\ q.group_by # <<>> => ToSet(q.columns) \subseteq ToSet(q.group_by)
    /\ q.group_by = <<>> /\ q.aggregates # <<>> => q.columns = <<>>
    /\ q.columns # <<>> \/ q.group_by # <<>> \/ q.aggregates # <<>>
    /\ q.order_by \in Seq(Seq(ToSet(q.columns)))
    /\ IsExpression(q.where) /\ Compiles(q.where, schema)
    /\ q.limit \in Nat \cup {NoLimit} /\ q.offset \in Nat

LEMMA ToSetIsMembers ==
    ASSUME NEW S, NEW s \in Seq(S)
    PROVE  /\ ToSet(s) = Members(s) /\ ToSet(s) \subseteq S
           /\ Len(s) \in Nat /\ DOMAIN s = 1..Len(s)
           /\ \A i \in 1..Len(s) : s[i] \in S /\ s[i] \in ToSet(s)
           /\ s = <<>> <=> Len(s) = 0
           /\ s = <<>> <=> ToSet(s) = {}
<1>1. Len(s) \in Nat /\ DOMAIN s = 1..Len(s) /\ \A i \in 1..Len(s) : s[i] \in S
  OBVIOUS
<1>2. ToSet(s) = Members(s) /\ \A x : x \in ToSet(s) <=> \E i \in 1..Len(s) : x = s[i]
  BY <1>1 DEF ToSet, Members
<1>3. s = <<>> <=> Len(s) = 0
  BY EmptySeq
<1>4. Len(s) = 0 <=> ToSet(s) = {}
  <2>1. ASSUME Len(s) # 0 PROVE s[1] \in ToSet(s)
    <3>1. 1 \in 1..Len(s)
      BY <1>1, <2>1
    <3>2. QED
      BY <1>2, <3>1
  <2>2. ASSUME NEW x \in ToSet(s) PROVE Len(s) # 0
    BY <1>1, <1>2
  <2>3. QED
    BY <2>1, <2>2
<1>5. QED
  BY <1>1, <1>2, <1>3, <1>4

(* A function on 1..n is a sequence of its values.                         *)
LEMMA IsSeqOf ==
    ASSUME NEW S, NEW n \in Nat, NEW f, DOMAIN f = 1..n, f = [i \in 1..n |-> f[i]],
           \A i \in 1..n : f[i] \in S
    PROVE  f \in Seq(S) /\ Len(f) = n
OBVIOUS

LEMMA ItemsShape ==
    ASSUME NEW select, select.items \in Seq(ItemSet), NEW what
    PROVE  /\ ItemsOf(select, what) \in Seq(ItemSet)
           /\ \A i \in 1..Len(ItemsOf(select, what)) :
                 \E k \in 1..Len(select.items) :
                    /\ ItemsOf(select, what)[i] = select.items[k]
                    /\ select.items[k].what = what
           /\ \A k \in 1..Len(select.items) :
                 select.items[k].what = what => ItemsOf(select, what) # <<>>
<1> DEFINE items == select.items
           keep == {item \in ToSet(items) : item.what = what}
           f == ItemsOf(select, what)
<1>0. items \in Seq(ItemSet)
  OBVIOUS
<1> HIDE DEF items, f
<1>1. f = Filtered(items, keep)
  BY DEF f, ItemsOf, items
<1>2. f \in Seq(ItemSet) /\ Members(f) = Members(items) \cap keep
  BY <1>0, <1>1, FilteredType, FilteredMembers
<1>3. /\ ToSet(items) = Members(items) /\ DOMAIN items = 1..Len(items)
      /\ \A k \in 1..Len(items) : items[k] \in ToSet(items)
  BY <1>0, ToSetIsMembers
<1>4. /\ ToSet(f) = Members(f) /\ \A i \in 1..Len(f) : f[i] \in ToSet(f)
      /\ f = <<>> <=> ToSet(f) = {}
  BY <1>2, ToSetIsMembers
<1>5. ASSUME NEW i \in 1..Len(f)
      PROVE  \E k \in 1..Len(items) : f[i] = items[k] /\ items[k].what = what
  <2>1. f[i] \in Members(items) /\ f[i].what = what
    BY <1>2, <1>4
  <2>2. PICK k \in 1..Len(items) : f[i] = items[k]
    BY <1>3, <2>1 DEF Members
  <2>3. QED
    BY <2>1, <2>2
<1>6. ASSUME NEW k \in 1..Len(items), items[k].what = what PROVE f # <<>>
  <2>1. items[k] \in Members(f)
    BY <1>2, <1>3, <1>6
  <2>2. QED
    BY <1>4, <2>1
<1>7. QED
  BY <1>2, <1>5, <1>6 DEF f, items

LEMMA ColumnsRead ==
    ASSUME NEW schema, IsSchema(schema), NEW select, IsSelect(select),
           Plannable(schema, select)
    PROVE  /\ ReadColumns(schema, select) \in Seq(Proj(schema))
           /\ (\E k \in 1..Len(select.items) : select.items[k].what # "agg")
                 => ReadColumns(schema, select) # <<>>
<1> DEFINE P == Proj(schema)
           items == ItemsOf(select, "col")
           named == [i \in DOMAIN items |-> Projection(items[i].alias, items[i].name)]
           all == Available(schema)
           C == Len(schema)
           cut == ToSet(all) \ ToSet(named)
           rest == Filtered(all, cut)
           columns == ReadColumns(schema, select)
<1>0. select.items \in Seq(ItemSet)
  BY DEF IsSelect, ItemSet
<1>a. select.items # <<>> /\ Len(select.items) \in Nat /\ DOMAIN select.items = 1..Len(select.items)
      /\ \A k \in 1..Len(select.items) : select.items[k] \in ItemSet
  <2> HIDE DEF ItemSet
  <2>1. QED
    BY <1>0, ToSetIsMembers DEF IsSelect
<1>1. \A n \in Names(schema), a \in STRING \cup {""} : Projection(a, n) \in P
  BY DEF Projection, Proj
<1>2. /\ items \in Seq(ItemSet)
      /\ \A i \in 1..Len(items) : \E k \in 1..Len(select.items) :
            items[i] = select.items[k] /\ select.items[k].what = "col"
      /\ \A k \in 1..Len(select.items) : select.items[k].what = "col" => items # <<>>
  BY <1>0, ItemsShape
<1> HIDE DEF items
<1>3. Len(items) \in Nat /\ DOMAIN items = 1..Len(items)
      /\ \A i \in 1..Len(items) : items[i] \in ItemSet
      /\ items = <<>> <=> Len(items) = 0
  <2> HIDE DEF ItemSet
  <2>1. QED
    BY <1>2, ToSetIsMembers
<1>4. \A i \in 1..Len(items) : items[i].name \in Names(schema) /\ items[i].alias \in STRING
  <2> TAKE i \in 1..Len(items)
  <2>1. PICK k \in 1..Len(select.items) : items[i] = select.items[k] /\ select.items[k].what = "col"
    BY <1>2
  <2>2. select.items[k].name \in Names(schema)
    BY <1>a, <2>1 DEF Plannable
  <2>3. select.items[k].alias \in STRING
    BY <1>a DEF ItemSet
  <2>4. QED
    BY <2>1, <2>2, <2>3
<1>5. DOMAIN named = 1..Len(items) /\ \A i \in 1..Len(items) : named[i] \in P
  BY <1>1, <1>3, <1>4
<1>6. named = [i \in 1..Len(items) |-> named[i]]
  BY <1>3
<1> HIDE DEF named, P
<1>7. named \in Seq(P) /\ Len(named) = Len(items)
  BY <1>3, <1>5, <1>6
<1>8. C \in Nat \ {0} /\ all \in Seq(P) /\ Len(all) = C
  <2>1. C \in Nat \ {0} /\ DOMAIN schema = 1..C /\ \A c \in 1..C : schema[c].name \in Names(schema)
    BY SchemaNames
  <2>2. all = [c \in 1..C |-> Projection("", schema[c].name)]
    BY <2>1 DEF Available
  <2>3. "" \in STRING \cup {""}
    OBVIOUS
  <2>4. \A c \in 1..C : Projection("", schema[c].name) \in P
    BY <1>1, <2>1, <2>3
  <2>5. \A c \in 1..C : all[c] \in P
    BY <2>2, <2>4
  <2>6. DOMAIN all = 1..C /\ all = [c \in 1..C |-> all[c]]
    BY <2>2
  <2> HIDE DEF all, C
  <2>7. QED
    BY <2>1, <2>5, <2>6, IsSeqOf
<1> HIDE DEF all
<1>9. rest \in Seq(P) /\ Members(rest) = Members(all) \cap cut
  BY <1>8, FilteredType, FilteredMembers
<1>10. columns = IF ItemsOf(select, "star") = <<>> THEN named ELSE Cat(named, rest)
  BY DEF ReadColumns, Cat, rest, cut, all, named, items
<1> HIDE DEF rest, columns
<1>11. Cat(named, rest) \in Seq(P) /\ Len(Cat(named, rest)) = Len(named) + Len(rest)
  BY <1>7, <1>9, CatType
<1>12. columns \in Seq(P)
  BY <1>7, <1>10, <1>11
<1>13. ASSUME NEW k \in 1..Len(select.items), select.items[k].what # "agg"
       PROVE  columns # <<>>
  <2>1. Len(named) \in Nat /\ Len(rest) \in Nat
    BY <1>7, <1>9
  <2>2. CASE select.items[k].what = "col"
    <3>1. Len(named) # 0
      BY <1>2, <1>3, <1>7, <2>2
    <3>2. Len(columns) # 0
      BY <1>10, <1>11, <2>1, <3>1
    <3>3. QED
      BY <1>12, <3>2, EmptySeq
  <2>3. CASE select.items[k].what = "star"
    <3>1. ItemsOf(select, "star") # <<>>
      BY <1>0, <2>3, ItemsShape
    <3>2. Len(named) # 0 \/ Len(rest) # 0
      <4>1. SUFFICES ASSUME Len(named) = 0, Len(rest) = 0 PROVE FALSE
        OBVIOUS
      <4>2. ToSet(named) = {} /\ ToSet(rest) = {} /\ ToSet(rest) = Members(rest)
        BY <1>7, <1>9, <4>1, ToSetIsMembers
      <4>3. all[1] \in ToSet(all) /\ all[1] \in Members(all)
        <5>1. 1 \in 1..Len(all)
          BY <1>8
        <5>2. QED
          BY <1>8, <5>1, ToSetIsMembers
      <4>4. QED
        BY <1>9, <4>2, <4>3 DEF cut
    <3>3. Len(columns) # 0
      BY <1>10, <1>11, <2>1, <3>1, <3>2
    <3>4. QED
      BY <1>12, <3>3, EmptySeq
  <2>4. QED
    BY <1>13, <1>a, <2>2, <2>3 DEF ItemSet
<1>14. QED
  BY <1>12, <1>13 DEF columns, P

(* A SELECT is planned only if the aggregator can answer every item of it. *)
LEMMA SelectPlanned ==
    ASSUME NEW schema, IsSchema(schema), NEW select, IsSelect(select),
           Plannable(schema, select), Compiles(select.where, schema)
    PROVE  IsQuery(schema, SelectNode(schema, select))
<1> DEFINE P == Proj(schema)
           columns == ReadColumns(schema, select)
           aggregates == ItemsOf(select, "agg")
           group_by == GroupBy(schema, select)
           order_by == OrderBy(schema, select)
           q == SelectNode(schema, select)
<1>0. select.items \in Seq(ItemSet)
  BY DEF IsSelect, ItemSet
<1>a. select.items # <<>> /\ Len(select.items) \in Nat /\ DOMAIN select.items = 1..Len(select.items)
      /\ \A k \in 1..Len(select.items) : select.items[k] \in ItemSet
      /\ 1 \in 1..Len(select.items)
  <2> HIDE DEF ItemSet
  <2>1. select.items # <<>>
    BY DEF IsSelect
  <2>2. QED
    BY <1>0, <2>1, ToSetIsMembers
<1>1. columns \in Seq(P)
  BY ColumnsRead
<1>2. /\ aggregates \in Seq(ItemSet)
      /\ \A i \in 1..Len(aggregates) : \E k \in 1..Len(select.items) :
            aggregates[i] = select.items[k] /\ select.items[k].what = "agg"
  BY <1>0, ItemsShape
<1>b. \A k \in 1..Len(select.items) : select.items[k].what = "agg" => aggregates # <<>>
  BY <1>0, ItemsShape
<1>3. Len(aggregates) \in Nat /\ DOMAIN aggregates = 1..Len(aggregates)
  <2> HIDE DEF ItemSet, aggregates
  <2>1. QED
    BY <1>2
<1>4. \A a \in 1..Len(aggregates) : /\ aggregates[a].name \in Names(schema)
                                    /\ aggregates[a].fn \in AggregateFn
  <2> TAKE a \in 1..Len(aggregates)
  <2>1. PICK k \in 1..Len(select.items) :
           aggregates[a] = select.items[k] /\ select.items[k].what = "agg"
    BY <1>2
  <2>2. select.items[k].name \in Names(schema)
    BY <1>a, <2>1 DEF Plannable
  <2>3. select.items[k].fn \in AggregateFn
    BY <1>a, <2>1 DEF IsSelect
  <2>4. QED
    BY <2>1, <2>2, <2>3
<1>5. group_by \in Seq(P)
  <2>1. CASE select.group_by = <<"*">>
    BY <1>1, <2>1 DEF GroupBy
  <2>2. CASE select.group_by # <<"*">>
    <3> DEFINE g == select.group_by
               STR == STRING
    <3> HIDE DEF STR
    <3>1. g \in Seq(STR)
      BY DEF IsSelect, STR
    <3>2. NamesIn(g, schema)
      BY <2>2 DEF Plannable
    <3>3. group_by = [i \in DOMAIN g |-> Projection("", g[i])]
      BY <2>2 DEF GroupBy
    <3> HIDE DEF g, group_by
    <3>4. Len(g) \in Nat /\ DOMAIN g = 1..Len(g)
      BY <3>1
    <3>5. \A i \in 1..Len(g) : Projection("", g[i]) \in P
      BY <3>2, <3>4 DEF NamesIn, Projection, Proj
    <3>6. /\ \A i \in 1..Len(g) : group_by[i] \in P
          /\ DOMAIN group_by = 1..Len(g) /\ group_by = [i \in 1..Len(g) |-> group_by[i]]
      BY <3>3, <3>4, <3>5
    <3> HIDE DEF P
    <3>7. QED
      BY <3>4, <3>6, IsSeqOf
  <2>3. QED
    BY <2>1, <2>2
<1>6. /\ select.group_by = <<>> => group_by = <<>>
      /\ group_by # <<>> => ToSet(columns) \subseteq ToSet(group_by)
      /\ select.group_by = <<>> /\ aggregates # <<>> => columns = <<>>
  <2>1. select.group_by = <<>> => group_by = <<>>
    <3>1. SUFFICES ASSUME select.group_by = <<>> PROVE group_by = <<>>
      OBVIOUS
    <3>2. Len(<<"*">>) = 1 /\ Len(<<>>) = 0
      OBVIOUS
    <3>3. select.group_by # <<"*">>
      BY <3>1, <3>2
    <3>4. DOMAIN <<>> = {}
      OBVIOUS
    <3>5. QED
      BY <3>1, <3>3 DEF GroupBy
  <2>2. QED
    BY <2>1 DEF Plannable
<1>7. group_by = <<>> /\ aggregates # <<>> => columns = <<>>
  <2>1. SUFFICES ASSUME group_by = <<>>, aggregates # <<>> PROVE columns = <<>>
    OBVIOUS
  <2>2. CASE select.group_by = <<"*">>
    BY <2>1, <2>2 DEF GroupBy
  <2>3. CASE select.group_by # <<"*">>
    <3> DEFINE g == select.group_by
               STR == STRING
    <3> HIDE DEF STR
    <3>1. g \in Seq(STR)
      BY DEF IsSelect, STR
    <3>2. group_by = [i \in DOMAIN g |-> Projection("", g[i])]
      BY <2>3 DEF GroupBy
    <3> HIDE DEF g
    <3>3. DOMAIN group_by = DOMAIN g
      BY <3>2
    <3>4. DOMAIN group_by = {}
      BY <2>1
    <3> HIDE DEF group_by
    <3>a. Len(g) \in Nat /\ DOMAIN g = 1..Len(g)
      BY <3>1
    <3>5. Len(g) \in Nat /\ 1..Len(g) = {}
      BY <3>a, <3>3, <3>4
    <3>6. Len(g) = 0
      <4>1. Len(g) # 0 => 1 \in 1..Len(g)
        BY <3>5
      <4>2. QED
        BY <3>5, <4>1
    <3>7. g = <<>>
      BY <3>1, <3>6, EmptySeq
    <3>8. QED
      BY <1>6, <2>1, <3>7 DEF g
  <2>4. QED
    BY <2>2, <2>3
<1>8. columns # <<>> \/ aggregates # <<>>
  <2>1. CASE select.items[1].what = "agg"
    BY <1>a, <1>b, <2>1
  <2>2. CASE select.items[1].what # "agg"
    BY <1>a, <2>2, ColumnsRead
  <2>3. QED
    BY <2>1, <2>2
<1>9. order_by \in Seq(Seq(ToSet(columns)))
  <2> DEFINE S == ToSet(columns)
             Q == Seq(S)
  <2>1. CASE select.order_by = <<<<"*">>>>
    <3>1. order_by = <<columns>>
      BY <2>1 DEF OrderBy
    <3>2. columns \in Seq(S)
      <4> HIDE DEF columns, P, S
      <4>1. Len(columns) \in Nat /\ DOMAIN columns = 1..Len(columns)
            /\ columns = [i \in 1..Len(columns) |-> columns[i]]
            /\ \A i \in 1..Len(columns) : columns[i] \in S
        BY <1>1, ToSetIsMembers DEF S
      <4>2. QED
        BY <4>1
    <3>3. columns \in Q
      BY <3>2 DEF Q
    <3> HIDE DEF Q, columns, order_by, S
    <3>4. order_by \in Seq(Q)
      BY <3>1, <3>3
    <3>5. QED
      BY <3>4 DEF order_by, Q, S, columns
  <2>2. CASE select.order_by # <<<<"*">>>>
    <3> DEFINE o == select.order_by
               SEQ == Seq(STRING)
    <3>1. o \in Seq(SEQ)
      BY DEF IsSelect
    <3>2. order_by = [i \in DOMAIN o |-> [j \in DOMAIN o[i] |-> Identified(o[i][j], columns)[1]]]
      BY <2>2 DEF OrderBy
    <3>3. \A i \in DOMAIN o : \A j \in DOMAIN o[i] : Identified(o[i][j], columns) # <<>>
      BY <2>2 DEF Plannable
    <3> HIDE DEF o, order_by, columns
    <3>4. Len(o) \in Nat /\ DOMAIN o = 1..Len(o) /\ \A i \in 1..Len(o) : o[i] \in SEQ
      <4> HIDE DEF SEQ
      <4>1. QED
        BY <3>1
    <3>5. ASSUME NEW name, Identified(name, columns) # <<>>
          PROVE  Identified(name, columns)[1] \in S
      <4> DEFINE keep == {p \in ToSet(columns) : (IF p.alias # "" THEN p.alias ELSE p.name) = name}
                 f == Identified(name, columns)
      <4>1. f = Filtered(columns, keep)
        BY DEF Identified
      <4> HIDE DEF f, keep, P
      <4>2. f \in Seq(P) /\ Members(f) = Members(columns) \cap keep
        BY <1>1, <4>1, FilteredType, FilteredMembers
      <4>3. f # <<>>
        BY <3>5 DEF f
      <4>4. 1 \in 1..Len(f)
        BY <4>2, <4>3, EmptySeq
      <4>5. f[1] \in Members(f)
        BY <4>2, <4>4, ToSetIsMembers
      <4>6. f[1] \in ToSet(columns)
        BY <1>1, <4>2, <4>5, ToSetIsMembers
      <4>7. QED
        BY <4>6 DEF f
    <3>6. ASSUME NEW i \in 1..Len(o)
          PROVE  [j \in DOMAIN o[i] |-> Identified(o[i][j], columns)[1]] \in Q
      <4> DEFINE l == o[i]
      <4>1. l \in Seq(STRING)
        BY <3>4
      <4>2. Len(l) \in Nat /\ DOMAIN l = 1..Len(l)
        <5> DEFINE STR == STRING
        <5> HIDE DEF STR, l
        <5>1. l \in Seq(STR)
          BY <4>1 DEF STR
        <5>2. QED
          BY <5>1
      <4>3. \A j \in 1..Len(l) : Identified(l[j], columns)[1] \in S
        <5> TAKE j \in 1..Len(l)
        <5>1. Identified(l[j], columns) # <<>>
          BY <3>3, <3>4, <4>2
        <5>2. QED
          BY <3>5, <5>1
      <4> HIDE DEF l, S
      <4>4. [j \in DOMAIN l |-> Identified(l[j], columns)[1]] \in Seq(S)
        BY <4>2, <4>3
      <4>5. QED
        BY <4>4 DEF l, Q
    <3> HIDE DEF Q
    <3>7. order_by \in Seq(Q)
      BY <3>2, <3>4, <3>6
    <3>8. QED
      BY <3>7 DEF Q, order_by, columns
  <2>3. QED
    BY <2>1, <2>2
<1>10. IsExpression(select.where) /\ select.limit \in Nat \cup {NoLimit} /\ select.offset \in Nat
  BY QueryAssumption DEF IsSelect
<1>11. /\ q.columns = columns /\ q.aggregates = aggregates /\ q.group_by = group_by
       /\ q.order_by = order_by /\ q.where = select.where
       /\ q.limit = select.limit /\ q.offset = select.offset
  BY DEF SelectNode
<1> HIDE DEF q, columns, aggregates, group_by, order_by, P
<1>12. IsQuery(schema, q)
  BY <1>1, <1>2, <1>4, <1>5, <1>6, <1>7, <1>8, <1>9, <1>10, <1>11 DEF IsQuery, P
<1>13. QED
  BY <1>12 DEF q

-----------------------------------------------------------------------------
(* What a scan reads *)

CutOf(rows) == [g \in 1..MarkCount(rows) |-> Granule(rows, g)]
CutsOf(ps) == [i \in DOMAIN ps |-> CutOf(ps[i])]
ChunksOf(ps) == FlattenSeq(CutsOf(ps))

(* The granules of a part are its rows, cut into short sequences.          *)
LEMMA CutJoins ==
    ASSUME NEW S, NEW rows \in Seq(S)
    PROVE  /\ CutOf(rows) \in Seq(Seq(S)) /\ Len(CutOf(rows)) = MarkCount(rows)
           /\ \A g \in 1..Len(CutOf(rows)) : Len(CutOf(rows)[g]) \in 1..Granularity
           /\ FlattenSeq(CutOf(rows)) = rows
<1> DEFINE M == MarkCount(rows)
           c == CutOf(rows)
           Q == Seq(S)
           L == Len(rows)
<1>1. M \in Nat /\ (M = 0 <=> rows = <<>>) /\ L \in Nat
  BY NoMarks
<1>2. DOMAIN c = 1..M /\ c = [g \in 1..M |-> c[g]] /\ \A g \in 1..M : c[g] = Granule(rows, g)
  BY DEF CutOf
<1>3. ASSUME NEW g \in 1..M PROVE L > 0
  BY <1>1, EmptySeq
<1>4. \A g \in 1..M : c[g] \in Q /\ Len(c[g]) \in 1..Granularity
  BY <1>2, <1>3, GranulePiece
<1> HIDE DEF c, M
<1>5. c \in Seq(Q) /\ Len(c) = M
  <2> HIDE DEF Q
  <2>1. QED
    BY <1>1, <1>2, <1>4, IsSeqOf
<1>6. CASE M = 0
  <2>1. c = <<>>
    BY <1>5, <1>6, EmptySeq
  <2>2. QED
    BY <1>1, <1>4, <1>5, <1>6, <2>1, FlatEmpty DEF c, M
<1>7. CASE M # 0
  <2> DEFINE T == {n \in Nat : n <= M => FlattenSeq(Piece(c, 1, n)) =
                                         Piece(rows, 1, Least(n * Granularity, L))}
  <2>0. L > 0 /\ Granularity \in Nat \ {0} /\ 1 \in 1..M
    BY <1>1, <1>3, <1>7, GranularityAssumption
  <2>1. 0 \in T
    <3>1. Piece(c, 1, 0) = <<>>
      BY <1>1, <1>5, PieceType
    <3>2. Least(0 * Granularity, L) = 0
      BY <2>0 DEF Least
    <3>3. Piece(rows, 1, 0) = <<>>
      BY <1>1, PieceType
    <3>4. QED
      BY <3>1, <3>2, <3>3, FlatEmpty
  <2>2. ASSUME NEW n \in Nat, n \in T PROVE n + 1 \in T
    <3> SUFFICES ASSUME n + 1 <= M
                 PROVE  FlattenSeq(Piece(c, 1, n + 1)) =
                           Piece(rows, 1, Least((n + 1) * Granularity, L))
      OBVIOUS
    <3>1. n + 1 \in 1..M /\ n + 1 \in Int /\ n \in Int
      BY <1>1
    <3>2. FlattenSeq(Piece(c, 1, n)) = Piece(rows, 1, Least(n * Granularity, L))
      BY <2>2, <1>1
    <3>3. n * Granularity < L /\ n * Granularity \in Nat
      <4>1. n + 1 - 1 = n
        OBVIOUS
      <4>2. QED
        BY <2>0, <3>1, <4>1, GranuleEnds DEF M
    <3>4. Least(n * Granularity, L) = n * Granularity
      BY <3>3 DEF Least
    <3>5. Piece(c, 1, n + 1) = Cat(Piece(c, 1, n), <<c[n + 1]>>)
      <4>1. Piece(c, n + 1, n + 1) = <<c[n + 1]>>
        BY <1>5, <3>1, PieceOne
      <4>2. Cat(Piece(c, 1, n), Piece(c, n + 1, n + 1)) = Piece(c, 1, n + 1)
        BY <1>5, <1>1, <3>1, PieceCat
      <4>3. QED
        BY <4>1, <4>2
    <3>6. Piece(c, 1, n) \in Seq(Q) /\ c[n + 1] \in Q
      BY <1>1, <1>4, <1>5, <3>1, PieceType
    <3> DEFINE p == Piece(c, 1, n)
               e == c[n + 1]
               one == <<e>>
    <3>7. one \in Seq(Q)
      <4> HIDE DEF e, Q
      <4>1. e \in Q
        BY <3>6 DEF e
      <4>2. QED
        BY <4>1
    <3>8. FlattenSeq(one) = e
      <4> HIDE DEF e
      <4>1. e \in Seq(S)
        BY <3>6 DEF e
      <4>2. QED
        BY <4>1, FlatOne
    <3> HIDE DEF p, one, e
    <3>9. FlattenSeq(Cat(p, one)) = Cat(FlattenSeq(p), FlattenSeq(one))
      BY <3>6, <3>7, FlatCat DEF p
    <3>10. Cat(Piece(rows, 1, n * Granularity), Granule(rows, n + 1)) =
              Piece(rows, 1, Least((n + 1) * Granularity, L))
      <4>1. n + 1 - 1 = n
        OBVIOUS
      <4>2. QED
        BY <2>0, <3>1, <4>1, GranulePiece DEF M
    <3>11. e = Granule(rows, n + 1)
      BY <1>2, <3>1 DEF e
    <3>12. FlattenSeq(Piece(c, 1, n + 1)) = Cat(FlattenSeq(p), e)
      BY <3>5, <3>8, <3>9 DEF p, one, e
    <3>13. FlattenSeq(p) = Piece(rows, 1, n * Granularity)
      BY <3>2, <3>4 DEF p
    <3>14. QED
      BY <3>10, <3>11, <3>12, <3>13
  <2> HIDE DEF T
  <2>3. M \in T
    BY <1>1, <2>1, <2>2, CountingUp
  <2>4. FlattenSeq(Piece(c, 1, M)) = Piece(rows, 1, Least(M * Granularity, L))
    BY <1>1, <2>3 DEF T
  <2>5. L <= M * Granularity /\ M * Granularity \in Nat
    <3>1. M \in 1..M
      BY <1>1, <1>7
    <3>2. QED
      BY <2>0, <3>1, GranuleEnds DEF M
  <2>6. Least(M * Granularity, L) = L
    BY <1>1, <2>5 DEF Least
  <2>7. Piece(c, 1, M) = c /\ Piece(rows, 1, L) = rows
    BY <1>5, PieceWhole
  <2>8. QED
    BY <1>4, <1>5, <2>4, <2>6, <2>7 DEF c, M
<1>8. QED
  BY <1>6, <1>7

(* The chunks of a scan are the rows of the parts, one part after another. *)
LEMMA ChunksJoin ==
    ASSUME NEW S, NEW ps \in Seq(Seq(S))
    PROVE  /\ ChunksOf(ps) \in Seq(Seq(S))
           /\ \A k \in 1..Len(ChunksOf(ps)) : Len(ChunksOf(ps)[k]) \in 1..Granularity
           /\ FlattenSeq(ChunksOf(ps)) = FlattenSeq(ps)
<1> DEFINE Q == Seq(S)
           Short == {s \in Q : Len(s) \in 1..Granularity}
           T == {a \in Seq(Q) : /\ CutsOf(a) \in Seq(Seq(Short))
                                /\ FlattenSeq(ChunksOf(a)) = FlattenSeq(a)}
<1>1. <<>> \in T
  <2>1. <<>> \in Seq(Q) /\ CutsOf(<<>>) = <<>>
    BY DEF CutsOf
  <2>2. FlattenSeq(ChunksOf(<<>>)) = FlattenSeq(<<>>)
    BY <2>1, FlatEmpty DEF ChunksOf
  <2>3. <<>> \in Seq(Seq(Short))
    OBVIOUS
  <2>4. QED
    BY <2>1, <2>2, <2>3
<1>2. ASSUME NEW a \in Seq(Q), NEW e \in Q, a \in T PROVE Put(a, e) \in T
  <2>1. CutsOf(a) \in Seq(Seq(Short)) /\ FlattenSeq(ChunksOf(a)) = FlattenSeq(a)
    BY <1>2
  <2> DEFINE one == <<e>>
             cut == CutOf(e)
             cuts == <<cut>>
  <2>2. Put(a, e) = Cat(a, one) /\ one \in Seq(Q)
    <3> HIDE DEF Q
    <3>1. QED
      BY AppendIsConcat DEF Put, Cat
  <2>3. /\ cut \in Seq(Q) /\ FlattenSeq(cut) = e
        /\ \A g \in 1..Len(cut) : Len(cut[g]) \in 1..Granularity
    BY CutJoins
  <2>4. cut \in Seq(Short)
    <3> HIDE DEF cut, Q
    <3>1. Len(cut) \in Nat /\ DOMAIN cut = 1..Len(cut) /\ cut = [g \in 1..Len(cut) |-> cut[g]]
          /\ \A g \in 1..Len(cut) : cut[g] \in Q
      BY <2>3
    <3>2. \A g \in 1..Len(cut) : cut[g] \in Short
      BY <2>3, <3>1
    <3> HIDE DEF Short
    <3>3. QED
      BY <3>1, <3>2, IsSeqOf
  <2> DEFINE SEQ == Seq(Short)
  <2>5. CutsOf(Put(a, e)) = Cat(CutsOf(a), cuts)
    <3>1. /\ DOMAIN Put(a, e) = 1..(Len(a) + 1) /\ DOMAIN a = 1..Len(a) /\ Len(a) \in Nat
          /\ \A i \in 1..Len(a) : Put(a, e)[i] = a[i]
          /\ Put(a, e)[Len(a) + 1] = e
      <4> HIDE DEF Q
      <4>1. QED
        BY DEF Put
    <3> DEFINE n == Len(a)
               l == CutsOf(Put(a, e))
               k == CutsOf(a)
    <3>2. l = [i \in 1..(n + 1) |-> CutOf(Put(a, e)[i])]
      BY <3>1 DEF CutsOf
    <3>3. k = [i \in 1..n |-> CutOf(a[i])]
      BY <3>1 DEF CutsOf
    <3>4. /\ DOMAIN l = 1..(n + 1) /\ l = [i \in 1..(n + 1) |-> l[i]]
          /\ \A i \in 1..n : l[i] = k[i]
          /\ l[n + 1] = cut
      <4>1. \A i \in 1..n : i \in 1..(n + 1)
        BY <3>1
      <4>2. n + 1 \in 1..(n + 1)
        BY <3>1
      <4> HIDE DEF n, cut
      <4>3. QED
        BY <3>1, <3>2, <3>3, <4>1, <4>2 DEF n, cut
    <3> HIDE DEF l, k, cut, SEQ
    <3>5. k \in Seq(SEQ) /\ Len(k) = n /\ cut \in SEQ
      <4>1. DOMAIN k = 1..n
        BY <3>3
      <4>2. k \in Seq(SEQ)
        BY <2>1 DEF k, SEQ
      <4>3. QED
        BY <2>4, <3>1, <4>1, <4>2 DEF SEQ
    <3>6. l = Cat(k, <<cut>>)
      <4> DEFINE c == Cat(k, <<cut>>)
      <4>1. /\ DOMAIN c = 1..(n + 1) /\ c = [i \in 1..(n + 1) |-> c[i]]
            /\ \A i \in 1..n : c[i] = k[i]
            /\ c[n + 1] = cut
        <5> HIDE DEF n
        <5>1. Len(k) = n /\ n \in Nat
          BY <3>1, <3>5 DEF n
        <5>2. QED
          BY <3>5, <5>1 DEF Cat
      <4> HIDE DEF c
      <4>2. \A i \in 1..(n + 1) : i \in 1..n \/ i = n + 1
        BY <3>1
      <4>3. \A i \in 1..(n + 1) : l[i] = c[i]
        BY <3>4, <4>1, <4>2
      <4>4. QED
        BY <3>4, <4>1, <4>3 DEF c
    <3>7. QED
      BY <3>6 DEF l, k, cuts
  <2>6. cuts \in Seq(SEQ)
    <3> HIDE DEF cut, SEQ
    <3>1. cut \in SEQ
      BY <2>4 DEF SEQ
    <3>2. QED
      BY <3>1
  <2> HIDE DEF cuts, Short, cut, one
  <2>7. CutsOf(Put(a, e)) \in Seq(SEQ)
    <3> DEFINE k == CutsOf(a)
    <3>1. k \in Seq(SEQ)
      BY <2>1
    <3> HIDE DEF k, SEQ
    <3>2. QED
      BY <2>5, <2>6, <3>1, CatType DEF k
  <2>8. ChunksOf(Put(a, e)) = Cat(ChunksOf(a), cut)
    <3>1. FlattenSeq(cuts) = cut
      BY <2>4, FlatOne DEF cuts
    <3>2. QED
      BY <2>1, <2>5, <2>6, <3>1, FlatCat DEF ChunksOf
  <2>9. ChunksOf(a) \in Seq(Q)
    <3>1. ChunksOf(a) \in Seq(Short)
      BY <2>1, FlatType DEF ChunksOf
    <3> DEFINE c == ChunksOf(a)
    <3> HIDE DEF c, Q
    <3>2. c \in Seq(Q)
      <4>1. Len(c) \in Nat /\ DOMAIN c = 1..Len(c) /\ c = [i \in 1..Len(c) |-> c[i]]
            /\ \A i \in 1..Len(c) : c[i] \in Short
        BY <3>1 DEF c
      <4>2. \A i \in 1..Len(c) : c[i] \in Q
        BY <4>1 DEF Short
      <4>3. QED
        BY <4>1, <4>2, IsSeqOf
    <3>3. QED
      BY <3>2 DEF c
  <2>10. FlattenSeq(ChunksOf(Put(a, e))) = Cat(FlattenSeq(ChunksOf(a)), e)
    BY <2>3, <2>8, <2>9, FlatCat
  <2>11. FlattenSeq(Put(a, e)) = Cat(FlattenSeq(a), e)
    <3>1. FlattenSeq(one) = e
      BY FlatOne DEF one
    <3>2. QED
      BY <2>2, <3>1, FlatCat
  <2>12. Put(a, e) \in Seq(Q)
    BY <2>2, CatType
  <2>13. QED
    BY <2>1, <2>7, <2>10, <2>11, <2>12
<1>3. ps \in T
  <2> HIDE DEF T, Q
  <2>1. \A a \in Seq(Q) : a \in T
    BY <1>1, <1>2, ListsGrow
  <2>2. QED
    BY <2>1 DEF Q
<1> HIDE DEF Short
<1>4. ChunksOf(ps) \in Seq(Short)
  BY <1>3, FlatType DEF ChunksOf
<1> DEFINE c == ChunksOf(ps)
<1>5. \A k \in 1..Len(c) : c[k] \in Short
  BY <1>4
<1> HIDE DEF c, Q
<1>6. c \in Seq(Q)
  <2>1. Len(c) \in Nat /\ DOMAIN c = 1..Len(c) /\ c = [i \in 1..Len(c) |-> c[i]]
    BY <1>4 DEF c
  <2>2. \A i \in 1..Len(c) : c[i] \in Q
    BY <1>5 DEF Short
  <2>3. QED
    BY <2>1, <2>2, IsSeqOf
<1>7. \A k \in 1..Len(c) : Len(c[k]) \in 1..Granularity
  BY <1>5 DEF Short
<1>8. QED
  BY <1>3, <1>6, <1>7 DEF c, Q

(* The columns a SELECT reads.                                             *)
Reads(schema, q, cols) ==
    /\ cols \in Seq(Names(schema)) /\ Len(cols) \in Nat \ {0} /\ DOMAIN cols = 1..Len(cols)
    /\ ~Aggregating(q) =>
          /\ Len(cols) = Len(q.columns)
          /\ \A c \in 1..Len(q.columns) : cols[c] = q.columns[c].name
    /\ Aggregating(q) =>
          /\ Len(cols) = Len(q.group_by) + Len(q.aggregates)
          /\ \A c \in 1..Len(q.group_by) : cols[c] = q.group_by[c].name
          /\ \A a \in 1..Len(q.aggregates) :
                cols[Len(q.group_by) + a] = q.aggregates[a].name

LEMMA NamesOf ==
    ASSUME NEW schema, NEW list, Len(list) \in Nat, DOMAIN list = 1..Len(list),
           \A i \in 1..Len(list) : list[i].name \in Names(schema)
    PROVE  LET names == [i \in DOMAIN list |-> list[i].name]
           IN  /\ names \in Seq(Names(schema)) /\ Len(names) = Len(list)
               /\ \A i \in 1..Len(list) : names[i] = list[i].name
<1> DEFINE M == Names(schema)
           names == [i \in DOMAIN list |-> list[i].name]
           n == Len(list)
<1>1. /\ DOMAIN names = 1..n /\ names = [i \in 1..n |-> names[i]]
      /\ \A i \in 1..n : names[i] = list[i].name /\ names[i] \in M
  OBVIOUS
<1> HIDE DEF M, names
<1>2. names \in Seq(M) /\ Len(names) = n
  BY <1>1, IsSeqOf
<1>3. QED
  BY <1>1, <1>2 DEF M, names

LEMMA ProjectionsShape ==
    ASSUME NEW schema, NEW list \in Seq(Proj(schema))
    PROVE  /\ Len(list) \in Nat /\ DOMAIN list = 1..Len(list)
           /\ (list = <<>> <=> Len(list) = 0)
           /\ \A i \in 1..Len(list) : list[i] \in Proj(schema)
           /\ \A i \in 1..Len(list) : list[i].name \in Names(schema)
<1> DEFINE P == Proj(schema)
<1> HIDE DEF P
<1>1. /\ Len(list) \in Nat /\ DOMAIN list = 1..Len(list)
      /\ (list = <<>> <=> Len(list) = 0)
      /\ \A i \in 1..Len(list) : list[i] \in P
  <2>1. list \in Seq(P)
    BY DEF P
  <2>2. QED
    BY <2>1, EmptySeq
<1>2. \A p \in P : p.name \in Names(schema)
  BY DEF P, Proj
<1>3. QED
  BY <1>1, <1>2 DEF P

LEMMA AggregatesShape ==
    ASSUME NEW list \in Seq(ItemSet)
    PROVE  /\ Len(list) \in Nat /\ DOMAIN list = 1..Len(list)
           /\ (list = <<>> <=> Len(list) = 0)
<1> HIDE DEF ItemSet
<1>1. QED
  BY EmptySeq

LEMMA ToReadShape ==
    ASSUME NEW schema, NEW q, IsQuery(schema, q)
    PROVE  Reads(schema, q, ToRead(q))
<1> DEFINE C == q.columns
           G == q.group_by
           A == q.aggregates
           M == Names(schema)
           r == ToRead(q)
<1>1. /\ Len(C) \in Nat /\ DOMAIN C = 1..Len(C) /\ (C = <<>> <=> Len(C) = 0)
      /\ \A i \in 1..Len(C) : C[i].name \in M
  BY ProjectionsShape DEF IsQuery
<1>2. /\ Len(G) \in Nat /\ DOMAIN G = 1..Len(G) /\ (G = <<>> <=> Len(G) = 0)
      /\ \A i \in 1..Len(G) : G[i].name \in M
  BY ProjectionsShape DEF IsQuery
<1>3. /\ Len(A) \in Nat /\ DOMAIN A = 1..Len(A) /\ (A = <<>> <=> Len(A) = 0)
      /\ \A i \in 1..Len(A) : A[i].name \in M
      /\ C # <<>> \/ G # <<>> \/ A # <<>>
  BY AggregatesShape DEF IsQuery
<1>4. CASE ~Aggregating(q)
  <2>1. r = [i \in DOMAIN C |-> C[i].name] /\ Len(C) # 0
    BY <1>1, <1>4 DEF ToRead, Aggregating
  <2> DEFINE names == [i \in DOMAIN C |-> C[i].name]
  <2>2. names \in Seq(M) /\ Len(names) = Len(C) /\ \A i \in 1..Len(C) : names[i] = C[i].name
    BY <1>1, NamesOf
  <2> HIDE DEF names, M
  <2>3. r = names
    BY <2>1 DEF names
  <2> HIDE DEF r
  <2>4. r \in Seq(M) /\ Len(r) \in Nat \ {0} /\ DOMAIN r = 1..Len(r) /\ Len(r) = Len(C)
    BY <1>1, <2>1, <2>2, <2>3
  <2>5. QED
    BY <1>4, <2>2, <2>3, <2>4 DEF Reads, r, M
<1>5. CASE Aggregating(q)
  <2> DEFINE g == [i \in DOMAIN G |-> G[i].name]
             a == [i \in DOMAIN A |-> A[i].name]
  <2>1. r = Cat(g, a)
    BY <1>5 DEF ToRead, Cat
  <2>2. g \in Seq(M) /\ Len(g) = Len(G) /\ \A i \in 1..Len(G) : g[i] = G[i].name
    BY <1>2, NamesOf
  <2>3. a \in Seq(M) /\ Len(a) = Len(A) /\ \A i \in 1..Len(A) : a[i] = A[i].name
    BY <1>3, NamesOf
  <2>5. Len(G) # 0 \/ Len(A) # 0
    BY <1>1, <1>2, <1>3, <1>5 DEF Aggregating
  <2> HIDE DEF g, a, M, r, G, A
  <2>6. r \in Seq(M)
    BY <2>1, <2>2, <2>3, CatType
  <2>7. Len(r) = Len(g) + Len(a)
    BY <2>1, <2>2, <2>3, CatType
  <2>8. \A i \in 1..Len(g) : r[i] = g[i]
    <3>1. g \in Seq(M) /\ a \in Seq(M)
      BY <2>2, <2>3
    <3>2. \A i \in 1..Len(g) : Cat(g, a)[i] = g[i]
      BY <3>1, CatType
    <3>3. QED
      BY <2>1, <3>2
  <2>9. \A i \in 1..Len(a) : r[Len(g) + i] = a[i]
    <3>1. g \in Seq(M) /\ a \in Seq(M)
      BY <2>2, <2>3
    <3>2. \A i \in 1..Len(a) : Cat(g, a)[Len(g) + i] = a[i]
      BY <3>1, CatType
    <3>3. QED
      BY <2>1, <3>2
  <2>10. Len(r) = Len(G) + Len(A)
    BY <2>2, <2>3, <2>7
  <2>11. Len(r) \in Nat /\ DOMAIN r = 1..Len(r)
    BY <2>6
  <2>12. Len(r) # 0
    BY <1>2, <1>3, <2>10, <2>5
  <2>13. /\ \A c \in 1..Len(G) : r[c] = G[c].name
         /\ \A i \in 1..Len(A) : r[Len(G) + i] = A[i].name
    BY <2>2, <2>3, <2>8, <2>9
  <2>14. QED
    BY <1>5, <2>6, <2>10, <2>11, <2>12, <2>13 DEF Reads, r, M, G, A
<1>6. QED
  BY <1>4, <1>5

-----------------------------------------------------------------------------
(* One chunk *)

BufferOf(q, chunk) ==
    [c \in DOMAIN ToRead(q) |-> [i \in DOMAIN chunk |-> chunk[i][ToRead(q)[c]]]]
KeptPlaces(schema, q, chunk) ==
    Filtered(Places(RowCount(BufferOf(q, chunk))), Mask(Compile(q.where, schema), BufferOf(q, chunk)))
KeptIn(schema, q, chunk) ==
    LET kept == KeptPlaces(schema, q, chunk)
    IN  [i \in DOMAIN kept |-> RowAt(BufferOf(q, chunk), kept[i])]
Meant(schema, q) == {row \in Row(schema) : Holds(q.where, row)}
Aligned(schema, q) ==
    \A i \in Needs(Compile(q.where, schema)) :
        i \in DOMAIN ToRead(q) /\ ToRead(q)[i] = schema[i].name

LEMMA BufferShape ==
    ASSUME NEW schema, IsSchema(schema), NEW q, IsQuery(schema, q),
           NEW chunk \in Seq(Row(schema))
    PROVE  LET b == BufferOf(q, chunk)
           IN  /\ DOMAIN b = 1..Len(ToRead(q)) /\ RowCount(b) = Len(chunk) /\ Len(b[1]) = Len(chunk)
               /\ \A i \in 1..Len(chunk), c \in 1..Len(ToRead(q)) :
                     /\ b[c][i] = chunk[i][ToRead(q)[c]] /\ b[c][i] \in Literal
               /\ \A i \in 1..Len(chunk) :
                     /\ RowAt(b, i) \in Seq(Literal) /\ Len(RowAt(b, i)) = Len(ToRead(q))
                     /\ \A c \in 1..Len(ToRead(q)) : RowAt(b, i)[c] = chunk[i][ToRead(q)[c]]
<1> DEFINE b == BufferOf(q, chunk)
           r == ToRead(q)
           M == Names(schema)
           N == Len(chunk)
<1>1. r \in Seq(M) /\ Len(r) \in Nat \ {0} /\ DOMAIN r = 1..Len(r)
  BY ToReadShape DEF Reads
<1>2. /\ N \in Nat /\ DOMAIN chunk = 1..N
      /\ \A i \in 1..N, n \in M : chunk[i][n] \in Literal
  BY ColumnsShape
<1>3. \A c \in 1..Len(r) : r[c] \in M
  <2> HIDE DEF M, r
  <2>1. QED
    BY <1>1
<1>4. b = [c \in 1..Len(r) |-> [i \in 1..N |-> chunk[i][r[c]]]]
  BY <1>1, <1>2 DEF BufferOf
<1> HIDE DEF r, b
<1>5. \A c \in 1..Len(r) : DOMAIN b[c] = 1..N /\ \A i \in 1..N : b[c][i] = chunk[i][r[c]]
  BY <1>4
<1>6. DOMAIN b = 1..Len(r) /\ 1 \in 1..Len(r)
  BY <1>1, <1>4
<1>7. Len(b[1]) = N
  <2>1. b[1] = [i \in 1..N |-> chunk[i][r[1]]]
    BY <1>4, <1>6
  <2>2. QED
    BY <1>2, <2>1
<1>8. \A i \in 1..N, c \in 1..Len(r) : b[c][i] = chunk[i][r[c]] /\ b[c][i] \in Literal
  BY <1>2, <1>3, <1>5
<1>9. ASSUME NEW i \in 1..N
      PROVE  /\ RowAt(b, i) \in Seq(Literal) /\ Len(RowAt(b, i)) = Len(r)
             /\ \A c \in 1..Len(r) : RowAt(b, i)[c] = chunk[i][r[c]]
  <2> DEFINE a == RowAt(b, i)
  <2>1. a = [c \in 1..Len(r) |-> b[c][i]]
    BY <1>6 DEF RowAt
  <2> HIDE DEF a
  <2>2. /\ DOMAIN a = 1..Len(r) /\ a = [c \in 1..Len(r) |-> a[c]]
        /\ \A c \in 1..Len(r) : a[c] = chunk[i][r[c]] /\ a[c] \in Literal
    BY <1>8, <2>1
  <2>3. a \in Seq(Literal) /\ Len(a) = Len(r)
    BY <1>1, <2>2, IsSeqOf
  <2>4. QED
    BY <2>2, <2>3 DEF a
<1>10. QED
  BY <1>6, <1>7, <1>8, <1>9 DEF b, r, RowCount

(* The row r of a buffer is `row`, in the columns q reads.                 *)
ReadsRow(q, r, row) ==
    /\ r \in Seq(Literal) /\ Len(r) = Len(ToRead(q))
    /\ \A c \in 1..Len(ToRead(q)) : r[c] = row[ToRead(q)[c]]

KeepsOf(schema, q, chunk, k, rows) ==
    /\ Len(k) \in Nat /\ DOMAIN k = 1..Len(k) /\ Len(k) <= Len(chunk)
    /\ Aligned(schema, q) =>
          /\ rows \in Seq(Row(schema)) /\ Len(k) = Len(rows)
          /\ \A i \in 1..Len(k) : ReadsRow(q, k[i], rows[i])

(* WHERE keeps of a chunk the rows its expression holds for, if it finds   *)
(* its columns where the schema has them.                                  *)
LEMMA ChunkKept ==
    ASSUME NEW schema, IsSchema(schema), NEW q, IsQuery(schema, q),
           NEW chunk \in Seq(Row(schema))
    PROVE  KeepsOf(schema, q, chunk, KeptIn(schema, q, chunk), Filtered(chunk, Meant(schema, q)))
<1> DEFINE b == BufferOf(q, chunk)
           N == Len(chunk)
           f == KeptPlaces(schema, q, chunk)
           at == Mask(Compile(q.where, schema), b)
           k == KeptIn(schema, q, chunk)
           R == Row(schema)
           meant == Meant(schema, q)
           rows == Filtered(chunk, meant)
<1>1. N \in Nat /\ \A i \in 1..N : chunk[i] \in R
  BY ColumnsShape
<1>2. /\ RowCount(b) = N /\ Len(b[1]) = N
      /\ \A i \in 1..N, c \in 1..Len(ToRead(q)) : b[c][i] = chunk[i][ToRead(q)[c]]
      /\ \A i \in 1..N :
            /\ RowAt(b, i) \in Seq(Literal) /\ Len(RowAt(b, i)) = Len(ToRead(q))
            /\ \A c \in 1..Len(ToRead(q)) : RowAt(b, i)[c] = chunk[i][ToRead(q)[c]]
  BY BufferShape
<1>3. f = Filtered(Places(N), at)
  BY <1>2 DEF KeptPlaces
<1> HIDE DEF f, at
<1>4. f \in Seq(1..N) /\ Len(f) <= N
  <2>1. Places(N) \in Seq(1..N) /\ Len(Places(N)) = N
    BY <1>1, PlacesGrow
  <2>2. QED
    BY <1>3, <2>1, FilteredType, FilteredBounds
<1>5. Len(f) \in Nat /\ DOMAIN f = 1..Len(f) /\ \A i \in 1..Len(f) : f[i] \in 1..N
  BY <1>4
<1>6. k = [i \in 1..Len(f) |-> RowAt(b, f[i])]
  BY <1>5 DEF KeptIn, f
<1> HIDE DEF k, b
<1>7. Len(k) = Len(f) /\ DOMAIN k = 1..Len(k)
  BY <1>5, <1>6
<1>8. ASSUME Aligned(schema, q)
      PROVE  /\ rows \in Seq(R) /\ Len(k) = Len(rows)
             /\ \A i \in 1..Len(k) :
                   /\ k[i] \in Seq(Literal) /\ Len(k[i]) = Len(ToRead(q))
                   /\ \A c \in 1..Len(ToRead(q)) : k[i][c] = rows[i][ToRead(q)[c]]
  <2>1. ASSUME NEW j \in 1..N PROVE j \in at <=> chunk[j] \in meant
    <3>1. AlignedAt(Needs(Compile(q.where, schema)), schema, b, j, chunk[j])
      <4>1. DOMAIN ToRead(q) = 1..Len(ToRead(q))
        BY ToReadShape DEF Reads
      <4>2. QED
        BY <1>2, <1>8, <4>1 DEF Aligned, AlignedAt
    <3>2. IsExpression(q.where) /\ Root(Compile(q.where, schema)) # Failed
      BY DEF IsQuery, Compiles
    <3>3. schema \in Seq(ColumnSet)
      BY DEF IsSchema
    <3>4. j \in 1..Len(b[1])
      BY <1>2
    <3>5. j \in at <=> Holds(q.where, chunk[j])
      BY <3>1, <3>2, <3>3, <3>4, FilterKeeps DEF at
    <3>6. QED
      BY <1>1, <3>5 DEF Meant
  <2>2. rows = [i \in 1..Len(f) |-> chunk[f[i]]]
    <3> HIDE DEF meant, R
    <3>1. chunk \in Seq(R)
      BY DEF R
    <3>2. QED
      BY <1>3, <2>1, <3>1, PlacesOfKept
  <2>3. rows \in Seq(R)
    BY FilteredType
  <2> HIDE DEF rows
  <2>4. Len(rows) = Len(f)
    BY <1>5, <2>2
  <2>5. ASSUME NEW i \in 1..Len(k)
        PROVE  /\ k[i] \in Seq(Literal) /\ Len(k[i]) = Len(ToRead(q))
               /\ \A c \in 1..Len(ToRead(q)) : k[i][c] = rows[i][ToRead(q)[c]]
    <3>1. i \in 1..Len(f) /\ f[i] \in 1..N
      BY <1>5, <1>7
    <3>2. k[i] = RowAt(b, f[i]) /\ rows[i] = chunk[f[i]]
      BY <1>6, <2>2, <3>1
    <3>3. QED
      BY <1>2, <3>1, <3>2
  <2>6. QED
    BY <1>7, <2>3, <2>4, <2>5
<1>9. QED
  <2>1. Len(k) \in Nat /\ Len(k) <= N
    BY <1>4, <1>5, <1>7
  <2> HIDE DEF rows, R, N
  <2>2. Aligned(schema, q) => \A i \in 1..Len(k) : ReadsRow(q, k[i], rows[i])
    BY <1>8 DEF ReadsRow
  <2>3. KeepsOf(schema, q, chunk, k, rows)
    BY <1>7, <1>8, <2>1, <2>2 DEF KeepsOf, R, N
  <2>4. QED
    BY <2>3 DEF k, rows, meant

-----------------------------------------------------------------------------
(* The accumulators *)

(* A sum goes row by row.                                                  *)
LEMMA SumSteps ==
    ASSUME NEW rows, NEW name, NEW I, Len(rows) \in Nat
    PROVE  \E sum :
              /\ sum[0] = 0
              /\ \A i \in 1..Len(rows) :
                    sum[i] = sum[i - 1] + (IF i \in I THEN rows[i][name].v ELSE 0)
              /\ SumOver(rows, name, I) = sum[Len(rows)]
<1> DEFINE N == Len(rows)
           To(n, g) == g = [i \in 0..n |-> IF i = 0 THEN 0 ELSE g[i - 1] + (IF i \in I THEN rows[i][name].v ELSE 0)]
           T == {n \in Nat : n <= N => \E g : To(n, g)}
<1>0. N \in Nat
  BY DEF N
<1>1. 0 \in T
  <2> DEFINE g == [i \in 0..0 |-> 0]
  <2>1. g = [i \in 0..0 |-> IF i = 0 THEN 0 ELSE g[i - 1] + (IF i \in I THEN rows[i][name].v ELSE 0)]
    OBVIOUS
  <2> HIDE DEF g
  <2>2. \E k : To(0, k)
    BY <2>1
  <2>3. QED
    BY <2>2
<1>2. ASSUME NEW n \in Nat, n \in T PROVE n + 1 \in T
  <2> SUFFICES ASSUME n + 1 <= N PROVE \E g : To(n + 1, g)
    OBVIOUS
  <2>1. PICK g : To(n, g)
    BY <1>0, <1>2
  <2> DEFINE new == g[n] + (IF (n + 1) \in I THEN rows[(n + 1)][name].v ELSE 0)
             h == [i \in 0..(n + 1) |-> IF i = n + 1 THEN new ELSE g[i]]
  <2>2. /\ DOMAIN h = 0..(n + 1) /\ h = [i \in 0..(n + 1) |-> h[i]]
        /\ h[n + 1] = new /\ \A i \in 0..n : h[i] = g[i]
    OBVIOUS
  <2>3. \A i \in 0..n : g[i] = IF i = 0 THEN 0 ELSE g[i - 1] + (IF i \in I THEN rows[i][name].v ELSE 0)
    <3> HIDE DEF new, h
    <3>1. g = [i \in 0..n |-> IF i = 0 THEN 0 ELSE g[i - 1] + (IF i \in I THEN rows[i][name].v ELSE 0)]
      BY <2>1
    <3>2. QED
      BY <3>1
  <2> HIDE DEF h, To
  <2>4. ASSUME NEW i \in 0..(n + 1) PROVE h[i] = IF i = 0 THEN 0 ELSE h[i - 1] + (IF i \in I THEN rows[i][name].v ELSE 0)
    <3>1. CASE i = n + 1
      <4>1. i # 0 /\ i - 1 = n /\ n \in 0..n
        BY <3>1
      <4>2. h[i - 1] = g[n] /\ h[i] = new
        BY <2>2, <3>1, <4>1
      <4>3. QED
        BY <3>1, <4>1, <4>2
    <3>2. CASE i # n + 1
      <4>1. i \in 0..n /\ (i # 0 => i - 1 \in 0..n)
        BY <3>2
      <4>2. h[i] = g[i] /\ (i # 0 => h[i - 1] = g[i - 1])
        BY <2>2, <4>1
      <4>3. QED
        BY <2>3, <4>1, <4>2
    <3>3. QED
      BY <3>1, <3>2
  <2>5. h = [i \in 0..(n + 1) |-> IF i = 0 THEN 0 ELSE h[i - 1] + (IF i \in I THEN rows[i][name].v ELSE 0)]
    BY <2>2, <2>4
  <2>6. QED
    BY <2>5 DEF To
<1>3. \E g : To(N, g)
  <2> HIDE DEF T
  <2>1. \A n \in Nat : n \in T
    BY <1>1, <1>2, CountingUp
  <2>2. QED
    BY <1>0, <2>1 DEF T
<1> DEFINE u == CHOOSE g : g = [i \in 0..N |-> IF i = 0 THEN 0 ELSE g[i - 1] + (IF i \in I THEN rows[i][name].v ELSE 0)]
<1>4. u = [i \in 0..N |-> IF i = 0 THEN 0 ELSE u[i - 1] + (IF i \in I THEN rows[i][name].v ELSE 0)]
  BY <1>3
<1>5. SumOver(rows, name, I) = u[N]
  BY <1>0 DEF SumOver
<1> HIDE DEF u
<1>6. u[0] = 0 /\ \A i \in 1..N : u[i] = u[i - 1] + (IF i \in I THEN rows[i][name].v ELSE 0)
  <2>1. 0 \in 0..N /\ \A i \in 1..N : i \in 0..N /\ i # 0
    BY <1>0
  <2>2. QED
    BY <1>4, <2>1
<1>7. QED
  BY <1>5, <1>6

(* A row adds its value where it is counted.                               *)
LEMMA SumGrows ==
    ASSUME NEW R, NEW rows \in Seq(R), NEW row \in R, NEW name,
           \A x \in R : x[name].v \in Int, NEW I, NEW J,
           \A i \in 1..Len(rows) : i \in I <=> i \in J
    PROVE  /\ SumOver(rows, name, I) \in Int
           /\ I = {} => SumOver(rows, name, I) = 0
           /\ SumOver(Put(rows, row), name, J) =
                 SumOver(rows, name, I) + (IF Len(rows) + 1 \in J THEN row[name].v ELSE 0)
<1> DEFINE n == Len(rows)
           more == Put(rows, row)
<1>1. /\ n \in Nat /\ more \in Seq(R) /\ Len(more) = n + 1
      /\ \A i \in 1..n : more[i] = rows[i] /\ rows[i] \in R
      /\ more[n + 1] = row
  BY DEF Put
<1>a. Len(rows) \in Nat
  BY <1>1
<1>2. PICK s : /\ s[0] = 0
               /\ \A i \in 1..Len(rows) :
                     s[i] = s[i - 1] + (IF i \in I THEN rows[i][name].v ELSE 0)
               /\ SumOver(rows, name, I) = s[Len(rows)]
  BY <1>a, SumSteps
<1> HIDE DEF more, n
<1>3. Len(more) \in Nat
  BY <1>1
<1>4. PICK t : /\ t[0] = 0
               /\ \A i \in 1..Len(more) :
                     t[i] = t[i - 1] + (IF i \in J THEN more[i][name].v ELSE 0)
               /\ SumOver(more, name, J) = t[Len(more)]
  BY <1>3, SumSteps
<1> DEFINE T == {k \in Nat : k <= n => s[k] \in Int /\ t[k] = s[k] /\ (I = {} => s[k] = 0)}
<1>5. 0 \in T
  BY <1>2, <1>4
<1>6. ASSUME NEW k \in Nat, k \in T PROVE k + 1 \in T
  <2> SUFFICES ASSUME k + 1 <= n
               PROVE  /\ s[k + 1] \in Int /\ t[k + 1] = s[k + 1]
                      /\ I = {} => s[k + 1] = 0
    OBVIOUS
  <2>1. k + 1 \in 1..n /\ k + 1 \in 1..Len(more) /\ (k + 1) - 1 = k
    BY <1>1
  <2>2. s[k] \in Int /\ t[k] = s[k] /\ (I = {} => s[k] = 0)
    BY <1>1, <1>6
  <2> DEFINE x == rows[k + 1][name].v
  <2>3. x \in Int /\ more[k + 1][name].v = x
    BY <1>1, <2>1
  <2>4. k + 1 \in I <=> k + 1 \in J
    BY <2>1 DEF n
  <2>5. s[k + 1] = s[k] + (IF k + 1 \in I THEN x ELSE 0)
    BY <1>2, <2>1 DEF n
  <2>6. t[k + 1] = t[k] + (IF k + 1 \in J THEN x ELSE 0)
    BY <1>4, <2>1, <2>3
  <2> HIDE DEF x
  <2>7. QED
    BY <2>2, <2>3, <2>4, <2>5, <2>6
<1> HIDE DEF T
<1>7. n \in T
  BY <1>1, <1>5, <1>6, CountingUp
<1>8. s[n] \in Int /\ t[n] = s[n] /\ (I = {} => s[n] = 0)
  BY <1>1, <1>7 DEF T
<1>9. t[n + 1] = t[n] + (IF n + 1 \in J THEN row[name].v ELSE 0)
  <2>1. n + 1 \in 1..Len(more) /\ (n + 1) - 1 = n
    BY <1>1
  <2>2. QED
    BY <1>1, <1>4, <2>1
<1>10. QED
  BY <1>1, <1>2, <1>4, <1>8, <1>9 DEF n, more

(* What an accumulator of fn holds when the rows at I have been added.     *)
Accumulates(a, rows, fn, name, I) ==
    /\ a.count = Cardinality(I)
    /\ fn = "count" \/ I = {} => a.total = Null
    /\ fn # "count" /\ I # {} =>
          /\ a.total.v \in Int /\ a.total = Value("num", a.total.v)
          /\ fn \in {"sum", "avg"} => a.total.v = SumOver(rows, name, I)
          /\ fn = "min" => /\ \E i \in I : a.total.v = rows[i][name].v
                           /\ \A i \in I : a.total.v <= rows[i][name].v
          /\ fn = "max" => /\ \E i \in I : a.total.v = rows[i][name].v
                           /\ \A i \in I : a.total.v >= rows[i][name].v

LEMMA PlacesFinite ==
    ASSUME NEW n \in Nat, NEW I \in SUBSET (1..n)
    PROVE  /\ IsFiniteSet(I) /\ Cardinality(I) \in Nat /\ (Cardinality(I) = 0 <=> I = {})
           /\ n + 1 \notin I /\ Cardinality(I \cup {n + 1}) = Cardinality(I) + 1
<1>1. 1 \in Int /\ n \in Int
  OBVIOUS
<1>2. IsFiniteSet(1..n)
  BY <1>1, FS_Interval
<1>3. IsFiniteSet(I)
  BY <1>2, FS_Subset
<1>4. n + 1 \notin I
  OBVIOUS
<1>5. QED
  BY <1>3, <1>4, FS_CardinalityType, FS_EmptySet, FS_AddElement

LEMMA AccumulatorGrows ==
    ASSUME NEW R, NEW rows \in Seq(R), NEW row \in R, NEW name,
           \A x \in R : x[name] \in Literal, NEW fn \in AggregateFn,
           NEW I \in SUBSET (1..Len(rows)), NEW a, Accumulates(a, rows, fn, name, I)
    PROVE  /\ Accumulates(a, Put(rows, row), fn, name, I)
           /\ Accumulates(AddValue(fn, a, row[name]), Put(rows, row), fn, name,
                          I \cup {Len(rows) + 1})
<1> DEFINE n == Len(rows)
           more == Put(rows, row)
           J == I \cup {n + 1}
           v == row[name].v
           b == AddValue(fn, a, row[name])
           sum == SumOver(rows, name, I)
<1>1. /\ n \in Nat
      /\ \A i \in 1..n : more[i] = rows[i] /\ rows[i] \in R
      /\ more[n + 1] = row
  BY DEF Put
<1>2. \A x \in R : x[name].v \in Int
  BY DEF Literal
<1>3. sum \in Int /\ SumOver(more, name, I) = sum /\ SumOver(more, name, J) = sum + v
      /\ (I = {} => sum = 0)
  <2>1. n + 1 \notin I /\ n + 1 \in J /\ \A i \in 1..n : i \in I <=> i \in J
    BY <1>1
  <2>a. \A i \in 1..Len(rows) : i \in I <=> i \in I
    OBVIOUS
  <2>b. sum \in Int /\ (I = {} => sum = 0)
    <3>1. sum \in Int
      BY <1>2, <2>a, SumGrows
    <3>2. ASSUME I = {} PROVE SumOver(rows, name, I) = 0
      <4> DEFINE K == I
      <4>1. \A i \in 1..Len(rows) : i \in K <=> i \in K
        OBVIOUS
      <4>2. K = {}
        BY <3>2
      <4> HIDE DEF K
      <4>3. /\ K = {} => SumOver(rows, name, K) = 0
            /\ SumOver(more, name, K) =
                  SumOver(rows, name, K) + (IF n + 1 \in K THEN v ELSE 0)
        BY <1>2, <4>1, SumGrows
      <4>4. QED
        BY <4>2, <4>3 DEF K
    <3>3. QED
      BY <3>1, <3>2
  <2>c. SumOver(more, name, I) = sum + (IF n + 1 \in I THEN v ELSE 0)
    BY <1>2, <2>a, SumGrows
  <2>2. /\ sum \in Int /\ (I = {} => sum = 0)
        /\ SumOver(more, name, I) = sum + (IF n + 1 \in I THEN v ELSE 0)
    BY <2>b, <2>c
  <2>3. SumOver(more, name, I) = sum + 0
    BY <2>1, <2>2
  <2>4. SumOver(more, name, J) = sum + v
    <3>1. SumOver(more, name, J) = sum + (IF n + 1 \in J THEN v ELSE 0)
      BY <1>2, <2>1, SumGrows
    <3>2. QED
      BY <2>1, <3>1
  <2> HIDE DEF sum
  <2>5. QED
    BY <2>2, <2>3, <2>4
<1>4. /\ Cardinality(I) \in Nat /\ Cardinality(J) = Cardinality(I) + 1 /\ J # {}
      /\ \A i \in I : i \in 1..n /\ more[i] = rows[i]
  BY <1>1, PlacesFinite
<1>5. v \in Int
  BY <1>2
<1>6. Accumulates(a, more, fn, name, I)
  <2> HIDE DEF more, sum
  <2>1. SumOver(more, name, I) = SumOver(rows, name, I)
    BY <1>3 DEF sum
  <2>2. \A i \in I : more[i][name].v = rows[i][name].v
    BY <1>4
  <2>3. QED
    BY <2>1, <2>2 DEF Accumulates
<1>7. b = [total |-> Combined(fn, a.total, row[name]), count |-> a.count + 1]
  BY DEF AddValue
<1>8. b.total = Combined(fn, a.total, row[name]) /\ b.count = a.count + 1
  BY <1>7
<1> HIDE DEF b, more, J, sum
<1>9. b.count = Cardinality(J)
  <2>1. a.count = Cardinality(I)
    BY DEF Accumulates
  <2>2. QED
    BY <1>4, <1>8, <2>1
<1>10. fn = "count" => b.total = Null
  BY <1>8 DEF Combined
<1> DEFINE w == b.total.v
<1>11. ASSUME fn # "count", I = {}
       PROVE  b.total = Value("num", v) /\ w = v
  <2>1. a.total = Null
    BY <1>11 DEF Accumulates
  <2>2. b.total = Value("num", v)
    BY <1>8, <1>11, <2>1 DEF Combined
  <2>3. QED
    BY <2>2 DEF Value
<1>12. J = I \cup {n + 1} /\ more[n + 1][name].v = v
  BY <1>1 DEF J, more
<1>13. \A i \in I : more[i][name].v = rows[i][name].v /\ rows[i][name].v \in Int
  BY <1>1, <1>2, <1>4 DEF more
<1>14. ASSUME fn # "count", I # {}
       PROVE  /\ w \in Int /\ b.total = Value("num", w)
              /\ fn \in {"sum", "avg"} => w = sum + v
              /\ fn = "min" => /\ \E i \in J : w = more[i][name].v
                               /\ \A i \in J : w <= more[i][name].v
              /\ fn = "max" => /\ \E i \in J : w = more[i][name].v
                               /\ \A i \in J : w >= more[i][name].v
  <2> DEFINE m == a.total.v
  <2>1. m \in Int /\ a.total = Value("num", m)
    BY <1>14 DEF Accumulates
  <2>2. a.total # Null
    BY <2>1, NullIs DEF Value
  <2> HIDE DEF m
  <2>3. \A x \in Int : Value("num", x).v = x
    BY DEF Value
  <2>4. CASE fn \in {"sum", "avg"}
    <3>1. b.total = Value("num", a.total.v + v) /\ a.total.v = sum
      BY <1>8, <1>14, <2>2, <2>4 DEF Combined, Accumulates, sum
    <3>2. b.total = Value("num", sum + v)
      BY <3>1
    <3>3. QED
      BY <1>3, <1>5, <2>3, <2>4, <3>2
  <2>5. CASE fn = "min"
    <3>1. /\ \E i \in I : m = rows[i][name].v
          /\ \A i \in I : m <= rows[i][name].v
      BY <1>14, <2>5 DEF Accumulates, m
    <3>2. b.total = IF v < a.total.v THEN Value("num", v) ELSE a.total
      BY <1>8, <2>2, <2>5 DEF Combined
    <3>3. b.total = Value("num", IF v < m THEN v ELSE m) /\ w = IF v < m THEN v ELSE m
      <4>1. b.total = IF v < m THEN Value("num", v) ELSE Value("num", m)
        BY <2>1, <3>2 DEF m
      <4>2. QED
        BY <1>5, <2>1, <2>3, <4>1
    <3> HIDE DEF w, v
    <3>4. w \in Int /\ w <= v /\ w <= m /\ (w = v \/ w = m) /\ b.total = Value("num", w)
      BY <1>5, <2>1, <3>3
    <3>5. \E i \in J : w = more[i][name].v
      BY <1>12, <1>13, <3>1, <3>4
    <3>6. \A i \in J : w <= more[i][name].v
      <4> TAKE i \in J
      <4>1. CASE i \in I
        <5> DEFINE y == rows[i][name].v
        <5>1. y \in Int /\ m <= y /\ more[i][name].v = y
          BY <1>13, <3>1, <4>1
        <5> HIDE DEF y
        <5>2. QED
          BY <2>1, <3>4, <5>1
      <4>2. CASE i = n + 1
        BY <1>12, <3>4, <4>2
      <4>3. QED
        BY <1>12, <4>1, <4>2
    <3>7. QED
      BY <2>5, <3>4, <3>5, <3>6
  <2>6. CASE fn = "max"
    <3>1. /\ \E i \in I : m = rows[i][name].v
          /\ \A i \in I : m >= rows[i][name].v
      BY <1>14, <2>6 DEF Accumulates, m
    <3>2. b.total = IF v > a.total.v THEN Value("num", v) ELSE a.total
      BY <1>8, <2>2, <2>6 DEF Combined
    <3>3. b.total = Value("num", IF v > m THEN v ELSE m) /\ w = IF v > m THEN v ELSE m
      <4>1. b.total = IF v > m THEN Value("num", v) ELSE Value("num", m)
        BY <2>1, <3>2 DEF m
      <4>2. QED
        BY <1>5, <2>1, <2>3, <4>1
    <3> HIDE DEF w, v
    <3>4. w \in Int /\ w >= v /\ w >= m /\ (w = v \/ w = m) /\ b.total = Value("num", w)
      BY <1>5, <2>1, <3>3
    <3>5. \E i \in J : w = more[i][name].v
      BY <1>12, <1>13, <3>1, <3>4
    <3>6. \A i \in J : w >= more[i][name].v
      <4> TAKE i \in J
      <4>1. CASE i \in I
        <5> DEFINE y == rows[i][name].v
        <5>1. y \in Int /\ m >= y /\ more[i][name].v = y
          BY <1>13, <3>1, <4>1
        <5> HIDE DEF y
        <5>2. QED
          BY <2>1, <3>4, <5>1
      <4>2. CASE i = n + 1
        BY <1>12, <3>4, <4>2
      <4>3. QED
        BY <1>12, <4>1, <4>2
    <3>7. QED
      BY <2>6, <3>4, <3>5, <3>6
  <2>7. QED
    BY <1>14, <2>4, <2>5, <2>6 DEF AggregateFn
<1>15. Accumulates(b, more, fn, name, J)
  <2>1. SumOver(more, name, J) = sum + v
    BY <1>3 DEF more, J
  <2>2. CASE fn = "count"
    BY <1>9, <1>10, <2>2 DEF Accumulates
  <2>3. CASE fn # "count" /\ I = {}
    <3>1. J = {n + 1} /\ sum + v = v
      BY <1>3, <1>5, <1>12, <2>3
    <3>2. /\ w \in Int /\ b.total = Value("num", w) /\ w = v /\ J # {}
      BY <1>4, <1>5, <1>11, <2>3 DEF J
    <3> HIDE DEF w, v
    <3>3. \A i \in J : more[i][name].v = w /\ w <= w /\ w >= w
      BY <1>12, <3>1, <3>2
    <3>4. \E i \in J : w = more[i][name].v
      BY <3>2, <3>3
    <3>5. QED
      BY <1>9, <2>1, <2>3, <3>1, <3>2, <3>3, <3>4 DEF Accumulates, w
  <2>4. CASE fn # "count" /\ I # {}
    <3>1. J # {}
      BY <1>4 DEF J
    <3>2. QED
      BY <1>9, <1>14, <2>1, <2>4, <3>1 DEF Accumulates
  <2>5. QED
    BY <2>2, <2>3, <2>4
<1>16. QED
  BY <1>6, <1>15 DEF b, more, J, n

(* finalize answers the aggregate of the rows added.                       *)
LEMMA AccumulatorFinal ==
    ASSUME NEW R, NEW rows \in Seq(R), NEW name, \A x \in R : x[name] \in Literal,
           NEW fn \in AggregateFn, NEW I \in SUBSET (1..Len(rows)),
           NEW a, Accumulates(a, rows, fn, name, I)
    PROVE  /\ Final(fn, a) = AggregateOver(rows, fn, name, I)
           /\ Final(fn, a) \in Literal
<1> DEFINE n == Cardinality(I)
           m == a.total.v
           numbers == {rows[i][name].v : i \in I}
<1>1. n \in Nat /\ (n = 0 <=> I = {}) /\ a.count = n
  <2>1. Len(rows) \in Nat
    OBVIOUS
  <2>2. QED
    BY <2>1, PlacesFinite DEF Accumulates
<1>2. \A x \in Int, type \in ValueType : Value(type, x) \in Literal
  BY DEF Value, Literal
<1>3. {"uint", "num", "twelfths"} \subseteq ValueType
  BY DEF ValueType
<1>4. CASE fn = "count"
  <2>1. Final(fn, a) = Value("uint", n)
    BY <1>1, <1>4 DEF Final
  <2>2. AggregateOver(rows, fn, name, I) = Value("uint", n)
    BY <1>4 DEF AggregateOver
  <2>3. QED
    BY <1>1, <1>2, <1>3, <2>1, <2>2
<1>5. CASE fn # "count" /\ I = {}
  <2>1. a.total = Null /\ a.count = 0
    BY <1>1, <1>5 DEF Accumulates
  <2>2. Final(fn, a) = Null
    BY <1>5, <2>1 DEF Final
  <2>3. AggregateOver(rows, fn, name, I) = Null
    BY <1>5 DEF AggregateOver
  <2>4. QED
    BY <2>2, <2>3, NullIs
<1>6. CASE fn # "count" /\ I # {}
  <2>1. m \in Int /\ a.total = Value("num", m) /\ n # 0
    BY <1>1, <1>6 DEF Accumulates
  <2>2. CASE fn = "avg"
    <3>1. m = SumOver(rows, name, I)
      BY <1>6, <2>2 DEF Accumulates
    <3>2. Final(fn, a) = Value("twelfths", (12 * m) \div n)
      BY <1>1, <2>1, <2>2 DEF Final
    <3>3. AggregateOver(rows, fn, name, I) = Value("twelfths", (12 * m) \div n)
      BY <1>6, <2>2, <3>1 DEF AggregateOver
    <3> HIDE DEF n, m
    <3>4. (12 * m) \div n \in Int
      BY <1>1, <2>1
    <3>5. QED
      BY <1>2, <1>3, <3>2, <3>3, <3>4
  <2>3. CASE fn \in {"sum", "min", "max"}
    <3>1. Final(fn, a) = Value("num", m)
      BY <2>1, <2>3 DEF Final
    <3>2. AggregateOver(rows, fn, name, I) = Value("num", m)
      <4>1. CASE fn = "sum"
        <5>1. m = SumOver(rows, name, I)
          BY <1>6, <4>1 DEF Accumulates
        <5>2. QED
          BY <1>6, <4>1, <5>1 DEF AggregateOver
      <4>2. \A i \in I : rows[i][name].v \in Int
        BY DEF Literal
      <4>3. CASE fn = "min"
        <5>1. m \in numbers /\ \A x \in numbers : m <= x
          BY <1>6, <4>3 DEF Accumulates
        <5>2. \A x \in numbers : x \in Int
          BY <4>2
        <5> HIDE DEF numbers, m
        <5>a. \A x \in numbers : (\A y \in numbers : x <= y) => x = m
          BY <2>1, <5>1, <5>2
        <5>3. Min(numbers) = m
          BY <5>1, <5>a DEF Min
        <5>4. QED
          BY <1>6, <4>3, <5>3 DEF AggregateOver, numbers
      <4>4. CASE fn = "max"
        <5>1. m \in numbers /\ \A x \in numbers : m >= x
          BY <1>6, <4>4 DEF Accumulates
        <5>2. \A x \in numbers : x \in Int
          BY <4>2
        <5> HIDE DEF numbers, m
        <5>a. \A x \in numbers : (\A y \in numbers : x >= y) => x = m
          BY <2>1, <5>1, <5>2
        <5>3. Max(numbers) = m
          BY <5>1, <5>a DEF Max
        <5>4. QED
          BY <1>6, <4>4, <5>3 DEF AggregateOver, numbers
      <4>5. QED
        BY <2>3, <4>1, <4>3, <4>4
    <3>3. QED
      BY <1>2, <1>3, <2>1, <3>1, <3>2
  <2>4. QED
    BY <1>6, <2>2, <2>3 DEF AggregateFn
<1>7. QED
  BY <1>4, <1>5, <1>6

-----------------------------------------------------------------------------
(* The groups *)

(* The groups have exactly the keys of the rows, each over its rows.       *)
GroupsAre(gs, q, rows) ==
    /\ DOMAIN gs = GroupKeys(q, rows)
    /\ \A key \in GroupKeys(q, rows), a \in 1..Len(q.aggregates) :
          Accumulates(gs[key][a], rows, q.aggregates[a].fn, q.aggregates[a].name,
                      RowsOfKey(q, rows, key))

LEMMA RowTyped ==
    ASSUME NEW schema, NEW row \in Row(schema), NEW n \in Names(schema)
    PROVE  row[n] \in Literal
BY DEF Row

LEMMA RowRead ==
    ASSUME NEW schema, NEW q, IsQuery(schema, q), Aggregating(q),
           NEW row \in Row(schema), NEW r, ReadsRow(q, r, row)
    PROVE  /\ KeyOf(q, r) = GroupKey(q, row)
           /\ \A a \in 1..Len(q.aggregates) : ArgumentOf(q, r, a) = row[q.aggregates[a].name]
<1> DEFINE G == q.group_by
           A == q.aggregates
           cols == ToRead(q)
           g == Len(G)
           n == Len(A)
<1>1. Reads(schema, q, cols)
  BY ToReadShape
<1>2. G \in Seq(Proj(schema)) /\ A \in Seq(ItemSet)
  BY DEF IsQuery
<1>3. g \in Nat /\ DOMAIN G = 1..g
  BY <1>2, ProjectionsShape
<1>4. n \in Nat
  BY <1>2, AggregatesShape
<1>5. /\ Len(cols) = g + n
      /\ \A c \in 1..g : cols[c] = G[c].name
      /\ \A a \in 1..n : cols[g + a] = A[a].name
  BY <1>1 DEF Reads
<1>6. KeyOf(q, r) = SubSeq(r, 1, g) /\ \A a \in 1..n : ArgumentOf(q, r, a) = r[g + a]
  BY DEF KeyOf, ArgumentOf
<1>7. GroupKey(q, row) = [c \in 1..g |-> row[G[c].name]]
  BY <1>3 DEF GroupKey
<1>8. r \in Seq(Literal) /\ Len(r) = Len(cols) /\ \A c \in 1..Len(cols) : r[c] = row[cols[c]]
  BY DEF ReadsRow
<1> HIDE DEF G, A, cols, g, n
<1>9. \A c \in 1..g : c \in 1..(g + n) /\ \A a \in 1..n : g + a \in 1..(g + n)
  BY <1>3, <1>4
<1>10. \A c \in 1..g : r[c] = row[G[c].name]
  BY <1>5, <1>8, <1>9
<1>11. \A a \in 1..n : r[g + a] = row[A[a].name]
  <2>1. \A a \in 1..n : g + a \in 1..(g + n)
    BY <1>3, <1>4
  <2>2. QED
    BY <1>5, <1>8, <2>1
<1>12. SubSeq(r, 1, g) = [c \in 1..g |-> r[c]]
  <2> DEFINE SEQ == Literal
  <2>1. r \in Seq(SEQ) /\ g <= Len(r)
    BY <1>3, <1>4, <1>5, <1>8
  <2> HIDE DEF SEQ
  <2>2. QED
    BY <1>3, <2>1
<1>13. SubSeq(r, 1, g) = [c \in 1..g |-> row[G[c].name]]
  BY <1>10, <1>12
<1>14. QED
  BY <1>6, <1>7, <1>11, <1>13 DEF A, n

LEMMA KeysGrow ==
    ASSUME NEW R, NEW rows \in Seq(R), NEW row \in R, NEW q
    PROVE  /\ GroupKeys(q, Put(rows, row)) = GroupKeys(q, rows) \cup {GroupKey(q, row)}
           /\ \A key : /\ RowsOfKey(q, rows, key) \subseteq 1..Len(rows)
                       /\ RowsOfKey(q, Put(rows, row), key) =
                             IF key = GroupKey(q, row)
                             THEN RowsOfKey(q, rows, key) \cup {Len(rows) + 1}
                             ELSE RowsOfKey(q, rows, key)
           /\ \A key : key \notin GroupKeys(q, rows) => RowsOfKey(q, rows, key) = {}
<1> DEFINE more == Put(rows, row)
           n == Len(rows)
           none == IF q.group_by = <<>> THEN {<<>>} ELSE {}
<1>1. /\ n \in Nat /\ DOMAIN rows = 1..n /\ DOMAIN more = 1..(n + 1)
      /\ \A i \in 1..n : more[i] = rows[i]
      /\ more[n + 1] = row
  BY DEF Put
<1>2. /\ GroupKeys(q, rows) = {GroupKey(q, rows[i]) : i \in 1..n} \cup none
      /\ GroupKeys(q, more) = {GroupKey(q, more[i]) : i \in 1..(n + 1)} \cup none
  BY <1>1 DEF GroupKeys
<1>3. \A key : /\ RowsOfKey(q, rows, key) = {i \in 1..n : GroupKey(q, rows[i]) = key}
               /\ RowsOfKey(q, more, key) = {i \in 1..(n + 1) : GroupKey(q, more[i]) = key}
  BY <1>1 DEF RowsOfKey
<1> HIDE DEF more, n, none
<1>4. 1..(n + 1) = (1..n) \cup {n + 1} /\ n + 1 \notin 1..n
  BY <1>1
<1>5. GroupKeys(q, more) = GroupKeys(q, rows) \cup {GroupKey(q, row)}
  <2>1. {GroupKey(q, more[i]) : i \in 1..(n + 1)} =
           {GroupKey(q, rows[i]) : i \in 1..n} \cup {GroupKey(q, row)}
    BY <1>1, <1>4
  <2>2. QED
    BY <1>2, <2>1
<1>6. ASSUME NEW key
      PROVE  RowsOfKey(q, more, key) = IF key = GroupKey(q, row)
                                       THEN RowsOfKey(q, rows, key) \cup {n + 1}
                                       ELSE RowsOfKey(q, rows, key)
  <2>1. \A i \in 1..n : GroupKey(q, more[i]) = GroupKey(q, rows[i])
    BY <1>1
  <2>2. GroupKey(q, more[n + 1]) = GroupKey(q, row)
    BY <1>1
  <2>3. \A i : i \in RowsOfKey(q, more, key) <=>
                   \/ i \in RowsOfKey(q, rows, key)
                   \/ i = n + 1 /\ GroupKey(q, row) = key
    BY <1>3, <1>4, <2>1, <2>2
  <2>4. QED
    BY <2>3
<1>7. \A key : RowsOfKey(q, rows, key) \subseteq 1..n
  BY <1>3
<1>8. \A key : key \notin GroupKeys(q, rows) => RowsOfKey(q, rows, key) = {}
  BY <1>2, <1>3
<1>9. QED
  BY <1>5, <1>6, <1>7, <1>8 DEF more, n

(* A group nobody has added to is over no rows.                            *)
LEMMA NewAccumulates ==
    ASSUME NEW rows, NEW fn, NEW name
    PROVE  Accumulates(Fresh, rows, fn, name, {})
BY FS_EmptySet DEF Fresh, Accumulates

(* Adding a row to the groups of some rows makes the groups of the rows    *)
(* with that row.                                                          *)
LEMMA GroupAdded ==
    ASSUME NEW schema, NEW q, IsQuery(schema, q), Aggregating(q),
           NEW rows \in Seq(Row(schema)), NEW row \in Row(schema), NEW r, ReadsRow(q, r, row),
           NEW gs, GroupsAre(gs, q, rows)
    PROVE  GroupsAre(AddRow(gs, q, r), q, Put(rows, row))
<1> DEFINE key == GroupKey(q, row)
           more == Put(rows, row)
           A == q.aggregates
           old == IF key \in DOMAIN gs THEN gs[key] ELSE NewGroup(q)
           new == [i \in 1..Len(A) |-> AddValue(A[i].fn, old[i], row[A[i].name])]
           at == AddRow(gs, q, r)
           R == Row(schema)
           was == GroupKeys(q, rows)
<1>1. KeyOf(q, r) = key /\ \A a \in 1..Len(A) : ArgumentOf(q, r, a) = row[A[a].name]
  BY RowRead
<1>2. A \in Seq(ItemSet) /\ \A a \in 1..Len(A) : A[a].name \in Names(schema) /\ A[a].fn \in AggregateFn
  BY DEF IsQuery
<1>3. DOMAIN A = 1..Len(A)
  BY <1>2, AggregatesShape
<1>4. at = [k \in DOMAIN gs \cup {key} |-> IF k # key THEN gs[k] ELSE new]
  <2>1. at = [k \in DOMAIN gs \cup {key} |-> IF k # key THEN gs[k] ELSE
                  [i \in DOMAIN A |-> AddValue(A[i].fn, old[i], ArgumentOf(q, r, i))]]
    BY <1>1 DEF AddRow
  <2>2. [i \in DOMAIN A |-> AddValue(A[i].fn, old[i], ArgumentOf(q, r, i))] = new
    BY <1>1, <1>3
  <2> HIDE DEF new, at, old
  <2>3. QED
    BY <2>1, <2>2
<1>5. /\ DOMAIN gs = was
      /\ \A k \in was, a \in 1..Len(A) :
            Accumulates(gs[k][a], rows, A[a].fn, A[a].name, RowsOfKey(q, rows, k))
  BY DEF GroupsAre
<1>6. rows \in Seq(R) /\ row \in R /\ \A n \in Names(schema), x \in R : x[n] \in Literal
  BY RowTyped
<1> HIDE DEF R
<1>7. /\ GroupKeys(q, more) = was \cup {key}
      /\ \A k : /\ RowsOfKey(q, rows, k) \subseteq 1..Len(rows)
                /\ k # key => RowsOfKey(q, more, k) = RowsOfKey(q, rows, k)
                /\ k \notin was => RowsOfKey(q, rows, k) = {}
      /\ RowsOfKey(q, more, key) = RowsOfKey(q, rows, key) \cup {Len(rows) + 1}
  BY <1>6, KeysGrow
<1>8. \A i \in 1..Len(A) : new[i] = AddValue(A[i].fn, old[i], row[A[i].name])
  OBVIOUS
<1>9. \A a \in 1..Len(A) : Accumulates(old[a], rows, A[a].fn, A[a].name, RowsOfKey(q, rows, key))
  <2> TAKE a \in 1..Len(A)
  <2>1. CASE key \in was
    BY <1>5, <2>1
  <2>2. CASE key \notin was
    <3>1. old[a] = Fresh /\ RowsOfKey(q, rows, key) = {}
      BY <1>3, <1>5, <1>7, <2>2 DEF NewGroup
    <3>2. QED
      BY <3>1, NewAccumulates
  <2>3. QED
    BY <2>1, <2>2
<1> HIDE DEF new, at, old, key, was, more
<1>10. DOMAIN at = was \cup {key} /\ at[key] = new /\ \A k \in was : k # key => at[k] = gs[k]
  BY <1>4, <1>5
<1>11. ASSUME NEW k \in was \cup {key}, NEW a \in 1..Len(A)
       PROVE  Accumulates(at[k][a], more, A[a].fn, A[a].name, RowsOfKey(q, more, k))
  <2> DEFINE fn == A[a].fn
             name == A[a].name
             I == RowsOfKey(q, rows, k)
  <2>1. fn \in AggregateFn /\ name \in Names(schema) /\ I \in SUBSET (1..Len(rows))
        /\ \A x \in R : x[name] \in Literal
    BY <1>2, <1>6, <1>7
  <2>2. CASE k = key
    <3> DEFINE acc == old[a]
    <3>1. Accumulates(acc, rows, fn, name, I)
      BY <1>9, <2>2
    <3>2. at[k][a] = AddValue(fn, acc, row[name]) /\ RowsOfKey(q, more, k) = I \cup {Len(rows) + 1}
      BY <1>7, <1>8, <1>10, <2>2
    <3> HIDE DEF fn, name, I, acc
    <3>3. Accumulates(AddValue(fn, acc, row[name]), Put(rows, row), fn, name, I \cup {Len(rows) + 1})
      BY <1>6, <2>1, <3>1, AccumulatorGrows
    <3>4. QED
      BY <3>2, <3>3 DEF fn, name, I, acc, more
  <2>3. CASE k # key
    <3> DEFINE acc == gs[k][a]
    <3>1. Accumulates(acc, rows, fn, name, I)
      BY <1>5, <2>3
    <3>2. at[k][a] = acc /\ RowsOfKey(q, more, k) = I
      BY <1>7, <1>10, <2>3
    <3> HIDE DEF fn, name, I, acc
    <3>3. Accumulates(acc, Put(rows, row), fn, name, I)
      BY <1>6, <2>1, <3>1, AccumulatorGrows
    <3>4. QED
      BY <3>2, <3>3 DEF fn, name, I, acc, more
  <2>4. QED
    BY <2>2, <2>3
<1>12. GroupsAre(at, q, more)
  BY <1>7, <1>10, <1>11 DEF GroupsAre
<1>13. QED
  BY <1>12 DEF at, more

(* The groups after the rows kept of a chunk.                              *)
GroupsAfter(gs, q, k) ==
    LET after[i \in 0..Len(k)] == IF i = 0 THEN gs ELSE AddRow(after[i - 1], q, k[i])
    IN  after[Len(k)]

LEMMA GroupSteps ==
    ASSUME NEW gs, NEW q, NEW k, Len(k) \in Nat
    PROVE  \E after :
              /\ after[0] = gs
              /\ \A i \in 1..Len(k) : after[i] = AddRow(after[i - 1], q, k[i])
              /\ GroupsAfter(gs, q, k) = after[Len(k)]
<1> DEFINE N == Len(k)
           To(n, g) == g = [i \in 0..n |-> IF i = 0 THEN gs ELSE AddRow(g[i - 1], q, k[i])]
           T == {n \in Nat : n <= N => \E g : To(n, g)}
<1>0. N \in Nat
  BY DEF N
<1>1. 0 \in T
  <2> DEFINE g == [i \in 0..0 |-> gs]
  <2>1. g = [i \in 0..0 |-> IF i = 0 THEN gs ELSE AddRow(g[i - 1], q, k[i])]
    OBVIOUS
  <2> HIDE DEF g
  <2>2. \E f : To(0, f)
    BY <2>1
  <2>3. QED
    BY <2>2
<1>2. ASSUME NEW n \in Nat, n \in T PROVE n + 1 \in T
  <2> SUFFICES ASSUME n + 1 <= N PROVE \E g : To(n + 1, g)
    OBVIOUS
  <2>1. PICK g : To(n, g)
    BY <1>0, <1>2
  <2> DEFINE new == AddRow(g[n], q, k[(n + 1)])
             h == [i \in 0..(n + 1) |-> IF i = n + 1 THEN new ELSE g[i]]
  <2>2. /\ DOMAIN h = 0..(n + 1) /\ h = [i \in 0..(n + 1) |-> h[i]]
        /\ h[n + 1] = new /\ \A i \in 0..n : h[i] = g[i]
    OBVIOUS
  <2>3. \A i \in 0..n : g[i] = IF i = 0 THEN gs ELSE AddRow(g[i - 1], q, k[i])
    <3> HIDE DEF new, h
    <3>1. g = [i \in 0..n |-> IF i = 0 THEN gs ELSE AddRow(g[i - 1], q, k[i])]
      BY <2>1
    <3>2. QED
      BY <3>1
  <2> HIDE DEF h, To
  <2>4. ASSUME NEW i \in 0..(n + 1) PROVE h[i] = IF i = 0 THEN gs ELSE AddRow(h[i - 1], q, k[i])
    <3>1. CASE i = n + 1
      <4>1. i # 0 /\ i - 1 = n /\ n \in 0..n
        BY <3>1
      <4>2. h[i - 1] = g[n] /\ h[i] = new
        BY <2>2, <3>1, <4>1
      <4>3. QED
        BY <3>1, <4>1, <4>2
    <3>2. CASE i # n + 1
      <4>1. i \in 0..n /\ (i # 0 => i - 1 \in 0..n)
        BY <3>2
      <4>2. h[i] = g[i] /\ (i # 0 => h[i - 1] = g[i - 1])
        BY <2>2, <4>1
      <4>3. QED
        BY <2>3, <4>1, <4>2
    <3>3. QED
      BY <3>1, <3>2
  <2>5. h = [i \in 0..(n + 1) |-> IF i = 0 THEN gs ELSE AddRow(h[i - 1], q, k[i])]
    BY <2>2, <2>4
  <2>6. QED
    BY <2>5 DEF To
<1>3. \E g : To(N, g)
  <2> HIDE DEF T
  <2>1. \A n \in Nat : n \in T
    BY <1>1, <1>2, CountingUp
  <2>2. QED
    BY <1>0, <2>1 DEF T
<1> DEFINE u == CHOOSE g : g = [i \in 0..N |-> IF i = 0 THEN gs ELSE AddRow(g[i - 1], q, k[i])]
<1>4. u = [i \in 0..N |-> IF i = 0 THEN gs ELSE AddRow(u[i - 1], q, k[i])]
  BY <1>3
<1>5. GroupsAfter(gs, q, k) = u[N]
  BY <1>0 DEF GroupsAfter
<1> HIDE DEF u
<1>6. u[0] = gs /\ \A i \in 1..N : u[i] = AddRow(u[i - 1], q, k[i])
  <2>1. 0 \in 0..N /\ \A i \in 1..N : i \in 0..N /\ i # 0
    BY <1>0
  <2>2. QED
    BY <1>4, <2>1
<1>7. QED
  BY <1>5, <1>6

LEMMA PiecePut ==
    ASSUME NEW S, NEW s \in Seq(S), NEW k \in Nat, k < Len(s)
    PROVE  /\ Piece(s, 1, k) \in Seq(S) /\ s[k + 1] \in S
           /\ Piece(s, 1, k + 1) = Put(Piece(s, 1, k), s[k + 1])
BY DEF Piece, Put

(* A chunk adds the rows WHERE keeps of it to the groups.                  *)
LEMMA ChunkGrouped ==
    ASSUME NEW schema, IsSchema(schema), NEW q, IsQuery(schema, q), Aggregating(q),
           Aligned(schema, q), NEW chunk \in Seq(Row(schema)),
           NEW rows \in Seq(Row(schema)), NEW gs, GroupsAre(gs, q, rows)
    PROVE  GroupsAre(GroupsAfter(gs, q, KeptIn(schema, q, chunk)), q,
                     Cat(rows, Filtered(chunk, Meant(schema, q))))
<1> DEFINE k == KeptIn(schema, q, chunk)
           new == Filtered(chunk, Meant(schema, q))
           R == Row(schema)
           N == Len(k)
<1>1. /\ N \in Nat /\ new \in Seq(R) /\ N = Len(new)
      /\ \A i \in 1..N : ReadsRow(q, k[i], new[i])
  <2>1. KeepsOf(schema, q, chunk, k, new)
    BY ChunkKept
  <2> HIDE DEF k, new
  <2>2. QED
    BY <2>1 DEF KeepsOf
<1> HIDE DEF k
<1>2. PICK after : /\ after[0] = gs
                   /\ \A i \in 1..Len(k) : after[i] = AddRow(after[i - 1], q, k[i])
                   /\ GroupsAfter(gs, q, k) = after[Len(k)]
  <2>1. Len(k) \in Nat
    BY <1>1
  <2>2. QED
    BY <2>1, GroupSteps
<1> DEFINE T == {i \in Nat : i <= N => GroupsAre(after[i], q, Cat(rows, Piece(new, 1, i)))}
<1> HIDE DEF k, new
<1>3. 0 \in T
  <2> DEFINE none == Piece(new, 1, 0)
  <2>1. none = <<>>
    BY <1>1 DEF Piece
  <2> HIDE DEF none
  <2>2. Cat(rows, none) = rows
    <3> HIDE DEF R
    <3>1. rows \in Seq(R)
      BY DEF R
    <3>2. QED
      BY <2>1, <3>1, CatEmpty
  <2>3. GroupsAre(after[0], q, Cat(rows, none))
    BY <1>2, <2>2
  <2>4. QED
    BY <2>3 DEF none
<1>4. ASSUME NEW i \in Nat, i \in T PROVE i + 1 \in T
  <2> SUFFICES ASSUME i + 1 <= N PROVE GroupsAre(after[i + 1], q, Cat(rows, Piece(new, 1, i + 1)))
    OBVIOUS
  <2> DEFINE row == new[i + 1]
             before == Piece(new, 1, i)
  <2>1. i + 1 \in 1..N /\ (i + 1) - 1 = i /\ i < Len(new)
    BY <1>1
  <2>2. GroupsAre(after[i], q, Cat(rows, before))
    BY <1>1, <1>4
  <2>3. after[i + 1] = AddRow(after[i], q, k[i + 1]) /\ ReadsRow(q, k[i + 1], row)
    BY <1>1, <1>2, <2>1
  <2>4. before \in Seq(R) /\ row \in R /\ Piece(new, 1, i + 1) = Put(before, row)
    <3> HIDE DEF R
    <3>1. QED
      BY <1>1, <2>1, PiecePut
  <2> HIDE DEF before, row
  <2>5. Cat(rows, before) \in Seq(R) /\ Cat(rows, Put(before, row)) = Put(Cat(rows, before), row)
    <3> HIDE DEF R
    <3>1. rows \in Seq(R)
      BY DEF R
    <3>2. Cat(rows, before) \in Seq(R)
      BY <2>4, <3>1, CatType
    <3>3. QED
      BY <2>4, <3>1, <3>2, PutCat
  <2> DEFINE all == Cat(rows, before)
  <2> HIDE DEF all
  <2>6. all \in Seq(Row(schema)) /\ row \in Row(schema) /\ GroupsAre(after[i], q, all)
    BY <2>2, <2>4, <2>5 DEF all
  <2>7. GroupsAre(AddRow(after[i], q, k[i + 1]), q, Put(all, row))
    BY <2>3, <2>6, GroupAdded
  <2>8. QED
    BY <2>3, <2>4, <2>5, <2>7 DEF all
<1>5. N \in T
  <2> HIDE DEF T, N
  <2>1. QED
    BY <1>1, <1>3, <1>4, CountingUp
<1>6. Piece(new, 1, N) = new
  <2> HIDE DEF R
  <2>1. QED
    BY <1>1, PieceWhole
<1>7. QED
  BY <1>2, <1>5, <1>6 DEF k, new

(* Before any row there is the one group of a SELECT without GROUP BY.     *)
LEMMA GroupsBegin ==
    ASSUME NEW schema, NEW q, IsQuery(schema, q)
    PROVE  GroupsAre([k \in (IF q.group_by = <<>> THEN {<<>>} ELSE {}) |-> NewGroup(q)], q, <<>>)
<1> DEFINE D == IF q.group_by = <<>> THEN {<<>>} ELSE {}
           gs == [k \in D |-> NewGroup(q)]
           none == <<>>
           A == q.aggregates
<1>1. DOMAIN none = {}
  OBVIOUS
<1> HIDE DEF none
<1>2. GroupKeys(q, none) = D /\ \A key : RowsOfKey(q, none, key) = {}
  BY <1>1 DEF GroupKeys, RowsOfKey
<1>3. DOMAIN gs = D /\ \A k \in D : gs[k] = NewGroup(q)
  OBVIOUS
<1>4. DOMAIN A = 1..Len(A)
  <2>1. A \in Seq(ItemSet)
    BY DEF IsQuery
  <2>2. QED
    BY <2>1, AggregatesShape
<1>5. \A a \in 1..Len(A) : NewGroup(q)[a] = Fresh
  BY <1>4 DEF NewGroup
<1> HIDE DEF D, gs, A
<1>6. \A k \in D, a \in 1..Len(A) :
         Accumulates(gs[k][a], none, A[a].fn, A[a].name, RowsOfKey(q, none, k))
  BY <1>2, <1>3, <1>5, NewAccumulates
<1>7. GroupsAre(gs, q, none)
  BY <1>2, <1>3, <1>6 DEF GroupsAre, A
<1>8. QED
  BY <1>7 DEF gs, D, none

-----------------------------------------------------------------------------
(* The table and its parts, in every state *)

Created == \E def \in Definitions : table \in Planned(def)

Stored ==
    /\ parts \in Seq(Seq(Row(table.schema))) /\ batches \in Seq(Seq(Row(table.schema)))
    /\ Len(parts) = Len(batches) /\ Len(parts) <= MaxInserts
    /\ \A p \in 1..Len(parts) : IsPart(table, batches[p], parts[p])

(* What the phases say of each other: a table is there before its rows, a  *)
(* query before its answer.                                                *)
Phases ==
    /\ pc \in {"create", "ready", "scan", "order", "done"}
    /\ outcome \in {"ok", "error", "panic"}
    /\ pc = "create" => outcome = "ok" /\ table.engine = "none"
    /\ table.engine = "none" => parts = <<>> /\ batches = <<>>
    /\ pc \in {"ready", "scan", "order"} => Created
    /\ table.engine = "none" \/ Created
    /\ pc \in {"create", "ready"} => read = 0 /\ linesRead = 0 /\ ordered = 0
    /\ pc \in {"scan", "order"} => outcome = "ok"
    /\ pc \in {"scan", "order"} \/ Answered => Created /\ IsQuery(table.schema, query)

Counters == read \in 0..Len(ChunksOf(parts)) /\ linesRead \in 0..Granularity

InsertPanicked ==
    pc = "ready" /\ outcome = "panic" => \E name \in ToSet(table.order_by) : MayBeNull(name)

StoreInv == Stored /\ Phases /\ Counters /\ InsertPanicked

LEMMA CreatedIs ==
    ASSUME Created
    PROVE  /\ IsTable(table) /\ IsSchema(table.schema)
           /\ \A insert \in Batches(table.schema) : IsInsert(insert)
           /\ \A select \in Selects(table.schema) : IsSelect(select)
<1>1. PICK def \in Definitions : table \in Planned(def)
  BY DEF Created
<1>2. /\ IsDefinition(def)
      /\ \A insert \in Batches(table.schema) : IsInsert(insert)
      /\ \A select \in Selects(table.schema) : IsSelect(select)
  BY <1>1, QueryAssumption
<1>3. IsTable(table)
  BY <1>1, <1>2, TablePlanned
<1>4. IsSchema(table.schema)
  BY <1>3 DEF IsTable
<1>5. QED
  BY <1>2, <1>3, <1>4

LEMMA ChunksAre == Chunks = ChunksOf(parts)
BY DEF Chunks, ChunksOf, CutsOf, CutOf

LEMMA ChunkTyped ==
    ASSUME NEW R, NEW ps \in Seq(Seq(R))
    PROVE  /\ ChunksOf(ps) \in Seq(Seq(R)) /\ Len(ChunksOf(ps)) \in Nat
           /\ \A k \in 1..Len(ChunksOf(ps)) : /\ ChunksOf(ps)[k] \in Seq(R)
                                              /\ Len(ChunksOf(ps)[k]) \in 1..Granularity
<1> DEFINE SEQ == Seq(R)
           ch == ChunksOf(ps)
<1>1. ch \in Seq(SEQ) /\ \A k \in 1..Len(ch) : Len(ch[k]) \in 1..Granularity
  BY ChunksJoin
<1> HIDE DEF SEQ, ch
<1>2. Len(ch) \in Nat /\ \A k \in 1..Len(ch) : ch[k] \in SEQ
  BY <1>1
<1>3. QED
  BY <1>1, <1>2 DEF SEQ, ch

LEMMA StoreBegins == Init => StoreInv
<1> SUFFICES ASSUME Init PROVE StoreInv
  OBVIOUS
<1>1. parts = <<>> /\ batches = <<>> /\ pc = "create" /\ outcome = "ok"
      /\ read = 0 /\ linesRead = 0 /\ ordered = 0 /\ table.engine = "none"
  BY DEF Init
<1>2. Stored
  <2> DEFINE SEQ == Seq(Row(table.schema))
  <2> HIDE DEF SEQ
  <2>1. parts \in Seq(SEQ) /\ batches \in Seq(SEQ) /\ Len(parts) = 0 /\ Len(batches) = 0
    BY <1>1
  <2>2. QED
    BY <2>1, QueryAssumption DEF Stored, SEQ
<1>3. Phases
  BY <1>1 DEF Phases, Answered
<1>4. Counters
  <2> DEFINE R == Row(table.schema)
  <2>1. parts \in Seq(Seq(R))
    BY <1>2 DEF Stored
  <2> HIDE DEF R
  <2>2. Len(ChunksOf(parts)) \in Nat
    BY <2>1, ChunkTyped
  <2>3. QED
    BY <1>1, <2>2, GranularityAssumption DEF Counters
<1>5. InsertPanicked
  BY <1>1 DEF InsertPanicked
<1>6. QED
  BY <1>2, <1>3, <1>4, <1>5 DEF StoreInv

(* INSERT adds a part that holds its rows.                                 *)
LEMMA InsertStores ==
    ASSUME Stored, Created, Insert
    PROVE  Stored'
<1>1. /\ IsTable(table) /\ IsSchema(table.schema)
      /\ \A insert \in Batches(table.schema) : IsInsert(insert)
  BY CreatedIs
<1> DEFINE R == Row(table.schema)
           SEQ == Seq(R)
           n == Len(parts)
<1>a. PICK insert \in Batches(table.schema) :
       \E rows \in InsertRows(table.schema, insert) :
          LET cols == ColumnsOf(table.schema, rows)
          IN  /\ Total + Len(rows) <= MaxRows
              /\ ~OrderPanics(cols, OrderKeys)
              /\ \E stored \in StoreResults(table.engine, cols, OrderKeys, PrimaryKeys) :
                    parts' = Append(parts, RowsOf(table.schema, stored))
              /\ batches' = Append(batches, rows)
  BY Zenon DEF Insert
<1>2. PICK rows \in InsertRows(table.schema, insert) :
          LET cols == ColumnsOf(table.schema, rows)
          IN  /\ Total + Len(rows) <= MaxRows
              /\ ~OrderPanics(cols, OrderKeys)
              /\ \E stored \in StoreResults(table.engine, cols, OrderKeys, PrimaryKeys) :
                    parts' = Append(parts, RowsOf(table.schema, stored))
              /\ batches' = Append(batches, rows)
  BY <1>a
<1>3. rows \in Seq(Row(table.schema))
  BY <1>1, RowsInserted
<1>4. PICK stored \in StoreResults(table.engine, ColumnsOf(table.schema, rows),
                                   OrderKeys, PrimaryKeys) :
         parts' = Append(parts, RowsOf(table.schema, stored))
  BY <1>2
<1> DEFINE part == RowsOf(table.schema, stored)
<1>5. IsPart(table, rows, part)
  <2>1. ~OrderPanics(ColumnsOf(table.schema, rows), Positions(table.schema, table.order_by))
    BY <1>2 DEF OrderKeys
  <2>2. stored \in StoreResults(table.engine, ColumnsOf(table.schema, rows),
                                Positions(table.schema, table.order_by),
                                Positions(table.schema, table.primary_key))
    BY <1>4 DEF OrderKeys, PrimaryKeys
  <2>3. QED
    BY <1>1, <1>3, <2>1, <2>2, PartStored
<1>6. table' = table /\ n < MaxInserts
  BY DEF Insert
<1>7. parts' = Append(parts, part) /\ batches' = Append(batches, rows)
  BY <1>2, <1>4
<1>8. rows \in SEQ /\ part \in SEQ
  BY <1>3, <1>5 DEF IsPart
<1>9. /\ parts \in Seq(SEQ) /\ batches \in Seq(SEQ) /\ Len(batches) = n
      /\ \A p \in 1..n : IsPart(table, batches[p], parts[p])
  BY DEF Stored
<1> HIDE DEF SEQ, part, n
<1>10. /\ n \in Nat /\ parts' \in Seq(SEQ) /\ Len(parts') = n + 1
       /\ batches' \in Seq(SEQ) /\ Len(batches') = n + 1
       /\ \A p \in 1..n : parts'[p] = parts[p] /\ batches'[p] = batches[p]
       /\ parts'[n + 1] = part /\ batches'[n + 1] = rows
  BY <1>7, <1>8, <1>9 DEF n
<1>11. \A p \in 1..(n + 1) : IsPart(table, batches'[p], parts'[p])
  <2> TAKE p \in 1..(n + 1)
  <2>1. CASE p = n + 1
    BY <1>5, <1>10, <2>1 DEF part
  <2>2. CASE p # n + 1
    <3>1. p \in 1..n
      BY <1>10, <2>2
    <3>2. QED
      BY <1>9, <1>10, <3>1
  <2>3. QED
    BY <2>1, <2>2
<1>12. n + 1 <= MaxInserts
  BY <1>6, <1>10, QueryAssumption
<1>13. QED
  BY <1>6, <1>10, <1>11, <1>12 DEF Stored, SEQ

LEMMA InsertPanicsOnNull ==
    ASSUME Created, InsertPanics
    PROVE  \E name \in ToSet(table.order_by) : MayBeNull(name)
<1>1. /\ IsTable(table) /\ IsSchema(table.schema)
      /\ \A insert \in Batches(table.schema) : IsInsert(insert)
  BY CreatedIs
<1>a. PICK insert \in Batches(table.schema) :
       \E rows \in InsertRows(table.schema, insert) :
          OrderPanics(ColumnsOf(table.schema, rows), OrderKeys)
  BY DEF InsertPanics
<1>2. PICK rows \in InsertRows(table.schema, insert) :
          OrderPanics(ColumnsOf(table.schema, rows), OrderKeys)
  BY <1>a
<1>3. rows \in Seq(Row(table.schema))
  BY <1>1, RowsInserted
<1>4. OrderPanics(ColumnsOf(table.schema, rows), Positions(table.schema, table.order_by))
  BY <1>2 DEF OrderKeys
<1>5. \E name \in ToSet(table.order_by) :
         Column(table.schema, name).nullable \/ Column(table.schema, name).default = {Null}
  BY <1>1, <1>3, <1>4, NullsPanic
<1>6. QED
  BY <1>5 DEF MayBeNull

LEMMA KeptIs ==
    /\ KeptOfBuffer = KeptIn(table.schema, query, ChunksOf(parts)[read + 1])
    /\ GroupsOfBuffer = GroupsAfter(groups, query, KeptOfBuffer)
<1> DEFINE chunk == ChunksOf(parts)[read + 1]
<1>1. Buffer = BufferOf(query, chunk)
  BY ChunksAre DEF Buffer, BufferOf
<1>2. KeptOfBuffer = KeptIn(table.schema, query, chunk)
  BY <1>1 DEF KeptOfBuffer, KeptIn, KeptPlaces, Places, CompiledWhere
<1>3. GroupsOfBuffer = GroupsAfter(groups, query, KeptOfBuffer)
  BY DEF GroupsOfBuffer, GroupsAfter
<1>4. QED
  BY <1>2, <1>3

(* Only CREATE TABLE and INSERT change the table.                          *)
LEMMA TableMoves ==
    ASSUME [Next]_vars
    PROVE  CreateTable \/ Insert \/ UNCHANGED tableVars
BY DEF Next, vars, CreateTableRefused, InsertRefused, InsertPanics, Select, SelectRefused, SelectPanics,
       ReadChunk, ReadPanics, AggregateFails, Finalize, OrderOnce, OrderFails, Answer

LEMMA StoredKept ==
    ASSUME Stored, Phases, [Next]_vars
    PROVE  Stored'
<1>1. CASE CreateTable
  <2>1. table.engine = "none" /\ parts' = parts /\ batches' = batches
    BY <1>1 DEF CreateTable, Phases
  <2>2. parts' = <<>> /\ batches' = <<>>
    BY <2>1 DEF Phases
  <2> DEFINE SEQ == Seq(Row(table'.schema))
  <2> HIDE DEF SEQ
  <2>3. parts' \in Seq(SEQ) /\ batches' \in Seq(SEQ) /\ Len(parts') = 0 /\ Len(batches') = 0
    BY <2>2
  <2>4. QED
    BY <2>3, QueryAssumption DEF Stored, SEQ
<1>2. CASE Insert
  <2>1. Created
    BY <1>2 DEF Phases, Insert
  <2>2. QED
    BY <1>2, <2>1, InsertStores
<1>3. CASE UNCHANGED tableVars
  <2>1. parts' = parts /\ batches' = batches /\ table' = table
    BY <1>3 DEF tableVars
  <2>2. QED
    BY <2>1 DEF Stored
<1>4. QED
  BY <1>1, <1>2, <1>3, TableMoves

LEMMA PhasesKept ==
    ASSUME Phases, [Next]_vars
    PROVE  Phases'
<1>1. CASE CreateTable
  <2>1. pc = "create" /\ pc' = "ready" /\ outcome' = outcome /\ Created'
        /\ read' = read /\ linesRead' = linesRead /\ ordered' = ordered
    BY <1>1 DEF CreateTable, selectVars, Created
  <2>2. table'.engine # "none"
    <3>1. PICK def \in Definitions : table' \in Planned(def)
      BY <1>1 DEF CreateTable
    <3>2. IsTable(table')
      BY <3>1, QueryAssumption, TablePlanned
    <3>3. QED
      BY <3>2 DEF IsTable, EngineName
  <2>3. QED
    BY <2>1, <2>2 DEF Phases, Answered
<1>2. CASE CreateTableRefused
  <2>1. /\ pc = "create" /\ pc' = "done" /\ outcome' = "error" /\ table' = table
        /\ parts' = parts /\ batches' = batches
    BY <1>2 DEF CreateTableRefused, tableVars
  <2>2. QED
    BY <2>1 DEF Phases, Answered
<1>3. CASE Insert \/ InsertRefused \/ InsertPanics
  <2>1. /\ pc = "ready" /\ pc' = pc /\ table' = table
        /\ read' = read /\ linesRead' = linesRead /\ ordered' = ordered
        /\ outcome' \in {"ok", "error", "panic"}
    BY <1>3 DEF Insert, InsertRefused, InsertPanics, tableVars, selectVars
  <2>2. Created'
    BY <2>1 DEF Phases, Created
  <2>a. table'.engine # "none"
    <3>1. Created
      BY <2>1 DEF Phases
    <3>2. QED
      BY <2>1, <3>1, CreatedIs DEF IsTable, EngineName
  <2>3. QED
    BY <2>1, <2>2, <2>a DEF Phases, Answered
<1>4. CASE Select
  <2>1. /\ pc = "ready" /\ pc' = "scan" /\ outcome' = "ok" /\ table' = table
        /\ parts' = parts /\ batches' = batches
    BY <1>4 DEF Select, tableVars
  <2>2. Created /\ Created'
    BY <2>1 DEF Phases, Created
  <2>3. PICK select \in Selects(table.schema) :
          /\ Plannable(table.schema, select)
          /\ Compiles(select.where, table.schema)
          /\ query' = SelectNode(table.schema, select)
    BY <1>4 DEF Select
  <2>4. IsSchema(table.schema) /\ IsSelect(select)
    BY <2>2, CreatedIs
  <2>5. IsQuery(table'.schema, query')
    BY <2>1, <2>3, <2>4, SelectPlanned
  <2>6. QED
    BY <2>1, <2>2, <2>5 DEF Phases, Answered
<1>5. CASE SelectRefused
  <2>1. /\ pc = "ready" /\ pc' = "done" /\ outcome' = "error" /\ table' = table
        /\ parts' = parts /\ batches' = batches
    BY <1>5 DEF SelectRefused, tableVars
  <2>2. Created'
    BY <2>1 DEF Phases, Created
  <2>3. QED
    BY <2>1, <2>2 DEF Phases, Answered
<1>6. CASE SelectPanics \/ ReadPanics \/ AggregateFails \/ OrderFails
  <2>1. /\ pc \in {"ready", "scan", "order"} /\ pc' = "done" /\ outcome' \in {"error", "panic"}
        /\ table' = table /\ parts' = parts /\ batches' = batches
    BY <1>6 DEF SelectPanics, ReadPanics, AggregateFails, OrderFails, Reading, Ordering, tableVars
  <2>2. Created'
    BY <2>1 DEF Phases, Created
  <2>3. QED
    BY <2>1, <2>2 DEF Phases, Answered
<1>7. CASE ReadChunk \/ Finalize \/ OrderOnce \/ Answer
  <2>1. /\ pc \in {"scan", "order"} /\ pc' \in {"scan", "order", "done"}
        /\ outcome' = outcome /\ table' = table /\ query' = query
        /\ parts' = parts /\ batches' = batches
    BY <1>7 DEF ReadChunk, Finalize, OrderOnce, Answer, Reading, Ordering, tableVars
  <2>2. Created' /\ IsQuery(table'.schema, query') /\ outcome' = "ok"
    BY <2>1 DEF Phases, Created
  <2>3. QED
    BY <2>1, <2>2 DEF Phases, Answered
<1>8. CASE UNCHANGED vars
  <2>1. /\ pc' = pc /\ outcome' = outcome /\ table' = table /\ query' = query
        /\ parts' = parts /\ batches' = batches
        /\ read' = read /\ linesRead' = linesRead /\ ordered' = ordered
    BY <1>8 DEF vars, tableVars, selectVars
  <2>2. QED
    BY <2>1 DEF Phases, Answered, Created
<1>9. QED
  BY <1>1, <1>2, <1>3, <1>4, <1>5, <1>6, <1>7, <1>8 DEF Next

LEMMA CountersKept ==
    ASSUME Stored, Phases, Counters, [Next]_vars
    PROVE  Counters'
<1>1. Stored'
  BY StoredKept
<1>2. Len(ChunksOf(parts)) \in Nat /\ Len(ChunksOf(parts')) \in Nat
  <2> DEFINE R == Row(table.schema)
             S == Row(table'.schema)
  <2>1. parts \in Seq(Seq(R)) /\ parts' \in Seq(Seq(S))
    BY <1>1 DEF Stored
  <2> HIDE DEF R, S
  <2>2. Len(ChunksOf(parts)) \in Nat
    BY <2>1, ChunkTyped
  <2>3. Len(ChunksOf(parts')) \in Nat
    BY <2>1, ChunkTyped
  <2>4. QED
    BY <2>2, <2>3
<1>3. CASE CreateTable \/ Insert
  <2>1. read = 0 /\ linesRead = 0 /\ read' = read /\ linesRead' = linesRead
    BY <1>3 DEF CreateTable, Insert, selectVars, Phases
  <2>2. QED
    BY <1>2, <2>1, GranularityAssumption DEF Counters
<1>4. CASE ReadChunk
  <2> DEFINE chunk == ChunksOf(parts)[read + 1]
  <2>1. parts' = parts /\ read' = read + 1 /\ linesRead' = Len(KeptOfBuffer)
        /\ read < Len(Chunks) /\ pc = "scan"
    BY <1>4 DEF ReadChunk, Reading, tableVars
  <2>2. read + 1 \in 1..Len(ChunksOf(parts))
    BY <1>2, <2>1, ChunksAre DEF Counters
  <2>3. chunk \in Seq(Row(table.schema)) /\ Len(chunk) \in 1..Granularity
    <3> DEFINE R == Row(table.schema)
    <3>1. parts \in Seq(Seq(R))
      BY DEF Stored
    <3> HIDE DEF R
    <3>2. chunk \in Seq(R) /\ Len(chunk) \in 1..Granularity
      BY <2>2, <3>1, ChunkTyped
    <3>3. QED
      BY <3>2 DEF R
  <2>4. IsSchema(table.schema) /\ IsQuery(table.schema, query)
    BY <2>1, CreatedIs DEF Phases
  <2> HIDE DEF chunk
  <2>5. KeepsOf(table.schema, query, chunk, KeptIn(table.schema, query, chunk),
                Filtered(chunk, Meant(table.schema, query)))
    BY <2>3, <2>4, ChunkKept
  <2>6. Len(KeptOfBuffer) \in Nat /\ Len(KeptOfBuffer) <= Len(chunk)
    BY <2>5, KeptIs DEF KeepsOf, chunk
  <2>7. linesRead' \in 0..Granularity
    BY <2>1, <2>3, <2>6, GranularityAssumption
  <2>8. QED
    BY <2>1, <2>2, <2>7 DEF Counters
<1>5. CASE ~(CreateTable \/ Insert \/ ReadChunk)
  <2>1. parts' = parts
    BY <1>5, TableMoves DEF tableVars
  <2>2. read' = read /\ linesRead' = linesRead
    BY <1>5 DEF Next, vars, selectVars, CreateTableRefused, InsertRefused, InsertPanics, Select,
                SelectRefused, SelectPanics, ReadPanics, AggregateFails, Finalize, OrderOnce, OrderFails, Answer
  <2>3. QED
    BY <2>1, <2>2 DEF Counters
<1>6. QED
  BY <1>3, <1>4, <1>5

LEMMA PanickedKept ==
    ASSUME Phases, InsertPanicked, [Next]_vars
    PROVE  InsertPanicked'
<1>1. CASE InsertPanics
  <2>1. pc = "ready" /\ table' = table
    BY <1>1 DEF InsertPanics, tableVars
  <2>2. Created
    BY <2>1 DEF Phases
  <2>3. \E name \in ToSet(table.order_by) : MayBeNull(name)
    BY <1>1, <2>2, InsertPanicsOnNull
  <2>4. QED
    BY <2>1, <2>3 DEF InsertPanicked, MayBeNull
<1>2. CASE CreateTable
  <2>1. outcome' = "ok"
    BY <1>2 DEF CreateTable, Phases
  <2>2. QED
    BY <2>1 DEF InsertPanicked
<1>3. CASE UNCHANGED vars
  <2>1. pc' = pc /\ outcome' = outcome /\ table' = table
    BY <1>3 DEF vars, tableVars
  <2>2. QED
    BY <2>1 DEF InsertPanicked, MayBeNull
<1>4. CASE Next /\ ~CreateTable /\ ~InsertPanics
  <2>1. pc' # "ready" \/ outcome' # "panic"
    BY <1>4 DEF Next, CreateTableRefused, Insert, InsertRefused, Select, SelectRefused, SelectPanics,
                ReadChunk, ReadPanics, AggregateFails, Finalize, OrderOnce, OrderFails,
                Answer, Reading, Ordering
  <2>2. QED
    BY <2>1 DEF InsertPanicked
<1>5. QED
  BY <1>1, <1>2, <1>3, <1>4

(* From CREATE TABLE on, the stored parts are what the engine makes of the *)
(* rows given, the counters stay within their chunks, and the planned      *)
(* query is one that its table allows.                                     *)
THEOREM StoreIsInvariant == Spec => []StoreInv
<1>1. Init => StoreInv
  BY StoreBegins
<1>2. StoreInv /\ [Next]_vars => StoreInv'
  <2> SUFFICES ASSUME StoreInv, [Next]_vars PROVE StoreInv'
    OBVIOUS
  <2>1. Stored /\ Phases /\ Counters /\ InsertPanicked
    BY DEF StoreInv
  <2>2. Stored' /\ Phases' /\ Counters' /\ InsertPanicked'
    BY <2>1, StoredKept, PhasesKept, CountersKept, PanickedKept
  <2>3. QED
    BY <2>2 DEF StoreInv
<1>3. QED
  BY <1>1, <1>2, PTL DEF Spec

(* Every stored value has its column's type, or is a Null its column       *)
(* allows, and a scan stays within the chunks.                             *)
THEOREM TypeCorrect == Spec => []TypeOK
<1>1. StoreInv => TypeOK
  <2> SUFFICES ASSUME StoreInv PROVE TypeOK
    OBVIOUS
  <2>1. Stored /\ Phases /\ Counters
    BY DEF StoreInv
  <2>2. ASSUME NEW p \in DOMAIN parts, NEW r \in DOMAIN parts[p], NEW i \in DOMAIN table.schema
        PROVE  LET c == table.schema[i]  v == parts[p][r][c.name]
               IN  v.type = c.type \/ (v = Null /\ (c.nullable \/ c.default = {Null}))
    <3> DEFINE R == Row(table.schema)
               SEQ == Seq(R)
    <3>1. parts \in Seq(SEQ)
      BY <2>1 DEF Stored
    <3>2. parts[p] \in SEQ
      <4> HIDE DEF SEQ
      <4>1. QED
        BY <3>1
    <3>3. parts[p][r] \in R
      <4> HIDE DEF R
      <4>1. QED
        BY <3>2
    <3>4. p \in 1..Len(parts)
      <4> HIDE DEF SEQ
      <4>1. QED
        BY <3>1
    <3>5. Created
      <4> HIDE DEF SEQ
      <4>1. parts # <<>>
        BY <3>1, <3>4
      <4>2. QED
        BY <2>1, <4>1 DEF Phases
    <3>6. DOMAIN table.schema = 1..Len(table.schema)
      BY <3>5, CreatedIs, SchemaNames
    <3>7. Fits(table.schema[i], parts[p][r][table.schema[i].name])
      BY <3>3, <3>6 DEF Row
    <3>8. QED
      BY <3>7 DEF Fits
  <2>3. QED
    BY <2>1, <2>2, ChunksAre DEF TypeOK, Stored, Phases, Counters
<1>2. QED
  BY <1>1, StoreIsInvariant, PTL

(* A part of a MergeTree holds the rows of its INSERT, whole and each      *)
(* once, in the order of the table.                                        *)
THEOREM PartsKeepRows == Spec => []RowsStayWhole
<1>1. StoreInv => RowsStayWhole
  <2> SUFFICES ASSUME StoreInv, table.engine = "MergeTree", NEW p \in DOMAIN parts
               PROVE  HoldsAll(table, batches[p], parts[p])
    BY DEF RowsStayWhole, HoldsAll
  <2> DEFINE SEQ == Seq(Row(table.schema))
  <2>1. parts \in Seq(SEQ) /\ \A k \in 1..Len(parts) : IsPart(table, batches[k], parts[k])
    BY DEF StoreInv, Stored
  <2> HIDE DEF SEQ
  <2>2. p \in 1..Len(parts)
    BY <2>1
  <2>3. QED
    BY <2>1, <2>2 DEF IsPart
<1>2. QED
  BY <1>1, StoreIsInvariant, PTL

(* A part of a ReplacingMergeTree holds exactly the last row of every      *)
(* primary key of its INSERT, for every pair of keys CREATE TABLE accepts. *)
THEOREM PartsKeepLast == Spec => []LastOfEachKey
<1>1. StoreInv => LastOfEachKey
  <2> SUFFICES ASSUME StoreInv, table.engine = "ReplacingMergeTree", NEW p \in DOMAIN parts
               PROVE  HoldsLast(table, batches[p], parts[p])
    BY DEF LastOfEachKey, HoldsLast
  <2> DEFINE SEQ == Seq(Row(table.schema))
  <2>1. parts \in Seq(SEQ) /\ \A k \in 1..Len(parts) : IsPart(table, batches[k], parts[k])
    BY DEF StoreInv, Stored
  <2> HIDE DEF SEQ
  <2>2. p \in 1..Len(parts)
    BY <2>1
  <2>3. QED
    BY <2>1, <2>2 DEF IsPart
<1>2. QED
  BY <1>1, StoreIsInvariant, PTL

-----------------------------------------------------------------------------
(* From the rows kept to the answer *)

(* The rows WHERE has kept of the chunks read so far.                      *)
KeptUpTo(ps, n, keep) == Filtered(FlattenSeq(Piece(ChunksOf(ps), 1, n)), keep)
Kept == KeptUpTo(parts, read, Meant(table.schema, query))

ColumnsAre(vs, q, rows) ==
    /\ DOMAIN vs = 1..Len(q.columns)
    /\ \A c \in 1..Len(q.columns) :
          vs[c] = [i \in 1..Len(rows) |-> rows[i][q.columns[c].name]]

(* What is collected while the scan goes on.                               *)
Collected ==
    pc = "scan" /\ Aligned(table.schema, query) =>
        /\ ~Aggregating(query) => ColumnsAre(values, query, Kept)
        /\ Aggregating(query) => GroupsAre(groups, query, Kept)
        /\ linesRead <= Len(Kept)

(* Where the scan stops, it has kept every row or all that can be shown.   *)
Suffice(q, rows, all) ==
    \/ rows = all
    \/ /\ ~Aggregating(q) /\ q.order_by = <<>> /\ q.limit # NoLimit
       /\ Len(rows) >= q.limit + q.offset /\ Len(rows) <= Len(all)
       /\ \A i \in 1..Len(rows) : all[i] = rows[i]
Finished == pc = "order" /\ Counted => Suffice(query, Kept, KeptRows)

(* The headers of the answer: first the columns, then the aggregates.      *)
Leading(q) == IF Aggregating(q) THEN q.group_by ELSE q.columns
Headed ==
    pc = "order" \/ Answered =>
        LET W == Len(ToRead(query))
            L == Leading(query)
        IN  /\ DOMAIN output = 1..W
            /\ \A c \in 1..W : output[c] = Named(output[c].alias, output[c].fn,
                                                output[c].name, output[c].data)
            /\ \A c \in 1..Len(L) : /\ output[c].alias = "" /\ output[c].fn = ""
                                    /\ output[c].name = L[c].name
            /\ Aggregating(query) => \A a \in 1..Len(query.aggregates) :
                  /\ output[Len(L) + a].name = query.aggregates[a].name
                  /\ DOMAIN groups # {} =>
                        output[Len(L) + a].fn = query.aggregates[a].fn

(* The rows of the answer: those of the rows kept, in some order, or one   *)
(* for every group.                                                        *)
RowsAre(q, rows, R) ==
    IF Aggregating(q) THEN R \in Arrangements(GroupRows(q, rows))
    ELSE \E p \in Orders(Len(rows)) : R = [i \in 1..Len(rows) |-> PlainRows(q, rows)[p[i]]]
Shows(out, W, R) ==
    /\ R \in Seq(Seq(Literal))
    /\ \A i \in 1..Len(R) : Len(R[i]) = W
    /\ \A c \in 1..W : out[c].data = [i \in 1..Len(R) |-> R[i][c]]
OutputIs(R) ==
    /\ Shows(output, Len(ToRead(query)), R)
    /\ RowsAre(query, Kept, R)
    /\ DOMAIN groups = {} /\ Aggregating(query) => R = <<>>
    /\ ordered = 0 /\ ~Aggregating(query) => R = PlainRows(query, Kept)
    /\ ordered # 0 => /\ query.order_by[ordered] # <<>>
                      /\ SortedBy(query, query.order_by[ordered], R)
Shown ==
    /\ pc = "scan" => ordered = 0
    /\ pc = "order" => /\ ordered \in 0..Len(query.order_by)
                       /\ Aligned(table.schema, query) => \E R : OutputIs(R)

(* Of the ORDER BY lists the last one counts.                              *)
LastList(q) == IF q.order_by = <<>> THEN <<>> ELSE Last(q.order_by)
AnswerBy == Answered /\ Counted => IsAnswerBy(LastList(query))

OrderPanicked ==
    pc = "done" /\ outcome = "panic" =>
        \/ ~StrategyFits(query)
        \/ ~FilterAligned
        \/ \E p \in ToSet(query.order_by[ordered + 1]) : MayBeNull(p.name)

IsList(f, n) == DOMAIN f = 1..n /\ f = [i \in 1..n |-> f[i]]

LEMMA JoinShape ==
    ASSUME NEW n \in Nat, NEW m \in Nat, NEW f, NEW h, IsList(f, n), IsList(h, m)
    PROVE  /\ DOMAIN Cat(f, h) = 1..(n + m) /\ Len(Cat(f, h)) = n + m
           /\ \A i \in 1..n : Cat(f, h)[i] = f[i]
           /\ \A i \in 1..m : Cat(f, h)[n + i] = h[i]
<1> DEFINE S == {f[i] : i \in 1..n} \cup {h[i] : i \in 1..m}
<1>1. (\A i \in 1..n : f[i] \in S) /\ (\A i \in 1..m : h[i] \in S)
  OBVIOUS
<1> HIDE DEF S
<1>2. f \in Seq(S) /\ Len(f) = n
  BY <1>1, IsSeqOf DEF IsList
<1>3. h \in Seq(S) /\ Len(h) = m
  BY <1>1, IsSeqOf DEF IsList
<1>4. /\ Cat(f, h) \in Seq(S) /\ Len(Cat(f, h)) = Len(f) + Len(h)
      /\ \A i \in 1..Len(f) : Cat(f, h)[i] = f[i]
      /\ \A i \in 1..Len(h) : Cat(f, h)[Len(f) + i] = h[i]
  <2>0. f \in Seq(S) /\ h \in Seq(S)
    BY <1>2, <1>3
  <2>1. Cat(f, h) \in Seq(S)
    BY <2>0, CatType
  <2>2. Len(Cat(f, h)) = Len(f) + Len(h)
    BY <2>0, CatType
  <2>3. \A i \in 1..Len(f) : Cat(f, h)[i] = f[i]
    BY <2>0, CatType
  <2>4. \A i \in 1..Len(h) : Cat(f, h)[Len(f) + i] = h[i]
    BY <2>0, CatType
  <2>5. QED
    BY <2>1, <2>2, <2>3, <2>4
<1>5. DOMAIN Cat(f, h) = 1..Len(Cat(f, h))
  BY <1>4
<1>6. QED
  BY <1>2, <1>3, <1>4, <1>5

LEMMA QueryShape ==
    ASSUME NEW schema, NEW q, IsQuery(schema, q)
    PROVE  /\ Len(q.columns) \in Nat /\ DOMAIN q.columns = 1..Len(q.columns)
           /\ Len(q.group_by) \in Nat /\ DOMAIN q.group_by = 1..Len(q.group_by)
           /\ Len(q.aggregates) \in Nat /\ DOMAIN q.aggregates = 1..Len(q.aggregates)
           /\ Len(Leading(q)) \in Nat /\ DOMAIN Leading(q) = 1..Len(Leading(q))
           /\ \A c \in 1..Len(Leading(q)) : Leading(q)[c].name \in Names(schema)
<1>1. /\ q.columns \in Seq(Proj(schema)) /\ q.group_by \in Seq(Proj(schema))
      /\ q.aggregates \in Seq(ItemSet)
  BY DEF IsQuery
<1>2. Len(q.columns) \in Nat /\ DOMAIN q.columns = 1..Len(q.columns)
      /\ \A i \in 1..Len(q.columns) : q.columns[i].name \in Names(schema)
  BY <1>1, ProjectionsShape
<1>3. Len(q.group_by) \in Nat /\ DOMAIN q.group_by = 1..Len(q.group_by)
      /\ \A i \in 1..Len(q.group_by) : q.group_by[i].name \in Names(schema)
  BY <1>1, ProjectionsShape
<1>4. Len(q.aggregates) \in Nat /\ DOMAIN q.aggregates = 1..Len(q.aggregates)
  BY <1>1, AggregatesShape
<1>5. QED
  BY <1>2, <1>3, <1>4 DEF Leading

LEMMA PlainIs ==
    ASSUME NEW schema, IsQuery(schema, query), ~Aggregating(query)
    PROVE  /\ DOMAIN PlainOutput = 1..Len(query.columns)
           /\ Len(ToRead(query)) = Len(query.columns)
           /\ \A c \in 1..Len(query.columns) :
                 PlainOutput[c] = Named("", "", query.columns[c].name, values[c])
<1>1. DOMAIN query.columns = 1..Len(query.columns)
  BY QueryShape
<1>2. Len(ToRead(query)) = Len(query.columns)
  BY ToReadShape DEF Reads
<1>3. QED
  BY <1>1, <1>2 DEF PlainOutput

LEMMA GroupedIs ==
    ASSUME NEW schema, IsQuery(schema, query), Aggregating(query), NEW arrangement
    PROVE  LET g == Len(query.group_by)
               n == Len(query.aggregates)
               o == GroupedOutput(arrangement)
           IN  /\ DOMAIN o = 1..(g + n) /\ Len(ToRead(query)) = g + n
               /\ \A c \in 1..g :
                     o[c] = Named("", "", query.group_by[c].name,
                                  [x \in DOMAIN arrangement |-> arrangement[x][c]])
               /\ \A a \in 1..n :
                     o[g + a] = Named(query.aggregates[a].alias,
                                      IF DOMAIN groups = {} THEN "" ELSE query.aggregates[a].fn,
                                      query.aggregates[a].name,
                                      [x \in DOMAIN arrangement |->
                                          Final(query.aggregates[a].fn, groups[arrangement[x]][a])])
<1> DEFINE G == query.group_by
           A == query.aggregates
           g == Len(G)
           n == Len(A)
           f == [c \in 1..g |-> Named("", "", G[c].name, [x \in DOMAIN arrangement |-> arrangement[x][c]])]
           h == [a \in 1..n |->
                   Named(A[a].alias, IF DOMAIN groups = {} THEN "" ELSE A[a].fn, A[a].name,
                         [x \in DOMAIN arrangement |-> Final(A[a].fn, groups[arrangement[x]][a])])]
<1>1. g \in Nat /\ DOMAIN G = 1..g /\ n \in Nat /\ DOMAIN A = 1..n
  BY QueryShape
<1>2. Len(ToRead(query)) = g + n
  BY ToReadShape DEF Reads
<1>3. GroupedOutput(arrangement) = Cat(f, h)
  BY <1>1 DEF GroupedOutput, Cat
<1>4. IsList(f, g) /\ IsList(h, n)
  BY DEF IsList
<1>5. /\ \A c \in 1..g : f[c] = Named("", "", G[c].name, [x \in DOMAIN arrangement |-> arrangement[x][c]])
      /\ \A a \in 1..n : h[a] =
            Named(A[a].alias, IF DOMAIN groups = {} THEN "" ELSE A[a].fn, A[a].name,
                  [x \in DOMAIN arrangement |-> Final(A[a].fn, groups[arrangement[x]][a])])
  OBVIOUS
<1> HIDE DEF f, h, g, n
<1>6. /\ DOMAIN Cat(f, h) = 1..(g + n)
      /\ \A i \in 1..g : Cat(f, h)[i] = f[i]
      /\ \A i \in 1..n : Cat(f, h)[g + i] = h[i]
  <2>1. DOMAIN Cat(f, h) = 1..(g + n)
    BY <1>1, <1>4, JoinShape
  <2>2. \A i \in 1..g : Cat(f, h)[i] = f[i]
    BY <1>1, <1>4, JoinShape
  <2>3. \A i \in 1..n : Cat(f, h)[g + i] = h[i]
    BY <1>1, <1>4, JoinShape
  <2>4. QED
    BY <2>1, <2>2, <2>3
<1>7. QED
  BY <1>2, <1>3, <1>5, <1>6 DEF g, n

(* The data of a column changes, its header does not.                      *)
LEMMA NamedKeeps ==
    ASSUME NEW o, NEW d, o = Named(o.alias, o.fn, o.name, o.data)
    PROVE  [o EXCEPT !.data = d] = Named(o.alias, o.fn, o.name, d)
BY DEF Named

LEMMA NamedFields ==
    ASSUME NEW a, NEW f, NEW n, NEW d
    PROVE  /\ Named(a, f, n, d).alias = a /\ Named(a, f, n, d).fn = f
           /\ Named(a, f, n, d).name = n /\ Named(a, f, n, d).data = d
BY DEF Named

LEMMA NamedIs ==
    ASSUME NEW o, NEW a, NEW f, NEW n, NEW d, o = Named(a, f, n, d)
    PROVE  o.alias = a /\ o.fn = f /\ o.name = n /\ o.data = d
           /\ o = Named(o.alias, o.fn, o.name, o.data)
BY DEF Named

LEMMA HeadedKept ==
    ASSUME Phases, Headed, [Next]_vars
    PROVE  Headed'
<1>1. CASE Finalize
  <2>1. pc = "scan" /\ query' = query /\ groups' = groups
        /\ IF Aggregating(query)
           THEN \E arrangement \in Arrangements(DOMAIN groups) :
                   output' = GroupedOutput(arrangement)
           ELSE output' = PlainOutput
    BY <1>1 DEF Finalize
  <2>2. IsQuery(table.schema, query)
    BY <2>1 DEF Phases
  <2>3. CASE Aggregating(query)
    <3>1. PICK arrangement : output' = GroupedOutput(arrangement)
      BY <2>1, <2>3
    <3> DEFINE g == Len(query.group_by)
               n == Len(query.aggregates)
               W == Len(ToRead(query))
    <3>2. /\ DOMAIN output' = 1..(g + n) /\ W = g + n
          /\ \A c \in 1..g : \E d : output'[c] = Named("", "", query.group_by[c].name, d)
          /\ \A a \in 1..n : \E d : output'[g + a] =
                Named(query.aggregates[a].alias,
                      IF DOMAIN groups = {} THEN "" ELSE query.aggregates[a].fn,
                      query.aggregates[a].name, d)
      BY <2>2, <2>3, <3>1, GroupedIs, ZenonT(40)
    <3>3. g \in Nat /\ n \in Nat
      BY <2>2, QueryShape
    <3>4. Leading(query) = query.group_by
      BY <2>3 DEF Leading
    <3> DEFINE Ld == Leading(query)
    <3>5. Len(Ld) = g
      BY <3>4
    <3>a. /\ \A c \in 1..g : \E d : output'[c] = Named("", "", query.group_by[c].name, d)
          /\ \A a \in 1..n : \E d, fn : /\ output'[g + a] =
                                               Named(query.aggregates[a].alias, fn,
                                                     query.aggregates[a].name, d)
                                        /\ DOMAIN groups # {} => fn = query.aggregates[a].fn
      BY <3>2
    <3> HIDE DEF g, n, W, Ld
    <3>6. /\ \A c \in 1..g : /\ output'[c].alias = "" /\ output'[c].fn = ""
                             /\ output'[c].name = query.group_by[c].name
          /\ \A a \in 1..n : /\ output'[g + a].name = query.aggregates[a].name
                             /\ DOMAIN groups # {} =>
                                   output'[g + a].fn = query.aggregates[a].fn
      <4>1. ASSUME NEW c \in 1..g
            PROVE  /\ output'[c].alias = "" /\ output'[c].fn = ""
                   /\ output'[c].name = query.group_by[c].name
        <5>1. PICK d : output'[c] = Named("", "", query.group_by[c].name, d)
          BY <3>a
        <5> DEFINE o == output'[c]
                   name == query.group_by[c].name
                   none == ""
        <5>2. o = Named(none, none, name, d)
          BY <5>1
        <5> HIDE DEF o, name, none
        <5>3. o.alias = none /\ o.fn = none /\ o.name = name
          BY <5>2, NamedIs
        <5>4. QED
          BY <5>3 DEF o, name, none
      <4>2. ASSUME NEW a \in 1..n
            PROVE  /\ output'[g + a].name = query.aggregates[a].name
                   /\ DOMAIN groups # {} => output'[g + a].fn = query.aggregates[a].fn
        <5>1. PICK d, fn : /\ output'[g + a] = Named(query.aggregates[a].alias, fn,
                                                    query.aggregates[a].name, d)
                           /\ DOMAIN groups # {} => fn = query.aggregates[a].fn
          BY <3>a
        <5> DEFINE o == output'[g + a]
        <5>2. o.name = query.aggregates[a].name /\ o.fn = fn
          BY <5>1 DEF Named
        <5>3. QED
          BY <5>1, <5>2
      <4>3. QED
        BY <4>1, <4>2
    <3>7. \A c \in 1..(g + n) : \E u, v, x, y : output'[c] = Named(u, v, x, y)
      <4>1. TAKE c \in 1..(g + n)
      <4>2. CASE c \in 1..g
        BY <3>a, <4>2
      <4>3. CASE c \notin 1..g
        <5>1. c - g \in 1..n /\ g + (c - g) = c
          BY <3>3, <4>3
        <5> DEFINE a == c - g
        <5>2. a \in 1..n
          BY <5>1
        <5>3. \E u, v, x, y : output'[g + a] = Named(u, v, x, y)
          <6>1. \E d, fn : output'[g + a] = Named(query.aggregates[a].alias, fn,
                                                   query.aggregates[a].name, d)
            <7> HIDE DEF a
            <7>1. QED
              BY <3>a, <5>2
          <6>2. QED
            BY <6>1
        <5>4. QED
          BY <5>1, <5>3
      <4>4. QED
        BY <4>2, <4>3
    <3>8. \A c \in 1..(g + n) :
             output'[c] = Named(output'[c].alias, output'[c].fn, output'[c].name, output'[c].data)
      <4> TAKE c \in 1..(g + n)
      <4>1. PICK u, v, x, y : output'[c] = Named(u, v, x, y)
        BY <3>7
      <4>2. QED
        BY <4>1 DEF Named
    <3>9. QED
      BY <2>1, <3>2, <3>4, <3>5, <3>6, <3>8, ZenonT(40) DEF Headed, Ld, W, n
  <2>4. CASE ~Aggregating(query)
    <3> DEFINE n == Len(query.columns)
               W == Len(ToRead(query))
    <3>1. /\ DOMAIN output' = 1..n /\ W = n
          /\ \A c \in 1..n : output'[c] = Named("", "", query.columns[c].name, values[c])
      BY <2>1, <2>2, <2>4, PlainIs
    <3> HIDE DEF n
    <3>2. \A c \in 1..n : /\ output'[c].alias = "" /\ output'[c].fn = ""
                          /\ output'[c].name = query.columns[c].name
                          /\ output'[c] = Named(output'[c].alias, output'[c].fn,
                                                output'[c].name, output'[c].data)
      <4> TAKE c \in 1..n
      <4>1. output'[c] = Named("", "", query.columns[c].name, values[c])
        BY <3>1
      <4> DEFINE o == output'[c]
                 name == query.columns[c].name
                 d == values[c]
                 none == ""
      <4>2. o = Named(none, none, name, d)
        BY <4>1
      <4> HIDE DEF o, name, d, none
      <4>3. o.alias = none /\ o.fn = none /\ o.name = name
            /\ o = Named(o.alias, o.fn, o.name, o.data)
        BY <4>2, NamedIs
      <4>4. QED
        BY <4>3 DEF o, name, none
    <3>3. Leading(query) = query.columns
      BY <2>4 DEF Leading
    <3>4. Len(Leading(query)) = n
      BY <3>3 DEF n
    <3> HIDE DEF W
    <3>5. QED
      BY <2>1, <2>4, <3>1, <3>2, <3>3, <3>4 DEF Headed, W
  <2>5. QED
    BY <2>3, <2>4
<1>2. CASE OrderOnce \/ Answer
  <2>1. pc = "order" /\ query' = query /\ groups' = groups
    BY <1>2 DEF OrderOnce, Ordering, Answer
  <2>2. \E data : output' = [c \in DOMAIN output |-> [output[c] EXCEPT !.data = data[c]]]
    <3>1. CASE OrderOnce
      BY <3>1 DEF OrderOnce
    <3>2. CASE Answer
      <4> DEFINE data == [c \in DOMAIN output |-> Window(query, output[c].data)]
      <4>1. output' = [c \in DOMAIN output |-> [output[c] EXCEPT !.data = data[c]]]
        BY <3>2 DEF Answer
      <4> HIDE DEF data
      <4>2. QED
        BY <4>1
    <3>3. QED
      BY <1>2, <3>1, <3>2
  <2>3. PICK data : output' = [c \in DOMAIN output |-> [output[c] EXCEPT !.data = data[c]]]
    BY <2>2
  <2> DEFINE W == Len(ToRead(query))
             Ld == Leading(query)
  <2>4. /\ DOMAIN output = 1..W
        /\ \A c \in 1..W : output[c] = Named(output[c].alias, output[c].fn,
                                             output[c].name, output[c].data)
    BY <2>1 DEF Headed
  <2>5. DOMAIN output' = 1..W
        /\ \A c \in 1..W : output'[c] = Named(output[c].alias, output[c].fn, output[c].name, data[c])
    BY <2>3, <2>4, NamedKeeps
  <2>6. \A c \in 1..W : /\ output'[c].alias = output[c].alias /\ output'[c].fn = output[c].fn
                        /\ output'[c].name = output[c].name
                        /\ output'[c] = Named(output'[c].alias, output'[c].fn,
                                              output'[c].name, output'[c].data)
    BY <2>5, NamedFields
  <2>7. /\ Len(Ld) \in Nat /\ Len(query.aggregates) \in Nat
        /\ W = IF Aggregating(query) THEN Len(Ld) + Len(query.aggregates) ELSE Len(Ld)
    <3>1. IsQuery(table.schema, query)
      BY <2>1 DEF Phases
    <3>2. QED
      BY <3>1, QueryShape, ToReadShape DEF Reads, Leading
  <2> DEFINE n == Len(query.aggregates)
             l == Len(Ld)
  <2> HIDE DEF W, Ld, n, l
  <2>8. /\ \A c \in 1..l : c \in 1..W
        /\ Aggregating(query) => \A a \in 1..n : l + a \in 1..W
    BY <2>7 DEF n, l
  <2>9. /\ \A c \in 1..l : output[c].alias = "" /\ output[c].fn = "" /\ output[c].name = Ld[c].name
        /\ Aggregating(query) => \A a \in 1..n :
              /\ output[l + a].name = query.aggregates[a].name
              /\ DOMAIN groups # {} => output[l + a].fn = query.aggregates[a].fn
    BY <2>1 DEF Headed, Ld, n, l
  <2>10. /\ \A c \in 1..l : output'[c].alias = "" /\ output'[c].fn = "" /\ output'[c].name = Ld[c].name
         /\ Aggregating(query) => \A a \in 1..n :
               /\ output'[l + a].name = query.aggregates[a].name
               /\ DOMAIN groups # {} => output'[l + a].fn = query.aggregates[a].fn
    BY <2>6, <2>8, <2>9
  <2>11. QED
    BY <2>1, <2>5, <2>6, <2>10 DEF Headed, W, Ld, n, l
<1>3. CASE UNCHANGED vars
  <2>1. pc' = pc /\ outcome' = outcome /\ query' = query /\ groups' = groups /\ output' = output
    BY <1>3 DEF vars, selectVars
  <2>2. QED
    BY <2>1 DEF Headed, Answered
<1>4. CASE Next /\ ~Finalize /\ ~OrderOnce /\ ~Answer
  <2>1. pc' # "order" /\ ~Answered'
    BY <1>4 DEF Next, Answered, CreateTable, CreateTableRefused, Insert, InsertRefused,
                InsertPanics, Select, SelectRefused, SelectPanics, ReadChunk, ReadPanics, AggregateFails,
                OrderFails, Reading, Ordering
  <2>2. QED
    BY <2>1 DEF Headed
<1>5. QED
  BY <1>1, <1>2, <1>3, <1>4

(* The rows kept of the first chunks begin those kept of all.              *)
LEMMA ChunksKept ==
    ASSUME NEW R, NEW ps \in Seq(Seq(R)), NEW keep, NEW n \in Nat, n <= Len(ChunksOf(ps))
    PROVE  /\ KeptUpTo(ps, n, keep) \in Seq(R)
           /\ n = 0 => KeptUpTo(ps, n, keep) = <<>>
           /\ n < Len(ChunksOf(ps)) =>
                 KeptUpTo(ps, n + 1, keep) =
                    Cat(KeptUpTo(ps, n, keep), Filtered(ChunksOf(ps)[n + 1], keep))
           /\ n = Len(ChunksOf(ps)) => KeptUpTo(ps, n, keep) = Filtered(FlattenSeq(ps), keep)
           /\ \E more \in Seq(R) :
                 Filtered(FlattenSeq(ps), keep) = Cat(KeptUpTo(ps, n, keep), more)
<1> DEFINE SEQ == Seq(R)
           ch == ChunksOf(ps)
           N == Len(ch)
           front == Piece(ch, 1, n)
           rest == Piece(ch, n + 1, N)
           F == FlattenSeq(front)
<1>1. ch \in Seq(SEQ) /\ N \in Nat /\ FlattenSeq(ch) = FlattenSeq(ps)
  BY ChunksJoin, ChunkTyped
<1>2. n \in Nat /\ n <= N
  OBVIOUS
<1> HIDE DEF ch
<1>3. front \in Seq(SEQ) /\ rest \in Seq(SEQ) /\ Cat(front, rest) = ch
  <2> HIDE DEF SEQ
  <2>1. front \in Seq(SEQ)
    BY <1>1, <1>2, PieceType
  <2>2. rest \in Seq(SEQ)
    BY <1>1, <1>2, PieceType
  <2>3. Cat(front, rest) = Piece(ch, 1, N)
    BY <1>1, <1>2, PieceCat
  <2>4. Piece(ch, 1, N) = ch
    BY <1>1, PieceWhole
  <2>5. QED
    BY <2>1, <2>2, <2>3, <2>4
<1> HIDE DEF rest, F
<1>4. F \in Seq(R) /\ FlattenSeq(rest) \in Seq(R)
  <2> HIDE DEF front
  <2>1. front \in Seq(Seq(R)) /\ rest \in Seq(Seq(R))
    BY <1>3
  <2> HIDE DEF SEQ
  <2>2. FlattenSeq(front) \in Seq(R)
    BY <2>1, FlatType
  <2>3. FlattenSeq(rest) \in Seq(R)
    BY <2>1, FlatType
  <2>4. QED
    BY <2>2, <2>3 DEF F
<1>5. FlattenSeq(ps) = Cat(F, FlattenSeq(rest))
  <2> HIDE DEF front
  <2>1. front \in Seq(Seq(R)) /\ rest \in Seq(Seq(R))
    BY <1>3
  <2> HIDE DEF SEQ
  <2>2. FlattenSeq(Cat(front, rest)) = Cat(FlattenSeq(front), FlattenSeq(rest))
    BY <2>1, FlatCat
  <2>3. QED
    BY <1>1, <1>3, <2>2 DEF F
<1>6. KeptUpTo(ps, n, keep) = Filtered(F, keep)
  BY DEF KeptUpTo, F, ch
<1>7. Filtered(F, keep) \in Seq(R)
  <2> DEFINE f == F
  <2> HIDE DEF f
  <2>1. f \in Seq(R)
    BY <1>4 DEF f
  <2>2. Filtered(f, keep) \in Seq(R)
    BY <2>1, FilteredType
  <2>3. QED
    BY <2>2 DEF f
<1>8. ASSUME n = 0 PROVE Filtered(F, keep) = <<>>
  <2>1. front = <<>>
    BY <1>8 DEF Piece
  <2>2. F = <<>>
    BY <2>1, FlatEmpty DEF F
  <2>3. QED
    BY <2>2, FilteredEmpty
<1>9. ASSUME n < N
      PROVE  KeptUpTo(ps, n + 1, keep) = Cat(Filtered(F, keep), Filtered(ch[n + 1], keep))
  <2> DEFINE chunk == ch[n + 1]
             next == Piece(ch, 1, n + 1)
  <2>1. n + 1 \in 1..N
    BY <1>1, <1>9
  <2>2. chunk \in SEQ
    BY <1>1, <2>1
  <2> HIDE DEF N
  <2>3. next = Cat(front, <<chunk>>)
    <3> HIDE DEF SEQ
    <3>1. Cat(Piece(ch, 1, n), Piece(ch, n + 1, n + 1)) = Piece(ch, 1, n + 1)
      BY <1>1, <1>2, <2>1, PieceCat DEF N
    <3>2. Piece(ch, n + 1, n + 1) = <<ch[n + 1]>>
      BY <1>1, <2>1, PieceOne DEF N
    <3>3. QED
      BY <3>1, <3>2
  <2> HIDE DEF chunk, next
  <2> DEFINE one == <<chunk>>
  <2>4. one \in Seq(SEQ)
    <3> HIDE DEF SEQ
    <3>1. QED
      BY <2>2
  <2>5. FlattenSeq(one) = chunk
    BY <2>2, FlatOne
  <2> HIDE DEF one
  <2>6. FlattenSeq(next) = Cat(F, chunk)
    <3> HIDE DEF front
    <3>1. front \in Seq(Seq(R)) /\ one \in Seq(Seq(R))
      BY <1>3, <2>4
    <3> HIDE DEF SEQ
    <3>2. FlattenSeq(Cat(front, one)) = Cat(FlattenSeq(front), FlattenSeq(one))
      BY <3>1, FlatCat
    <3>3. QED
      BY <2>3, <2>5, <3>2 DEF F, one
  <2>7. Filtered(Cat(F, chunk), keep) = Cat(Filtered(F, keep), Filtered(chunk, keep))
    <3> DEFINE f == F
    <3> HIDE DEF f
    <3>1. f \in Seq(R) /\ chunk \in Seq(R)
      BY <1>4, <2>2 DEF f
    <3>2. Filtered(Cat(f, chunk), keep) = Cat(Filtered(f, keep), Filtered(chunk, keep))
      BY <3>1, FilteredCat
    <3>3. QED
      BY <3>2 DEF f
  <2>8. QED
    BY <2>6, <2>7 DEF KeptUpTo, next, chunk, ch
<1>10. ASSUME n = N PROVE Filtered(F, keep) = Filtered(FlattenSeq(ps), keep)
  <2>1. Piece(ch, 1, N) = ch
    <3> HIDE DEF SEQ
    <3>1. QED
      BY <1>1, PieceWhole
  <2>2. QED
    BY <1>1, <1>10, <2>1 DEF F
<1>11. \E more \in Seq(R) : Filtered(FlattenSeq(ps), keep) = Cat(Filtered(F, keep), more)
  <2> DEFINE f == F
             r == FlattenSeq(rest)
  <2>1. f \in Seq(R) /\ r \in Seq(R) /\ FlattenSeq(ps) = Cat(f, r)
    BY <1>4, <1>5
  <2> HIDE DEF f, r
  <2>2. Filtered(Cat(f, r), keep) = Cat(Filtered(f, keep), Filtered(r, keep))
    BY <2>1, FilteredCat
  <2>3. Filtered(r, keep) \in Seq(R)
    BY <2>1, FilteredType
  <2>4. QED
    BY <2>1, <2>2, <2>3 DEF f
<1>12. QED
  BY <1>6, <1>7, <1>8, <1>9, <1>10, <1>11 DEF ch

(* The reference filter asks of every row what the compiled one does.      *)
LEMMA KeptRowsAre ==
    ASSUME Stored
    PROVE  /\ KeptRows = Filtered(FlattenSeq(parts), Meant(table.schema, query))
           /\ KeptRows \in Seq(Row(table.schema))
           /\ FlattenSeq(parts) \in Seq(Row(table.schema))
           /\ Len(KeptRows) <= Total /\ Total \in Nat
<1> DEFINE R == Row(table.schema)
           all == AllRows
           meant == Meant(table.schema, query)
           held == {row \in ToSet(all) : Holds(query.where, row)}
<1>1. all \in Seq(R)
  <2> HIDE DEF R
  <2>1. parts \in Seq(Seq(R))
    BY DEF Stored, R
  <2>2. FlattenSeq(parts) \in Seq(R)
    BY <2>1, FlatType
  <2>3. QED
    BY <2>2 DEF AllRows
<1>2. ToSet(all) = Members(all) /\ Members(all) \subseteq R
  <2> HIDE DEF R, all
  <2>1. QED
    BY <1>1, ToSetIsMembers
<1>3. \A x \in Members(all) : x \in held <=> x \in meant
  BY <1>2 DEF Meant
<1> HIDE DEF R, all, meant, held
<1>4. Filtered(all, held) = Filtered(all, meant)
  BY <1>1, <1>3, FilteredSame
<1>5. Filtered(all, meant) \in Seq(R) /\ Len(Filtered(all, meant)) <= Len(all)
  BY <1>1, FilteredType, FilteredBounds
<1>6. Len(all) \in Nat
  BY <1>1
<1>7. KeptRows = Filtered(all, meant)
  BY <1>4 DEF KeptRows, held, all
<1>8. Total = Len(all)
  BY DEF Total, all, AllRows
<1>9. QED
  BY <1>1, <1>5, <1>6, <1>7, <1>8 DEF all, AllRows, meant, R

LEMMA FilterAlignedIs == FilterAligned <=> Aligned(table.schema, query)
BY DEF FilterAligned, Aligned, CompiledWhere

ColumnOf(rows, x) == [i \in 1..Len(rows) |-> rows[i][x]]

(* A column of some rows, after more rows of a chunk.                      *)
LEMMA ColumnGrows ==
    ASSUME NEW R, NEW rows \in Seq(R), NEW new \in Seq(R), NEW x, NEW d, NEW h,
           IsList(d, Len(rows)), IsList(h, Len(new)),
           \A i \in 1..Len(rows) : d[i] = rows[i][x],
           \A i \in 1..Len(new) : h[i] = new[i][x]
    PROVE  d \o h = ColumnOf(Cat(rows, new), x)
<1> DEFINE all == Cat(rows, new)
           both == Cat(d, h)
           m == Len(rows)
           n == Len(new)
<1>0. Len(all) = Len(rows) + Len(new) /\ \A i \in 1..Len(rows) : all[i] = rows[i]
  BY CatType
<1>1. Len(all) = m + n /\ \A i \in 1..m : all[i] = rows[i]
  BY <1>0
<1>2. \A i \in 1..m : all[i] = rows[i]
  BY <1>0
<1>3. \A i \in 1..n : all[m + i] = new[i]
  <2>1. \A i \in 1..Len(new) : all[Len(rows) + i] = new[i]
    BY ConcatProperties DEF Cat
  <2> HIDE DEF all
  <2>2. QED
    BY <2>1
<1> HIDE DEF all
<1>4. m \in Nat /\ n \in Nat /\ IsList(d, m) /\ IsList(h, n)
      /\ (\A i \in 1..m : d[i] = rows[i][x]) /\ \A i \in 1..n : h[i] = new[i][x]
  OBVIOUS
<1> HIDE DEF m, n
<1>5. DOMAIN both = 1..(m + n)
  BY <1>4, JoinShape
<1>6. \A i \in 1..m : both[i] = d[i]
  BY <1>4, JoinShape
<1>7. \A i \in 1..n : both[m + i] = h[i]
  BY <1>4, JoinShape
<1>8. both = [i \in 1..(m + n) |-> both[i]]
  <2> DEFINE S == {d[i] : i \in 1..m} \cup {h[i] : i \in 1..n}
  <2>1. (\A i \in 1..m : d[i] \in S) /\ (\A i \in 1..n : h[i] \in S)
    OBVIOUS
  <2> HIDE DEF S
  <2>2. d \in Seq(S)
    BY <1>4, <2>1, IsSeqOf DEF IsList
  <2>3. h \in Seq(S)
    BY <1>4, <2>1, IsSeqOf DEF IsList
  <2>4. both \in Seq(S)
    BY <2>2, <2>3, CatType
  <2> HIDE DEF both
  <2>5. both = [i \in 1..Len(both) |-> both[i]] /\ DOMAIN both = 1..Len(both)
    BY <2>4
  <2>6. QED
    BY <1>5, <2>5
<1> HIDE DEF both
<1>9. \A i \in 1..(m + n) : both[i] = all[i][x]
  <2> TAKE i \in 1..(m + n)
  <2>1. CASE i \in 1..m
    BY <1>2, <1>4, <1>6, <2>1
  <2>2. CASE i \notin 1..m
    <3> DEFINE j == i - m
    <3>1. j \in 1..n /\ m + j = i
      BY <1>4, <2>2
    <3> HIDE DEF j
    <3>2. both[m + j] = h[j] /\ all[m + j] = new[j] /\ h[j] = new[j][x]
      BY <1>3, <1>4, <1>7, <3>1
    <3>3. QED
      BY <3>1, <3>2
  <2>3. QED
    BY <2>1, <2>2
<1>10. both = [i \in 1..(m + n) |-> all[i][x]]
  BY <1>8, <1>9
<1>11. QED
  BY <1>1, <1>10 DEF both, all, Cat, ColumnOf

(* The columns of some rows, after more rows of a chunk.                   *)
ReadAll(q, k, new) ==
    /\ Len(k) = Len(new) /\ DOMAIN k = 1..Len(new)
    /\ \A i \in 1..Len(new) : ReadsRow(q, k[i], new[i])
ColumnsAfter(vs, k) == [c \in DOMAIN vs |-> vs[c] \o [i \in DOMAIN k |-> k[i][c]]]

LEMMA ColumnsGrow ==
    ASSUME NEW schema, NEW q, IsQuery(schema, q), ~Aggregating(q), NEW R,
           NEW rows \in Seq(R), NEW new \in Seq(R),
           NEW vs, ColumnsAre(vs, q, rows), NEW k, ReadAll(q, k, new)
    PROVE  ColumnsAre(ColumnsAfter(vs, k), q, Cat(rows, new))
<1> DEFINE W == Len(q.columns)
           m == Len(rows)
           n == Len(new)
<1>1. DOMAIN vs = 1..W /\ \A c \in 1..W : vs[c] = [i \in 1..m |-> rows[i][q.columns[c].name]]
  BY DEF ColumnsAre
<1>2. Reads(schema, q, ToRead(q))
  BY ToReadShape
<1>3. Len(ToRead(q)) = W
  BY <1>2 DEF Reads
<1>4. \A c \in 1..W : ToRead(q)[c] = q.columns[c].name
  BY <1>2 DEF Reads
<1>5. DOMAIN k = 1..n /\ \A i \in 1..n : ReadsRow(q, k[i], new[i])
  BY DEF ReadAll
<1>6. m \in Nat /\ n \in Nat
  OBVIOUS
<1> HIDE DEF W
<1>7. ASSUME NEW c \in 1..W
      PROVE  ColumnsAfter(vs, k)[c]
             = [i \in 1..Len(Cat(rows, new)) |-> Cat(rows, new)[i][q.columns[c].name]]
  <2> DEFINE x == q.columns[c].name
             d == vs[c]
             h == [i \in 1..n |-> k[i][c]]
  <2>1. \A i \in 1..n : k[i][c] = new[i][x]
    BY <1>3, <1>4, <1>5 DEF ReadsRow
  <2>2. d = [i \in 1..m |-> rows[i][x]]
    BY <1>1
  <2>3. IsList(d, m) /\ IsList(h, n)
    <3> HIDE DEF x, d, m, n
    <3>1. QED
      BY <2>2 DEF IsList
  <2>4. (\A i \in 1..m : d[i] = rows[i][x]) /\ (\A i \in 1..n : h[i] = new[i][x])
    BY <2>1, <2>2
  <2>5. ColumnsAfter(vs, k)[c] = d \o h
    BY <1>1, <1>5 DEF ColumnsAfter
  <2> HIDE DEF d, h, x
  <2>6. d \o h = ColumnOf(Cat(rows, new), x)
    BY <2>3, <2>4, ColumnGrows
  <2>7. QED
    BY <2>5, <2>6 DEF x, ColumnOf
<1>8. DOMAIN ColumnsAfter(vs, k) = 1..W
  BY <1>1 DEF ColumnsAfter
<1>9. QED
  BY <1>7, <1>8 DEF ColumnsAre, W

LEMMA CollectedBegins ==
    ASSUME Stored, Phases, Select
    PROVE  Collected'
<1>1. /\ pc = "ready" /\ parts' = parts /\ table' = table
      /\ read' = read /\ linesRead' = linesRead
      /\ values' = [c \in DOMAIN query'.columns |-> <<>>]
      /\ groups' = [k \in (IF query'.group_by = <<>> THEN {<<>>} ELSE {}) |-> NewGroup(query')]
  BY DEF Select, tableVars
<1>2. read = 0 /\ linesRead = 0
  BY <1>1 DEF Phases
<1>3. IsQuery(table.schema, query')
  <2>1. Phases' /\ pc' = "scan"
    <3>1. [Next]_vars
      BY DEF Next
    <3>2. QED
      BY <3>1, PhasesKept DEF Select
  <2>2. QED
    BY <1>1, <2>1 DEF Phases
<1> DEFINE ks == KeptUpTo(parts', read', Meant(table'.schema, query'))
<1>4. ks = <<>>
  <2> DEFINE R == Row(table.schema)
             meant == Meant(table'.schema, query')
  <2>1. parts \in Seq(Seq(R))
    BY DEF Stored
  <2> HIDE DEF R, meant
  <2>2. 0 \in Nat /\ 0 <= Len(ChunksOf(parts))
    BY <2>1, ChunkTyped
  <2>3. KeptUpTo(parts, 0, meant) = <<>>
    BY <2>1, <2>2, ChunksKept
  <2>4. QED
    BY <1>1, <1>2, <2>3 DEF meant
<1>5. Kept' = ks
  BY DEF Kept
<1> HIDE DEF ks
<1> DEFINE none == <<>>
<1>6. Len(none) = 0 /\ 1..0 = {}
  OBVIOUS
<1>7. ColumnsAre(values', query', none)
  <2> DEFINE q == query'
  <2>1. DOMAIN q.columns = 1..Len(q.columns)
    BY <1>3, QueryShape
  <2>2. \A c \in DOMAIN q.columns : values'[c] = none
    BY <1>1
  <2>3. \A c \in 1..Len(q.columns) :
           none = [i \in 1..Len(none) |-> none[i][q.columns[c].name]]
    OBVIOUS
  <2>4. DOMAIN values' = 1..Len(q.columns)
    BY <1>1, <2>1
  <2> HIDE DEF none
  <2>5. QED
    BY <2>1, <2>2, <2>3, <2>4 DEF ColumnsAre
<1>8. GroupsAre(groups', query', none)
  BY <1>1, <1>3, GroupsBegin
<1> HIDE DEF none
<1>9. Kept' = none /\ linesRead' = 0 /\ Len(Kept') = 0
  BY <1>1, <1>2, <1>4, <1>5, <1>6 DEF none
<1>10. QED
  BY <1>7, <1>8, <1>9 DEF Collected

(* A chunk adds the rows WHERE keeps of it, and no other.                  *)
LEMMA CollectedGrows ==
    ASSUME Stored, Phases, Counters, Collected, ReadChunk
    PROVE  Collected'
<1> DEFINE schema == table.schema
           R == Row(schema)
           meant == Meant(schema, query)
           chunk == ChunksOf(parts)[read + 1]
           new == Filtered(chunk, meant)
           rows == KeptUpTo(parts, read, meant)
           k == KeptOfBuffer
<1>1. /\ pc = "scan" /\ pc' = pc /\ parts' = parts /\ table' = table /\ query' = query
      /\ read' = read + 1 /\ linesRead' = Len(k) /\ read < Len(Chunks)
      /\ IF Aggregating(query)
         THEN groups' = GroupsOfBuffer /\ values' = values
         ELSE /\ values' = [c \in DOMAIN values |-> values[c] \o [i \in DOMAIN k |-> k[i][c]]]
              /\ groups' = groups
  BY DEF ReadChunk, Reading, tableVars
<1>2. IsSchema(schema) /\ IsQuery(schema, query)
  BY <1>1, CreatedIs DEF Phases
<1> SUFFICES ASSUME Aligned(schema, query)
             PROVE  /\ ~Aggregating(query) => ColumnsAre(values', query, Kept')
                    /\ Aggregating(query) => GroupsAre(groups', query, Kept')
                    /\ linesRead' <= Len(Kept')
  BY <1>1 DEF Collected
<1>3. parts \in Seq(Seq(R))
  BY DEF Stored
<1> DEFINE N == Len(ChunksOf(parts))
<1>4. N \in Nat /\ read \in 0..N /\ read < N /\ read \in Nat /\ read + 1 \in 1..N
  <2>1. N \in Nat
    <3> HIDE DEF R
    <3>1. QED
      BY <1>3, ChunkTyped
  <2>2. read \in 0..N /\ read < N
    BY <1>1, ChunksAre DEF Counters
  <2> HIDE DEF N
  <2>3. QED
    BY <2>1, <2>2
<1>5. chunk \in Seq(R)
  <2> HIDE DEF R
  <2>1. QED
    BY <1>3, <1>4, ChunkTyped
<1> HIDE DEF N
<1>6. KeepsOf(schema, query, chunk, k, new)
  <2>1. k = KeptIn(schema, query, chunk)
    BY KeptIs
  <2> HIDE DEF k, chunk, schema
  <2>2. KeepsOf(schema, query, chunk, KeptIn(schema, query, chunk), Filtered(chunk, Meant(schema, query)))
    BY <1>2, <1>5, ChunkKept
  <2>3. QED
    BY <2>1, <2>2
<1>7. /\ Len(k) \in Nat /\ DOMAIN k = 1..Len(k) /\ new \in Seq(R) /\ Len(k) = Len(new)
      /\ \A i \in 1..Len(k) : ReadsRow(query, k[i], new[i])
  <2> HIDE DEF k, new
  <2>1. QED
    BY <1>6 DEF KeepsOf
<1>8. rows \in Seq(R) /\ KeptUpTo(parts, read + 1, meant) = Cat(rows, new)
  <2> HIDE DEF R, meant
  <2>1. read <= Len(ChunksOf(parts)) /\ read < Len(ChunksOf(parts))
    BY <1>4 DEF N
  <2>2. rows \in Seq(R)
    BY <1>3, <1>4, <2>1, ChunksKept
  <2>3. KeptUpTo(parts, read + 1, meant) = Cat(rows, new)
    BY <1>3, <1>4, <2>1, ChunksKept
  <2>4. QED
    BY <2>2, <2>3
<1>9. Kept = rows /\ Kept' = Cat(rows, new)
  BY <1>1, <1>8 DEF Kept
<1>10. /\ ~Aggregating(query) => ColumnsAre(values, query, rows)
       /\ Aggregating(query) => GroupsAre(groups, query, rows)
  BY <1>1, <1>9 DEF Collected
<1>11. Aggregating(query) => GroupsAre(groups', query, Cat(rows, new))
  <2> SUFFICES ASSUME Aggregating(query) PROVE GroupsAre(groups', query, Cat(rows, new))
    OBVIOUS
  <2>1. groups' = GroupsAfter(groups, query, KeptIn(schema, query, chunk))
    BY <1>1, KeptIs
  <2>2. chunk \in Seq(Row(schema)) /\ rows \in Seq(Row(schema))
    BY <1>5, <1>8
  <2> HIDE DEF chunk, rows, schema
  <2>3. GroupsAre(GroupsAfter(groups, query, KeptIn(schema, query, chunk)), query,
                  Cat(rows, Filtered(chunk, Meant(schema, query))))
    BY <1>2, <1>10, <2>2, ChunkGrouped
  <2>4. QED
    BY <2>1, <2>3
<1>12. ~Aggregating(query) => ColumnsAre(values', query, Cat(rows, new))
  <2> SUFFICES ASSUME ~Aggregating(query) PROVE ColumnsAre(values', query, Cat(rows, new))
    OBVIOUS
  <2>1. values' = [c \in DOMAIN values |-> values[c] \o [i \in DOMAIN k |-> k[i][c]]]
    BY <1>1
  <2>2. values' = ColumnsAfter(values, k)
    BY <2>1 DEF ColumnsAfter
  <2>3. new \in Seq(R) /\ rows \in Seq(R) /\ ColumnsAre(values, query, rows)
    BY <1>7, <1>8, <1>10
  <2> HIDE DEF k, rows, new, R
  <2>4. ReadAll(query, k, new)
    BY <1>7 DEF ReadAll
  <2> HIDE DEF schema
  <2>5. ColumnsAre(ColumnsAfter(values, k), query, Cat(rows, new))
    BY <1>2, <2>3, <2>4, ColumnsGrow
  <2>6. QED
    BY <2>2, <2>5
<1>13. Len(k) <= Len(Cat(rows, new))
  <2> HIDE DEF R, rows, new, k
  <2>1. Len(Cat(rows, new)) = Len(rows) + Len(new)
    BY <1>7, <1>8, CatType
  <2>2. Len(rows) \in Nat
    BY <1>8
  <2>3. QED
    BY <1>7, <2>1, <2>2
<1>14. QED
  BY <1>1, <1>9, <1>11, <1>12, <1>13

LEMMA CollectedKept ==
    ASSUME Stored, Phases, Counters, Collected, [Next]_vars
    PROVE  Collected'
<1>1. CASE Select
  BY <1>1, CollectedBegins
<1>2. CASE ReadChunk
  BY <1>2, CollectedGrows
<1>3. CASE UNCHANGED vars
  <2>1. /\ pc' = pc /\ table' = table /\ query' = query /\ parts' = parts /\ read' = read
        /\ linesRead' = linesRead /\ values' = values /\ groups' = groups
    BY <1>3 DEF vars, tableVars, selectVars
  <2>2. Kept' = Kept
    BY <2>1 DEF Kept
  <2>3. QED
    BY <2>1, <2>2 DEF Collected
<1>4. CASE Next /\ ~Select /\ ~ReadChunk
  <2>1. pc' # "scan"
    BY <1>4 DEF Next, CreateTable, CreateTableRefused, Insert, InsertRefused,
                InsertPanics, SelectRefused, SelectPanics, ReadPanics, AggregateFails, Finalize, OrderOnce,
                OrderFails, Answer, Reading, Ordering
  <2>2. QED
    BY <2>1 DEF Collected
<1>5. QED
  BY <1>1, <1>2, <1>3, <1>4

(* What a query asks for has its column in the answer.                     *)
LEMMA ItemsAnswered ==
    ASSUME Phases, Headed
    PROVE  EveryItemAnswered
<1> SUFFICES ASSUME Answered PROVE
        /\ \A c \in DOMAIN query.columns :
              \E o \in DOMAIN output :
                 output[o].fn = "" /\ output[o].name = query.columns[c].name
        /\ DOMAIN groups # {} => \A a \in DOMAIN query.aggregates :
              \E o \in DOMAIN output : /\ output[o].fn = query.aggregates[a].fn
                                       /\ output[o].name = query.aggregates[a].name
  BY DEF EveryItemAnswered
<1> DEFINE C == query.columns
           G == query.group_by
           A == query.aggregates
           L == Leading(query)
           W == Len(ToRead(query))
<1>1. IsQuery(table.schema, query)
  BY DEF Phases
<1>2. /\ Len(C) \in Nat /\ DOMAIN C = 1..Len(C) /\ Len(G) \in Nat /\ DOMAIN G = 1..Len(G)
      /\ Len(A) \in Nat /\ DOMAIN A = 1..Len(A)
  BY <1>1, QueryShape
<1>3. Reads(table.schema, query, ToRead(query))
  BY <1>1, ToReadShape
<1>4. /\ DOMAIN output = 1..W
      /\ \A c \in 1..Len(L) : output[c].fn = "" /\ output[c].name = L[c].name
      /\ Aggregating(query) => \A a \in 1..Len(A) :
            /\ output[Len(L) + a].name = A[a].name
            /\ DOMAIN groups # {} => output[Len(L) + a].fn = A[a].fn
  BY DEF Headed
<1>5. CASE ~Aggregating(query)
  <2>1. W = Len(C) /\ L = C
    BY <1>3, <1>5 DEF Reads, Leading
  <2>2. A = <<>>
    BY <1>1, <1>5 DEF IsQuery, Aggregating
  <2>3. DOMAIN A = {}
    BY <2>2
  <2> HIDE DEF A, W, L
  <2>4. \A c \in DOMAIN C : c \in DOMAIN output /\ output[c].fn = "" /\ output[c].name = C[c].name
    BY <1>2, <1>4, <2>1
  <2>5. QED
    BY <2>3, <2>4 DEF A
<1>6. CASE Aggregating(query)
  <2>1. L = G /\ W = Len(G) + Len(A)
    BY <1>3, <1>6 DEF Reads, Leading
  <2>2. \A c \in DOMAIN C : \E g \in DOMAIN G : G[g] = C[c]
    <3>1. CASE G = <<>>
      <4>1. C = <<>>
        BY <1>1, <1>6, <3>1 DEF Aggregating, IsQuery
      <4>2. DOMAIN C = {}
        BY <4>1
      <4>3. QED
        BY <4>2
    <3>2. CASE G # <<>>
      <4>1. ToSet(C) \subseteq ToSet(G)
        BY <1>1, <3>2 DEF IsQuery
      <4> HIDE DEF C, G
      <4>2. QED
        BY <4>1 DEF ToSet
    <3>3. QED
      BY <3>1, <3>2
  <2> HIDE DEF C, G, A, W, L
  <2> DEFINE g == Len(G)
             n == Len(A)
  <2>3. g \in Nat /\ n \in Nat /\ DOMAIN G = 1..g /\ DOMAIN A = 1..n /\ Len(L) = g /\ W = g + n
    BY <1>2, <2>1
  <2>4. /\ \A c \in 1..g : output[c].fn = "" /\ output[c].name = G[c].name
        /\ \A a \in 1..n : /\ output[g + a].name = A[a].name
                           /\ DOMAIN groups # {} => output[g + a].fn = A[a].fn
    BY <1>4, <1>6, <2>1
  <2> HIDE DEF g, n
  <2>5. (\A c \in 1..g : c \in 1..W) /\ \A a \in 1..n : g + a \in 1..W
    BY <2>3
  <2>6. \A c \in DOMAIN C : \E o \in DOMAIN output :
           output[o].fn = "" /\ output[o].name = C[c].name
    <3> TAKE c \in DOMAIN C
    <3>1. PICK x \in DOMAIN G : G[x] = C[c]
      BY <2>2
    <3>2. x \in 1..g /\ x \in DOMAIN output
      BY <1>4, <2>3, <2>5, <3>1
    <3>3. output[x].fn = "" /\ output[x].name = C[c].name
      BY <2>4, <3>1, <3>2
    <3>4. QED
      BY <3>2, <3>3
  <2>7. DOMAIN groups # {} => \A a \in DOMAIN A : \E o \in DOMAIN output :
           output[o].fn = A[a].fn /\ output[o].name = A[a].name
    BY <1>4, <2>3, <2>4, <2>5
  <2>8. QED
    BY <2>6, <2>7 DEF C, A
<1>7. QED
  BY <1>5, <1>6

(* Of the columns and aggregates a SELECT asks for none is missing from    *)
(* the answer: the planner's rules for GROUP BY keep every statement out   *)
(* whose items the aggregator would drop.  (apply_group_by in              *)
(* logical_plan/select.rs, Aggregator::finalize)                           *)
THEOREM NothingIsDropped == Spec => []EveryItemAnswered
<1>1. Init => Headed
  <2>1. Init => ~(pc = "order" \/ Answered)
    BY DEF Init, Answered
  <2>2. QED
    BY <2>1 DEF Headed
<1>2. StoreInv /\ Headed /\ [Next]_vars => Headed'
  BY HeadedKept DEF StoreInv
<1>3. StoreInv /\ Headed => EveryItemAnswered
  BY ItemsAnswered DEF StoreInv
<1>4. QED
  BY <1>1, <1>2, <1>3, StoreIsInvariant, PTL DEF Spec

(* Where a scan stops, it has kept every row, or the first ones, as many   *)
(* as LIMIT and OFFSET can ask for.                                        *)
LEMMA ScanSuffices ==
    ASSUME Stored, Phases, Counters, Collected, pc = "scan", ~Reading, Counted
    PROVE  Suffice(query, Kept, KeptRows)
<1> DEFINE R == Row(table.schema)
           meant == Meant(table.schema, query)
           N == Len(ChunksOf(parts))
           ks == Kept
           all == KeptRows
<1>1. IsQuery(table.schema, query) /\ Aligned(table.schema, query)
  BY FilterAlignedIs DEF Phases, Counted
<1>2. parts \in Seq(Seq(R))
  BY DEF Stored
<1>3. N \in Nat /\ read \in Nat /\ read <= N
  <2>1. N \in Nat
    <3> HIDE DEF R
    <3>1. QED
      BY <1>2, ChunkTyped
  <2>2. read \in 0..N
    BY DEF Counters
  <2> HIDE DEF N
  <2>3. QED
    BY <2>1, <2>2
<1>4. all = Filtered(FlattenSeq(parts), meant) /\ all \in Seq(R)
      /\ Len(all) <= Total /\ Total \in Nat
  BY KeptRowsAre
<1>5. /\ ks \in Seq(R) /\ (read = N => ks = all)
      /\ \E more \in Seq(R) : all = Cat(ks, more)
  <2>1. ks = KeptUpTo(parts, read, meant)
    BY DEF Kept
  <2> HIDE DEF R, meant, ks, all
  <2>2. read \in Nat /\ read <= Len(ChunksOf(parts))
    BY <1>3
  <2>3. KeptUpTo(parts, read, meant) \in Seq(R)
    BY <1>2, <2>2, ChunksKept
  <2>4. read = N => KeptUpTo(parts, read, meant) = Filtered(FlattenSeq(parts), meant)
    BY <1>2, <2>2, ChunksKept
  <2>5. \E more \in Seq(R) : Filtered(FlattenSeq(parts), meant) = Cat(KeptUpTo(parts, read, meant), more)
    BY <1>2, <2>2, ChunksKept
  <2>6. QED
    BY <1>4, <2>1, <2>3, <2>4, <2>5
<1>6. CASE read = N
  BY <1>5, <1>6 DEF Suffice
<1>7. CASE read # N
  <2>1. read < N
    <3> HIDE DEF N
    <3>1. QED
      BY <1>3, <1>7
  <2>2. ~(LinesToRead > linesRead)
    BY <2>1, ChunksAre DEF Reading
  <2>3. PICK more \in Seq(R) : all = Cat(ks, more)
    BY <1>5
  <2>4. linesRead <= Len(ks) /\ linesRead \in Int
    BY <1>1, GranularityAssumption DEF Collected, Counters
  <2> DEFINE limit == query.limit
             offset == query.offset
             lines == LinesToRead
             n == Len(ks)
             total == Total
  <2>5. limit \in Nat \cup {-1} /\ offset \in Nat
    BY <1>1 DEF IsQuery, NoLimit
  <2>6. n \in Nat /\ Len(more) \in Nat /\ Len(all) = n + Len(more)
    <3> HIDE DEF ks, all, R
    <3>1. Len(Cat(ks, more)) = Len(ks) + Len(more)
      BY <1>5, <2>3, CatType
    <3>2. QED
      BY <1>5, <2>3, <3>1
  <2>7. Len(ks) <= Len(all) /\ \A i \in 1..Len(ks) : all[i] = ks[i]
    <3> HIDE DEF ks, all, R
    <3>1. \A i \in 1..Len(ks) : Cat(ks, more)[i] = ks[i]
      BY <1>5, <2>3, CatType
    <3>2. Len(ks) <= Len(all)
      BY <2>6 DEF n
    <3>3. QED
      BY <2>3, <3>1, <3>2
  <2>8. ASSUME n >= total PROVE ks = all
    <3>1. Len(more) = 0
      <4> HIDE DEF n, all, total
      <4>1. Len(all) <= total /\ total \in Nat
        BY <1>4 DEF all, total
      <4>2. QED
        BY <2>6, <2>8, <4>1
    <3>2. more = <<>>
      BY <3>1
    <3> HIDE DEF ks, all, R
    <3>3. Cat(ks, <<>>) = ks
      BY <1>5, CatEmpty
    <3>4. QED
      BY <2>3, <3>2, <3>3
  <2>9. lines <= n
    <3>1. lines \in Int
      BY <1>4, <2>5 DEF LinesToRead, Least, NoLimit
    <3> HIDE DEF lines, n
    <3>2. ~(lines > linesRead) /\ linesRead <= n
      BY <2>2, <2>4 DEF lines, n
    <3>3. QED
      BY <2>4, <2>6, <3>1, <3>2
  <2>10. CASE query.order_by # <<>> \/ query.group_by # <<>> \/ limit = NoLimit
    <3>1. lines = total
      BY <2>10 DEF LinesToRead
    <3> HIDE DEF lines, n, total, ks, all
    <3>2. ks = all
      BY <2>8, <2>9, <3>1, <1>4, <2>6 DEF total
    <3>3. QED
      BY <3>2 DEF Suffice, ks, all
  <2>11. CASE ~(query.order_by # <<>> \/ query.group_by # <<>> \/ limit = NoLimit)
    <3>1. lines = Least(total, limit) + offset
      BY <2>11 DEF LinesToRead
    <3>2. ~Aggregating(query)
      BY <2>11 DEF Counted
    <3>3. limit \in Nat /\ total \in Nat
      BY <1>4, <2>5, <2>11 DEF NoLimit
    <3> HIDE DEF lines, total, limit, offset
    <3>4. CASE total < limit
      <4> HIDE DEF n
      <4>1. n >= total
        BY <2>5, <2>6, <2>9, <3>1, <3>3, <3>4 DEF Least
      <4>2. QED
        BY <2>8, <4>1 DEF Suffice
    <3>5. CASE ~(total < limit)
      <4> HIDE DEF n
      <4>1. n >= limit + offset
        BY <2>5, <2>6, <2>9, <3>1, <3>3, <3>5 DEF Least
      <4>2. QED
        BY <2>11, <2>7, <3>2, <4>1 DEF Suffice, n, limit, offset
    <3>6. QED
      BY <3>4, <3>5
  <2>12. QED
    BY <2>10, <2>11
<1>8. QED
  BY <1>6, <1>7

LEMMA FinishedKept ==
    ASSUME Stored, Phases, Counters, Collected, Finished, [Next]_vars
    PROVE  Finished'
<1>1. CASE Finalize \/ OrderOnce \/ UNCHANGED vars
  <2>1. table' = table /\ parts' = parts /\ query' = query /\ read' = read
    BY <1>1 DEF Finalize, OrderOnce, vars, tableVars, selectVars
  <2>2. Kept' = Kept /\ KeptRows' = KeptRows /\ Counted' = Counted
    BY <2>1 DEF Kept, KeptRows, AllRows, Counted, FilterAligned, CompiledWhere
  <2>3. CASE Finalize
    <3>1. pc = "scan" /\ ~Reading
      BY <2>3 DEF Finalize
    <3>2. Counted => Suffice(query, Kept, KeptRows)
      BY <3>1, ScanSuffices
    <3>3. QED
      BY <2>1, <2>2, <3>2 DEF Finished
  <2>4. CASE ~Finalize
    <3>1. pc' = pc
      BY <1>1, <2>4 DEF OrderOnce, vars
    <3>2. QED
      BY <2>1, <2>2, <3>1 DEF Finished
  <2>5. QED
    BY <2>3, <2>4
<1>2. CASE Next /\ ~Finalize /\ ~OrderOnce
  <2>1. pc' # "order"
    BY <1>2 DEF Next, CreateTable, CreateTableRefused, Insert, InsertRefused, InsertPanics,
                Select, SelectRefused, SelectPanics, ReadChunk, ReadPanics, AggregateFails, OrderFails,
                Answer, Reading
  <2>2. QED
    BY <2>1 DEF Finished
<1>3. QED
  BY <1>1, <1>2

-----------------------------------------------------------------------------
(* The rows of the answer *)

LEMMA KeyShape ==
    ASSUME NEW schema, NEW q, IsQuery(schema, q), NEW rows \in Seq(Row(schema)),
           NEW key \in GroupKeys(q, rows)
    PROVE  /\ key \in Seq(Literal) /\ Len(key) = Len(q.group_by)
           /\ \/ Len(q.group_by) = 0
              \/ \E j \in 1..Len(rows) : \A c \in 1..Len(q.group_by) :
                    key[c] = rows[j][q.group_by[c].name]
<1> DEFINE G == q.group_by
           g == Len(G)
           SEQ == Literal
<1>1. g \in Nat /\ DOMAIN G = 1..g /\ \A c \in 1..g : G[c].name \in Names(schema)
  <2>1. G \in Seq(Proj(schema))
    BY DEF IsQuery
  <2>2. QED
    BY <2>1, ProjectionsShape
<1>2. CASE G = <<>> /\ key = <<>>
  <2>1. Len(key) = 0 /\ g = 0
    BY <1>2
  <2>2. key \in Seq(SEQ)
    <3> HIDE DEF SEQ
    <3>1. QED
      BY <1>2
  <2>3. QED
    BY <2>1, <2>2
<1>3. CASE \E j \in DOMAIN rows : key = GroupKey(q, rows[j])
  <2>1. DOMAIN rows = 1..Len(rows) /\ \A j \in DOMAIN rows : rows[j] \in Row(schema)
    <3> DEFINE R == Row(schema)
    <3> HIDE DEF R
    <3>1. rows \in Seq(R)
      BY DEF R
    <3>2. QED
      BY <3>1 DEF R
  <2>2. PICK j \in DOMAIN rows : key = GroupKey(q, rows[j])
    BY <1>3
  <2>3. key = [c \in 1..g |-> rows[j][G[c].name]]
    BY <1>1, <2>2 DEF GroupKey
  <2>4. \A c \in 1..g : key[c] = rows[j][G[c].name] /\ key[c] \in SEQ
    <3>1. \A c \in 1..g : rows[j][G[c].name] \in SEQ
      BY <1>1, <2>1, RowTyped
    <3>2. QED
      BY <2>3, <3>1
  <2>5. DOMAIN key = 1..g /\ key = [c \in 1..g |-> key[c]]
    <3> HIDE DEF SEQ, g, G
    <3>1. QED
      BY <2>3
  <2> HIDE DEF g, SEQ, G
  <2>6. key \in Seq(SEQ)
    BY <1>1, <2>4, <2>5, IsSeqOf
  <2>7. Len(key) = g
    BY <1>1, <2>4, <2>5, IsSeqOf
  <2>8. QED
    BY <2>1, <2>4, <2>6, <2>7 DEF g, SEQ, G
<1>4. QED
  BY <1>2, <1>3 DEF GroupKeys

(* A row of an aggregated answer: its key, then what was accumulated.      *)
LEMMA GroupRowShape ==
    ASSUME NEW schema, NEW q, IsQuery(schema, q), Aggregating(q), NEW rows \in Seq(Row(schema)),
           NEW gs, GroupsAre(gs, q, rows), NEW key \in GroupKeys(q, rows)
    PROVE  /\ GroupRow(q, rows, key) \in Seq(Literal)
           /\ Len(GroupRow(q, rows, key)) = Len(ToRead(q))
           /\ \A c \in 1..Len(q.group_by) : GroupRow(q, rows, key)[c] = key[c]
           /\ \A a \in 1..Len(q.aggregates) :
                 GroupRow(q, rows, key)[Len(q.group_by) + a]
                 = Final(q.aggregates[a].fn, gs[key][a])
<1> DEFINE g == Len(q.group_by)
           A == q.aggregates
           n == Len(A)
           R == Row(schema)
           SEQ == Literal
           I == RowsOfKey(q, rows, key)
           over == [a \in DOMAIN A |-> AggregateOver(rows, A[a].fn, A[a].name, I)]
<1>1. /\ g \in Nat /\ n \in Nat /\ DOMAIN A = 1..n
  BY QueryShape
<1>2. \A a \in 1..n : A[a].name \in Names(schema) /\ A[a].fn \in AggregateFn
  BY DEF IsQuery
<1>3. Len(ToRead(q)) = g + n
  <2>1. Reads(schema, q, ToRead(q))
    BY ToReadShape
  <2>2. QED
    BY <2>1 DEF Reads
<1>4. key \in Seq(SEQ) /\ Len(key) = g
  BY KeyShape
<1>5. I \in SUBSET (1..Len(rows))
  BY DEF RowsOfKey
<1>6. \A a \in 1..n : /\ over[a] = Final(A[a].fn, gs[key][a])
                      /\ over[a] \in SEQ
  <2> TAKE a \in 1..n
  <2> DEFINE name == A[a].name
             fn == A[a].fn
             acc == gs[key][a]
  <2>1. over[a] = AggregateOver(rows, fn, name, I)
    BY <1>1
  <2>2. Accumulates(acc, rows, fn, name, I)
    BY DEF GroupsAre
  <2>3. \A x \in R : x[name] \in Literal
    BY <1>2, RowTyped
  <2>4. fn \in AggregateFn /\ rows \in Seq(R)
    BY <1>2
  <2> HIDE DEF name, fn, acc, I, R
  <2>5. Final(fn, acc) = AggregateOver(rows, fn, name, I) /\ Final(fn, acc) \in Literal
    BY <1>5, <2>2, <2>3, <2>4, AccumulatorFinal
  <2>6. QED
    BY <2>1, <2>5 DEF fn, acc
<1>7. DOMAIN over = 1..n /\ over = [a \in 1..n |-> over[a]]
  <2> HIDE DEF n, A
  <2>1. QED
    BY <1>1
<1>8. GroupRow(q, rows, key) = key \o over
  BY DEF GroupRow
<1> HIDE DEF over, SEQ, g, n
<1>9. over \in Seq(SEQ) /\ Len(over) = n
  BY <1>1, <1>6, <1>7, IsSeqOf
<1> DEFINE row == Cat(key, over)
<1>10. row \in Seq(SEQ) /\ Len(row) = g + n
  BY <1>4, <1>9, CatType
<1>11. \A c \in 1..g : row[c] = key[c]
  BY <1>4, <1>9, CatType
<1>12. \A a \in 1..n : row[g + a] = over[a]
  <2>1. \A a \in 1..Len(over) : row[Len(key) + a] = over[a]
    BY <1>4, <1>9, ConcatProperties DEF Cat
  <2> HIDE DEF row
  <2>2. QED
    BY <1>4, <1>9, <2>1
<1>13. row = GroupRow(q, rows, key)
  BY <1>8 DEF Cat
<1> HIDE DEF row
<1>14. QED
  BY <1>3, <1>6, <1>10, <1>11, <1>12, <1>13 DEF SEQ, g, n

(* As many keys as rows of the answer, and finitely many.                  *)
LEMMA KeysFinite ==
    ASSUME NEW R, NEW rows \in Seq(R), NEW q
    PROVE  IsFiniteSet(GroupKeys(q, rows))
<1> DEFINE D == 1..Len(rows)
           T == {GroupKey(q, rows[i]) : i \in D}
           f == [i \in D |-> GroupKey(q, rows[i])]
<1>1. Len(rows) \in Nat /\ DOMAIN rows = D
  OBVIOUS
<1>2. IsFiniteSet(D)
  <2> DEFINE N == Len(rows)
  <2> HIDE DEF N
  <2>1. 1 \in Int /\ N \in Int
    BY <1>1 DEF N
  <2>2. IsFiniteSet(1..N)
    BY <2>1, FS_Interval
  <2>3. QED
    BY <2>2 DEF N
<1>3. f \in Surjection(D, T)
  BY DEF Surjection
<1> HIDE DEF D, T, f
<1>4. IsFiniteSet(T)
  BY <1>2, <1>3, FS_Surjection
<1>5. IsFiniteSet(T \cup {<<>>})
  BY <1>4, FS_AddElement
<1>6. GroupKeys(q, rows) = T \/ GroupKeys(q, rows) = T \cup {<<>>}
  BY <1>1 DEF GroupKeys, T, D
<1>7. QED
  BY <1>4, <1>5, <1>6

LEMMA GroupRowsDiffer ==
    ASSUME NEW schema, NEW q, IsQuery(schema, q), Aggregating(q), NEW rows \in Seq(Row(schema)),
           NEW gs, GroupsAre(gs, q, rows),
           NEW k \in GroupKeys(q, rows), NEW l \in GroupKeys(q, rows),
           GroupRow(q, rows, k) = GroupRow(q, rows, l)
    PROVE  k = l
<1> DEFINE g == Len(q.group_by)
           SEQ == Literal
<1>1. k \in Seq(SEQ) /\ Len(k) = g
  BY KeyShape
<1>2. l \in Seq(SEQ) /\ Len(l) = g
  BY KeyShape
<1>3. \A c \in 1..g : GroupRow(q, rows, k)[c] = k[c]
  BY GroupRowShape
<1>4. \A c \in 1..g : GroupRow(q, rows, l)[c] = l[c]
  BY GroupRowShape
<1>5. \A c \in 1..g : k[c] = l[c]
  BY <1>3, <1>4
<1> HIDE DEF SEQ, g
<1>6. QED
  BY <1>1, <1>2, <1>5

LEMMA GroupsCount ==
    ASSUME NEW schema, NEW q, IsQuery(schema, q), Aggregating(q), NEW rows \in Seq(Row(schema)),
           NEW gs, GroupsAre(gs, q, rows)
    PROVE  /\ Cardinality(GroupKeys(q, rows)) \in Nat
           /\ Cardinality(GroupRows(q, rows)) = Cardinality(GroupKeys(q, rows))
<1> DEFINE K == GroupKeys(q, rows)
           T == GroupRows(q, rows)
           f == [k \in K |-> GroupRow(q, rows, k)]
<1>1. IsFiniteSet(K)
  BY KeysFinite
<1>2. T = {GroupRow(q, rows, k) : k \in K}
  BY DEF GroupRows
<1>3. \A k, l \in K : GroupRow(q, rows, k) = GroupRow(q, rows, l) => k = l
  BY GroupRowsDiffer
<1> HIDE DEF K, T
<1>4. f \in Surjection(K, T)
  BY <1>2 DEF Surjection
<1>5. f \in Injection(K, T)
  <2>1. f \in [K -> T] /\ \A k, l \in K : f[k] = f[l] => k = l
    BY <1>2, <1>3
  <2> HIDE DEF f
  <2>2. QED
    BY <2>1 DEF Injection, IsInjective
<1> HIDE DEF f
<1>6. Cardinality(T) = Cardinality(K)
  BY <1>1, <1>4, <1>5, FS_Surjection
<1>7. Cardinality(K) \in Nat
  BY <1>1, FS_CardinalityType
<1>8. QED
  BY <1>6, <1>7 DEF K, T

(* The groups in any order give the answer's rows in some order.           *)
LEMMA RowsArranged ==
    ASSUME NEW schema, NEW q, IsQuery(schema, q), Aggregating(q), NEW rows \in Seq(Row(schema)),
           NEW gs, GroupsAre(gs, q, rows), NEW s \in Arrangements(GroupKeys(q, rows)), NEW n,
           n = Cardinality(GroupKeys(q, rows))
    PROVE  /\ n \in Nat /\ DOMAIN s = 1..n /\ \A x \in 1..n : s[x] \in GroupKeys(q, rows)
           /\ [x \in 1..n |-> GroupRow(q, rows, s[x])] \in Arrangements(GroupRows(q, rows))
<1> DEFINE K == GroupKeys(q, rows)
           T == GroupRows(q, rows)
           r == [x \in 1..n |-> GroupRow(q, rows, s[x])]
<1>1. n \in Nat /\ Cardinality(T) = n
  BY GroupsCount
<1>2. s \in [1..n -> K] /\ NoDuplicates(s)
  BY DEF Arrangements
<1>3. T = {GroupRow(q, rows, k) : k \in K}
  BY DEF GroupRows
<1>4. \A k, l \in K : GroupRow(q, rows, k) = GroupRow(q, rows, l) => k = l
  BY GroupRowsDiffer
<1> HIDE DEF K, T
<1>5. r \in [1..n -> T]
  BY <1>2, <1>3
<1>6. NoDuplicates(r)
  BY <1>2, <1>4 DEF NoDuplicates
<1> HIDE DEF r
<1>7. r \in Arrangements(T)
  BY <1>1, <1>5, <1>6 DEF Arrangements
<1>8. QED
  BY <1>1, <1>2, <1>7 DEF K, T, r

LEMMA PlainShape ==
    ASSUME NEW schema, NEW q, IsQuery(schema, q), ~Aggregating(q), NEW rows \in Seq(Row(schema))
    PROVE  /\ Len(rows) \in Nat /\ DOMAIN rows = 1..Len(rows)
           /\ PlainRows(q, rows) \in Seq(Seq(Literal)) /\ Len(PlainRows(q, rows)) = Len(rows)
           /\ \A i \in 1..Len(rows) : Len(PlainRows(q, rows)[i]) = Len(ToRead(q))
           /\ \A i \in 1..Len(rows), c \in 1..Len(q.columns) :
                 PlainRows(q, rows)[i][c] = rows[i][q.columns[c].name]
<1> DEFINE C == q.columns
           W == Len(C)
           N == Len(rows)
           R == Row(schema)
           SEQ == Literal
           plain == PlainRows(q, rows)
<1>1. W \in Nat /\ DOMAIN C = 1..W
  BY QueryShape
<1>2. \A c \in 1..W : C[c].name \in Names(schema)
  <2>1. C \in Seq(Proj(schema))
    BY DEF IsQuery
  <2>2. QED
    BY <2>1, ProjectionsShape
<1>3. Len(ToRead(q)) = W
  <2>1. Reads(schema, q, ToRead(q))
    BY ToReadShape
  <2>2. QED
    BY <2>1 DEF Reads
<1>4. N \in Nat /\ DOMAIN rows = 1..N /\ \A i \in 1..N : rows[i] \in R
  <2> HIDE DEF R
  <2>1. rows \in Seq(R)
    BY DEF R
  <2>2. QED
    BY <2>1
<1>5. \A i \in 1..N, c \in 1..W : rows[i][C[c].name] \in SEQ
  BY <1>2, <1>4, RowTyped
<1> HIDE DEF N, R
<1>6. plain = [i \in 1..N |-> [c \in 1..W |-> rows[i][C[c].name]]]
  BY <1>1, <1>4 DEF PlainRows
<1> HIDE DEF plain, W, SEQ, C
<1>7. \A i \in 1..N : plain[i] \in Seq(SEQ) /\ Len(plain[i]) = W
         /\ \A c \in 1..W : plain[i][c] = rows[i][C[c].name]
  <2> TAKE i \in 1..N
  <2> DEFINE r == plain[i]
  <2>1. r = [c \in 1..W |-> rows[i][C[c].name]]
    BY <1>6
  <2> HIDE DEF r
  <2>2. DOMAIN r = 1..W /\ r = [c \in 1..W |-> r[c]] /\ \A c \in 1..W : r[c] = rows[i][C[c].name]
    BY <2>1
  <2>3. r \in Seq(SEQ) /\ Len(r) = W
    BY <1>1, <1>5, <2>2, IsSeqOf
  <2>4. QED
    BY <2>2, <2>3 DEF r
<1> DEFINE S == Seq(SEQ)
<1> HIDE DEF S
<1>8. DOMAIN plain = 1..N /\ plain = [i \in 1..N |-> plain[i]] /\ \A i \in 1..N : plain[i] \in S
  BY <1>6, <1>7 DEF S
<1>9. plain \in Seq(S) /\ Len(plain) = N
  BY <1>4, <1>8, IsSeqOf
<1>10. QED
  BY <1>3, <1>4, <1>7, <1>9 DEF S, SEQ, plain, W, C, N

LEMMA PlainWidth ==
    ASSUME NEW schema, NEW q, IsQuery(schema, q), ~Aggregating(q), NEW rows \in Seq(Row(schema)),
           NEW i \in 1..Len(rows)
    PROVE  Len(PlainRows(q, rows)[i]) = Len(ToRead(q))
<1> DEFINE C == q.columns
           W == Len(C)
           r == PlainRows(q, rows)[i]
           S == {r[c] : c \in 1..W}
<1>1. W \in Nat /\ DOMAIN C = 1..W
  BY QueryShape
<1>2. Len(ToRead(q)) = W
  <2>1. Reads(schema, q, ToRead(q))
    BY ToReadShape
  <2>2. QED
    BY <2>1 DEF Reads
<1>3. i \in DOMAIN rows
  <2>1. DOMAIN rows = 1..Len(rows)
    BY PlainShape
  <2>2. QED
    BY <2>1
<1>4. r = [c \in 1..W |-> rows[i][C[c].name]]
  BY <1>1, <1>3 DEF PlainRows
<1> HIDE DEF r, W
<1>5. DOMAIN r = 1..W /\ r = [c \in 1..W |-> r[c]] /\ \A c \in 1..W : r[c] \in S
  BY <1>4
<1> HIDE DEF S
<1>6. Len(r) = W
  BY <1>1, <1>5, IsSeqOf
<1>7. QED
  BY <1>2, <1>6 DEF r

LEMMA PlainCells ==
    ASSUME NEW schema, NEW q, IsQuery(schema, q), ~Aggregating(q), NEW rows \in Seq(Row(schema)),
           NEW i \in 1..Len(rows)
    PROVE  \A c \in 1..Len(q.columns) : PlainRows(q, rows)[i][c] = rows[i][q.columns[c].name]
BY PlainShape

LEMMA RowsAreShape ==
    ASSUME NEW schema, NEW q, IsQuery(schema, q), NEW rows \in Seq(Row(schema)), NEW R,
           RowsAre(q, rows, R), R \in Seq(Seq(Literal))
    PROVE  /\ ~Aggregating(q) =>
                 /\ Len(R) = Len(rows)
                 /\ \E p \in Orders(Len(rows)) : \A i \in 1..Len(rows) : R[i] = PlainRows(q, rows)[p[i]]
           /\ Aggregating(q) =>
                 /\ Len(R) = Cardinality(GroupRows(q, rows))
                 /\ R \in [1..Len(R) -> GroupRows(q, rows)] /\ NoDuplicates(R)
           /\ Len(R) \in Nat /\ DOMAIN R = 1..Len(R) /\ R = [i \in 1..Len(R) |-> R[i]]
<1> DEFINE S == Seq(Literal)
           N == Len(R)
           M == Len(rows)
<1>1. R \in Seq(S)
  OBVIOUS
<1> HIDE DEF S
<1>2. N \in Nat /\ DOMAIN R = 1..N /\ R = [i \in 1..N |-> R[i]]
  BY <1>1
<1>3. M \in Nat
  <2> DEFINE T == Row(schema)
  <2> HIDE DEF T
  <2>1. rows \in Seq(T)
    BY DEF T
  <2>2. QED
    BY <2>1
<1> HIDE DEF N, M
<1>4. ASSUME ~Aggregating(q)
      PROVE  N = M /\ \E p \in Orders(M) : \A i \in 1..M : R[i] = PlainRows(q, rows)[p[i]]
  <2>1. PICK p \in Orders(M) : R = [i \in 1..M |-> PlainRows(q, rows)[p[i]]]
    BY <1>4 DEF RowsAre, M
  <2>2. DOMAIN R = 1..M
    BY <2>1
  <2>3. N = M
    BY <1>2, <1>3, <2>2
  <2>4. QED
    BY <2>1, <2>3
<1>5. ASSUME Aggregating(q)
      PROVE  /\ N = Cardinality(GroupRows(q, rows))
             /\ R \in [1..N -> GroupRows(q, rows)] /\ NoDuplicates(R)
  <2> DEFINE k == Cardinality(GroupRows(q, rows))
  <2>1. R \in [1..k -> GroupRows(q, rows)] /\ NoDuplicates(R)
    BY <1>5 DEF RowsAre, Arrangements
  <2>2. k \in Nat
    <3>1. IsFiniteSet(GroupRows(q, rows))
      <4> DEFINE K == GroupKeys(q, rows)
                 T == GroupRows(q, rows)
                 f == [x \in K |-> GroupRow(q, rows, x)]
      <4>1. IsFiniteSet(K)
        BY KeysFinite
      <4>2. f \in Surjection(K, T)
        BY DEF Surjection, GroupRows
      <4> HIDE DEF K, T, f
      <4>3. IsFiniteSet(T)
        BY <4>1, <4>2, FS_Surjection
      <4>4. QED
        BY <4>3 DEF T
    <3>2. QED
      BY <3>1, FS_CardinalityType
  <2> HIDE DEF k
  <2>3. DOMAIN R = 1..k
    BY <2>1
  <2>4. N = k
    BY <1>2, <2>2, <2>3
  <2>5. QED
    BY <2>1, <2>4 DEF k
<1>6. QED
  BY <1>2, <1>4, <1>5 DEF N, M

(* The leading cells of a row of the answer are those of a row kept.       *)
LeadingCells(q, rows, cells) ==
    \/ Len(Leading(q)) = 0
    \/ \E j \in 1..Len(rows) : \A c \in 1..Len(Leading(q)) :
          cells[c] = rows[j][Leading(q)[c].name]

LEMMA CellsAre ==
    ASSUME NEW schema, NEW q, IsQuery(schema, q), NEW rows \in Seq(Row(schema)), NEW R,
           RowsAre(q, rows, R), R \in Seq(Seq(Literal)), NEW i \in 1..Len(R)
    PROVE  LeadingCells(q, rows, R[i])
<1>1. CASE ~Aggregating(q)
  <2>1. Len(R) = Len(rows)
    BY <1>1, RowsAreShape
  <2>2. PICK p \in Orders(Len(rows)) : \A x \in 1..Len(rows) : R[x] = PlainRows(q, rows)[p[x]]
    BY <1>1, RowsAreShape
  <2>3. Len(rows) \in Nat
    BY <1>1, PlainShape
  <2>4. p[i] \in 1..Len(rows)
    BY <2>1, <2>2, <2>3, OrderShape
  <2>5. R[i] = PlainRows(q, rows)[p[i]]
    BY <2>1, <2>2
  <2>6. \A c \in 1..Len(q.columns) : PlainRows(q, rows)[p[i]][c] = rows[p[i]][q.columns[c].name]
    <3> DEFINE x == p[i]
    <3>1. x \in 1..Len(rows)
      BY <2>4
    <3> HIDE DEF x
    <3>2. \A c \in 1..Len(q.columns) : PlainRows(q, rows)[x][c] = rows[x][q.columns[c].name]
      BY <1>1, <3>1, PlainCells
    <3>3. QED
      BY <3>2 DEF x
  <2>7. QED
    BY <1>1, <2>4, <2>5, <2>6 DEF Leading, LeadingCells
<1>2. CASE Aggregating(q)
  <2> DEFINE g == Len(q.group_by)
             n == Len(q.aggregates)
  <2>1. R[i] \in GroupRows(q, rows)
    <3> HIDE DEF GroupRows
    <3>1. R \in [1..Len(R) -> GroupRows(q, rows)]
      BY <1>2, RowsAreShape
    <3>2. QED
      BY <3>1
  <2>2. PICK key \in GroupKeys(q, rows) : R[i] = GroupRow(q, rows, key)
    BY <2>1 DEF GroupRows
  <2>3. g \in Nat /\ n \in Nat /\ DOMAIN q.aggregates = 1..n
    BY QueryShape
  <2> DEFINE over == [a \in DOMAIN q.aggregates |->
                        AggregateOver(rows, q.aggregates[a].fn, q.aggregates[a].name,
                                      RowsOfKey(q, rows, key))]
             SEQ == Literal
  <2>4. IsList(over, n)
    <3> HIDE DEF n
    <3>1. QED
      BY <2>3 DEF IsList
  <2>5. key \in Seq(SEQ) /\ Len(key) = g
    BY KeyShape
  <2>6. R[i] = key \o over
    BY <2>2 DEF GroupRow
  <2> HIDE DEF g, n, over, SEQ
  <2>7. IsList(key, g)
    BY <2>5 DEF IsList
  <2>8. \A c \in 1..g : Cat(key, over)[c] = key[c]
    BY <2>3, <2>4, <2>7, JoinShape
  <2>9. \A c \in 1..g : R[i][c] = key[c]
    BY <2>6, <2>8 DEF Cat
  <2>10. \/ g = 0
         \/ \E j \in 1..Len(rows) : \A c \in 1..g : key[c] = rows[j][q.group_by[c].name]
    BY KeyShape, ZenonT(40) DEF g
  <2>11. Leading(q) = q.group_by
    BY <1>2 DEF Leading
  <2>12. QED
    BY <2>9, <2>10, <2>11 DEF g, LeadingCells
<1>3. QED
  BY <1>1, <1>2

(* Another order of the answer's rows.                                     *)
LEMMA RowsPermuted ==
    ASSUME NEW schema, NEW q, IsQuery(schema, q), NEW rows \in Seq(Row(schema)), NEW R,
           RowsAre(q, rows, R), R \in Seq(Seq(Literal)), NEW p \in Orders(Len(R)), NEW T,
           T = [i \in 1..Len(R) |-> R[p[i]]]
    PROVE  RowsAre(q, rows, T) /\ T \in Seq(Seq(Literal)) /\ Len(T) = Len(R)
<1> DEFINE N == Len(R)
           S == Seq(Literal)
<1>1. N \in Nat /\ DOMAIN R = 1..N
  BY RowsAreShape
<1>2. /\ p \in [1..N -> 1..N] /\ \A x \in 1..N : \E i \in 1..N : p[i] = x
      /\ \A i, j \in 1..N : p[i] = p[j] => i = j
  BY <1>1, OrderShape
<1>3. R \in Seq(S)
  OBVIOUS
<1> HIDE DEF S
<1>4. \A i \in 1..N : R[i] \in S
  BY <1>1, <1>3
<1> HIDE DEF N
<1>5. DOMAIN T = 1..N /\ T = [i \in 1..N |-> T[i]] /\ \A i \in 1..N : T[i] = R[p[i]]
  BY DEF N
<1>6. \A i \in 1..N : T[i] \in S
  BY <1>2, <1>4, <1>5
<1>7. T \in Seq(S) /\ Len(T) = N
  <2>1. N \in Nat /\ DOMAIN T = 1..N /\ T = [i \in 1..N |-> T[i]] /\ \A i \in 1..N : T[i] \in S
    BY <1>1, <1>5, <1>6
  <2> DEFINE t == T
  <2>2. DOMAIN t = 1..N /\ t = [i \in 1..N |-> t[i]] /\ \A i \in 1..N : t[i] \in S
    BY <2>1
  <2> HIDE DEF t
  <2>3. t \in Seq(S) /\ Len(t) = N
    BY <1>1, <2>2, IsSeqOf
  <2>4. QED
    BY <2>3 DEF t
<1>8. CASE ~Aggregating(q)
  <2> DEFINE M == Len(rows)
             plain == PlainRows(q, rows)
  <2>1. M = N
    BY <1>8, RowsAreShape DEF N
  <2>2. PICK o \in Orders(M) : \A i \in 1..M : R[i] = plain[o[i]]
    BY <1>8, RowsAreShape
  <2> HIDE DEF M, plain
  <2>3. o \in [1..N -> 1..N] /\ \A x \in 1..N : \E i \in 1..N : o[i] = x
    BY <1>1, <2>1, OrderShape
  <2> DEFINE both == [i \in 1..N |-> o[p[i]]]
  <2>4. both \in [1..N -> 1..N]
    BY <1>2, <2>3
  <2>5. \A x \in 1..N : \E i \in 1..N : both[i] = x
    <3> TAKE x \in 1..N
    <3>1. PICK j \in 1..N : o[j] = x
      BY <2>3
    <3>2. PICK i \in 1..N : p[i] = j
      BY <1>2
    <3>3. QED
      BY <3>1, <3>2
  <2>6. \A i \in 1..N : T[i] = plain[both[i]]
    BY <1>2, <1>5, <2>1, <2>2
  <2> HIDE DEF both
  <2>7. both \in Orders(N)
    BY <2>4, <2>5 DEF Orders
  <2>8. T = [i \in 1..M |-> plain[both[i]]]
    BY <1>5, <2>1, <2>6
  <2>9. QED
    BY <1>7, <1>8, <2>1, <2>7, <2>8 DEF RowsAre, plain, M, S, N
<1>9. CASE Aggregating(q)
  <2> DEFINE G == GroupRows(q, rows)
  <2>1. N = Cardinality(G) /\ R \in [1..N -> G] /\ NoDuplicates(R)
    BY <1>9, RowsAreShape DEF N
  <2> HIDE DEF G
  <2>2. T \in [1..N -> G]
    BY <1>2, <1>5, <2>1
  <2>3. NoDuplicates(T)
    <3>1. \A i, j \in 1..N : R[i] = R[j] => i = j
      BY <1>1, <2>1 DEF NoDuplicates
    <3>2. \A i, j \in 1..N : T[i] = T[j] => i = j
      <4> TAKE i, j \in 1..N
      <4> HAVE T[i] = T[j]
      <4>1. p[i] \in 1..N /\ p[j] \in 1..N
        BY <1>2
      <4>2. T[i] = R[p[i]] /\ T[j] = R[p[j]]
        BY <1>5
      <4>3. p[i] = p[j]
        BY <3>1, <4>1, <4>2
      <4>4. QED
        BY <1>2, <4>3
    <3>3. QED
      BY <1>5, <3>2 DEF NoDuplicates
  <2>4. T \in Arrangements(G)
    BY <2>1, <2>2, <2>3 DEF Arrangements
  <2>5. QED
    BY <1>7, <1>9, <2>4 DEF RowsAre, G, S, N
<1>10. QED
  BY <1>8, <1>9

-----------------------------------------------------------------------------
(* Ordering the answer *)

DataOf(out) == [c \in DOMAIN out |-> out[c].data]

LEMMA ShownData ==
    ASSUME NEW out, NEW W \in Nat \ {0}, DOMAIN out = 1..W, NEW R, Shows(out, W, R)
    PROVE  /\ IsData(DataOf(out), W, Len(R)) /\ RowCount(DataOf(out)) = Len(R)
           /\ \A i \in 1..Len(R) : RowAt(DataOf(out), i) = R[i]
           /\ \A i \in 1..Len(R), c \in 1..W : R[i][c] \in Literal
<1> DEFINE cols == DataOf(out)
           S == Seq(Literal)
           SEQ == Literal
           N == Len(R)
<1>1. R \in Seq(S) /\ \A i \in 1..N : Len(R[i]) = W
  BY DEF Shows
<1>2. \A c \in 1..W : out[c].data = [i \in 1..N |-> R[i][c]]
  BY DEF Shows
<1>3. N \in Nat /\ \A i \in 1..N : R[i] \in S
  <2> HIDE DEF S
  <2>1. QED
    BY <1>1
<1> HIDE DEF N
<1>4. \A i \in 1..N, c \in 1..W : R[i][c] \in SEQ
  <2> HIDE DEF SEQ
  <2>1. QED
    BY <1>1, <1>3 DEF SEQ
<1>5. DOMAIN cols = 1..W /\ cols = [c \in 1..W |-> cols[c]]
  BY DEF DataOf
<1>6. \A c \in 1..W : cols[c] = [i \in 1..N |-> R[i][c]]
  BY <1>2 DEF DataOf
<1> HIDE DEF cols, S, SEQ
<1>7. \A c \in 1..W : cols[c] \in [1..N -> SEQ]
  <2> TAKE c \in 1..W
  <2>1. \A i \in 1..N : R[i][c] \in SEQ
    BY <1>4
  <2> DEFINE f == [i \in 1..N |-> R[i][c]]
  <2>2. f \in [1..N -> SEQ]
    BY <2>1
  <2>3. QED
    BY <1>6, <2>2
<1>8. cols \in [1..W -> [1..N -> SEQ]]
  BY <1>5, <1>7
<1>9. IsData(cols, W, N)
  BY <1>3, <1>8 DEF IsData, SEQ
<1>10. RowCount(cols) = N
  <2> DEFINE f == cols[1]
  <2>2. f \in [1..N -> SEQ]
    <3>1. 1 \in 1..W
      OBVIOUS
    <3>2. QED
      BY <1>7, <3>1
  <2> HIDE DEF f
  <2>3. Len(f) = N
    BY <1>3, <2>2
  <2>4. QED
    BY <2>3 DEF f, RowCount
<1>11. ASSUME NEW i \in 1..N PROVE RowAt(cols, i) = R[i]
  <2> DEFINE r == R[i]
  <2>1. r \in Seq(SEQ) /\ Len(r) = W
    BY <1>1, <1>3 DEF N, S, SEQ
  <2>2. \A c \in 1..W : cols[c][i] = r[c]
    BY <1>6
  <2> HIDE DEF r
  <2>3. RowAt(cols, i) = [c \in 1..W |-> r[c]]
    BY <1>5, <2>2 DEF RowAt
  <2>4. r = [c \in 1..W |-> r[c]]
    BY <2>1
  <2>5. QED
    BY <2>3, <2>4 DEF r
<1>12. QED
  BY <1>4, <1>9, <1>10, <1>11 DEF cols, N, SEQ

LEMMA SameBelow ==
    ASSUME NEW a, NEW b, NEW n \in Nat, NEW keys, NEW other,
           DOMAIN keys = 1..n, DOMAIN other = 1..n,
           \A k \in 1..n : a[keys[k]] = a[other[k]] /\ b[keys[k]] = b[other[k]]
    PROVE  Below(a, b, keys) <=> Below(a, b, other)
<1>1. \A k \in 1..n : SameUpTo(a, b, keys, k) <=> SameUpTo(a, b, other, k)
  <2> TAKE k \in 1..n
  <2>1. \A j \in 1..(k - 1) : j \in 1..n
    OBVIOUS
  <2>2. QED
    BY <2>1 DEF SameUpTo
<1>2. QED
  BY <1>1 DEF Below

LEMMA LeastOf ==
    ASSUME NEW S \in SUBSET Nat, S # {}
    PROVE  \E m \in S : \A x \in S : m <= x
<1> SUFFICES ASSUME \A m \in S : \E x \in S : ~(m <= x) PROVE FALSE
  OBVIOUS
<1> DEFINE T == {n \in Nat : \A x \in S : n <= x}
<1>1. 0 \in T
  OBVIOUS
<1>2. \A n \in Nat : n \in T => n + 1 \in T
  <2> TAKE n \in Nat
  <2> HAVE n \in T
  <2>1. n \notin S
    OBVIOUS
  <2>2. \A x \in S : x \in Nat /\ n <= x /\ x # n
    BY <2>1
  <2>3. \A x \in S : n + 1 <= x
    BY <2>2
  <2>4. QED
    BY <2>3
<1>3. PICK x : x \in S /\ x \in Nat
  OBVIOUS
<1>4. x + 1 \in T
  <2> HIDE DEF T
  <2>1. QED
    BY <1>1, <1>2, <1>3, CountingUp
<1>5. QED
  BY <1>3, <1>4

(* The column of the answer that an ORDER BY means holds what it selects,  *)
(* except where there is nothing to order.                                 *)
LEMMA PositionMeans ==
    ASSUME NEW schema, IsQuery(schema, query), Headed, pc = "order",
           NEW p \in ToSet(query.columns), OutputPosition(p) # 0
    PROVE  /\ OutputPosition(p) \in 1..Len(ToRead(query))
           /\ ColumnPosition(query, p) \in 1..Len(Leading(query))
           /\ Leading(query)[ColumnPosition(query, p)].name = p.name
           /\ \/ Aggregating(query) /\ DOMAIN groups = {}
              \/ /\ OutputPosition(p) \in 1..Len(Leading(query))
                 /\ Leading(query)[OutputPosition(p)].name = p.name
<1> DEFINE C == query.columns
           L == Leading(query)
           l == Len(L)
           A == query.aggregates
           n == Len(A)
           W == Len(ToRead(query))
           none == ""
           found == {c \in DOMAIN output : /\ output[c].alias = p.alias
                                           /\ output[c].fn = none /\ output[c].name = p.name}
           at == OutputPosition(p)
           d == ColumnPosition(query, p)
<1>1. /\ l \in Nat /\ DOMAIN L = 1..l /\ n \in Nat
  BY QueryShape
<1>2. W = IF Aggregating(query) THEN l + n ELSE l
  <2>1. Reads(schema, query, ToRead(query))
    BY ToReadShape
  <2>2. QED
    BY <2>1 DEF Reads, Leading
<1>3. /\ DOMAIN output = 1..W
      /\ \A c \in 1..l : output[c].name = L[c].name
      /\ Aggregating(query) /\ DOMAIN groups # {} => \A a \in 1..n : output[l + a].fn = A[a].fn
  BY DEF Headed
<1>4. \A a \in 1..n : A[a].fn \in AggregateFn
  BY DEF IsQuery
<1>5. none \notin AggregateFn
  BY DEF AggregateFn
<1>6. at \in found
  <2>1. at = IF found = {} THEN 0 ELSE CHOOSE c \in found : \A x \in found : c <= x
    BY DEF OutputPosition
  <2>2. \E c \in found : \A x \in found : c <= x
    <3>1. found # {}
      BY <2>1
    <3>2. found \in SUBSET (1..W)
      BY <1>3
    <3>3. W \in Nat
      BY <1>1, <1>2
    <3> HIDE DEF found, W
    <3>4. QED
      BY <3>1, <3>2, <3>3, LeastOf
  <2> HIDE DEF found, at
  <2>3. QED
    BY <2>1, <2>2
<1>7. \E x \in DOMAIN L : L[x] = p
  <2>1. \E x \in DOMAIN C : C[x] = p
    BY DEF ToSet
  <2>2. CASE ~Aggregating(query)
    BY <2>1, <2>2 DEF Leading
  <2>3. CASE Aggregating(query) /\ query.group_by # <<>>
    <3>1. p \in ToSet(query.group_by)
      BY <2>3 DEF IsQuery
    <3>2. QED
      BY <2>3, <3>1 DEF Leading, ToSet
  <2>4. CASE Aggregating(query) /\ query.group_by = <<>>
    <3>1. C = <<>>
      BY <2>4 DEF Aggregating
    <3>2. DOMAIN C = {}
      BY <3>1
    <3>3. QED
      BY <2>1, <3>2
  <2>5. QED
    BY <2>2, <2>3, <2>4
<1>8. d \in 1..l /\ L[d].name = p.name
  <2>1. d = CHOOSE c \in DOMAIN L : L[c] = p
    BY DEF ColumnPosition, Leading
  <2> HIDE DEF L, d
  <2>2. d \in DOMAIN L /\ L[d] = p
    BY <1>7, <2>1
  <2>3. QED
    BY <1>1, <2>2
<1>9. at \in 1..W /\ output[at].name = p.name /\ output[at].fn = none
  BY <1>3, <1>6
<1> HIDE DEF L, l, A, n, W, none, found, at, d
<1>10. CASE at \in 1..l
  BY <1>3, <1>8, <1>9, <1>10 DEF L, l, W, at, d
<1>11. CASE at \notin 1..l
  <2>1. Aggregating(query)
    BY <1>2, <1>9, <1>11
  <2>2. at - l \in 1..n /\ l + (at - l) = at
    BY <1>1, <1>2, <1>9, <1>11, <2>1
  <2>3. DOMAIN groups = {}
    <3> DEFINE a == at - l
    <3>1. a \in 1..n /\ l + a = at
      BY <2>2
    <3> HIDE DEF a
    <3>2. A[a].fn # none
      BY <1>4, <1>5, <3>1
    <3>3. QED
      BY <1>3, <1>9, <2>1, <3>1, <3>2
  <2>4. QED
    BY <1>8, <1>9, <2>1, <2>3 DEF L, l, W, at, d
<1>12. QED
  BY <1>10, <1>11

LEMMA EmptyFunction ==
    ASSUME NEW f, DOMAIN f = {}, NEW g, f = [k \in {} |-> g[k]]
    PROVE  f = <<>>
OBVIOUS

LEMMA ListShape ==
    ASSUME NEW schema, NEW q, IsQuery(schema, q), NEW k \in 1..Len(q.order_by)
    PROVE  /\ q.order_by[k] \in Seq(ToSet(q.columns)) /\ Len(q.order_by[k]) \in Nat
           /\ DOMAIN q.order_by[k] = 1..Len(q.order_by[k])
           /\ \A j \in 1..Len(q.order_by[k]) : q.order_by[k][j] \in ToSet(q.columns)
<1> DEFINE S == ToSet(q.columns)
           SEQ == Seq(S)
           O == q.order_by
<1>1. O \in Seq(SEQ)
  BY DEF IsQuery
<1> HIDE DEF S, SEQ, O
<1>2. O[k] \in SEQ
  BY <1>1 DEF O
<1> DEFINE list == O[k]
<1>3. list \in Seq(S)
  BY <1>2 DEF SEQ
<1> HIDE DEF list
<1>4. Len(list) \in Nat /\ DOMAIN list = 1..Len(list) /\ \A j \in 1..Len(list) : list[j] \in S
  BY <1>3
<1>5. QED
  BY <1>3, <1>4 DEF list, O, S

(* One ORDER BY list puts the rows of the answer into an order by it.      *)
LEMMA AnswerOrdered ==
    ASSUME NEW schema, IsQuery(schema, query), Headed, pc = "order", NEW rows \in Seq(Row(schema)),
           NEW R, Shows(output, Len(ToRead(query)), R), RowsAre(query, rows, R),
           DOMAIN groups = {} /\ Aggregating(query) => R = <<>>,
           Ordering, KeysFound, ordered + 1 \in 1..Len(query.order_by),
           NEW result \in MergeTreeResults(OutputData, OutputKeys),
           NEW new, new = [c \in DOMAIN output |-> [output[c] EXCEPT !.data = result[c]]]
    PROVE  \E T : /\ Shows(new, Len(ToRead(query)), T) /\ RowsAre(query, rows, T)
                  /\ Len(T) = Len(R) /\ query.order_by[ordered + 1] # <<>>
                  /\ SortedBy(query, query.order_by[ordered + 1], T)
<1> DEFINE W == Len(ToRead(query))
           N == Len(R)
           by == query.order_by[ordered + 1]
           L == Leading(query)
           l == Len(L)
           cols == OutputData
           keys == OutputKeys
           S == Seq(Literal)
<1>1. W \in Nat \ {0}
  <2>1. Reads(schema, query, ToRead(query))
    BY ToReadShape
  <2>2. QED
    BY <2>1 DEF Reads
<1>2. DOMAIN output = 1..W
      /\ \A c \in 1..W : output[c] = Named(output[c].alias, output[c].fn, output[c].name, output[c].data)
  BY DEF Headed
<1>3. cols = DataOf(output)
  BY DEF OutputData, DataOf
<1>4. R \in Seq(S) /\ (\A i \in 1..N : Len(R[i]) = W)
      /\ \A c \in 1..W : output[c].data = [i \in 1..N |-> R[i][c]]
  BY DEF Shows
<1>5. IsData(cols, W, N) /\ \A i \in 1..N : RowAt(cols, i) = R[i]
  <2> HIDE DEF W
  <2>1. Shows(output, W, R)
    BY DEF W
  <2>2. IsData(DataOf(output), W, Len(R)) /\ \A i \in 1..Len(R) : RowAt(DataOf(output), i) = R[i]
    BY <1>1, <1>2, <2>1, ShownData
  <2>3. QED
    BY <1>3, <2>2
<1>6. N \in Nat /\ DOMAIN R = 1..N
  <2> HIDE DEF S
  <2>1. QED
    BY <1>4
<1> HIDE DEF W, cols, keys, S
<1>7. result \in MergeTreeResults(cols, keys)
  BY DEF cols, keys
<1>8. PICK p \in Orders(N) :
         /\ result = [c \in 1..W |-> [i \in 1..N |-> cols[c][p[i]]]]
         /\ \A i, j \in 1..N : i < j => ~Below(RowAt(cols, p[j]), RowAt(cols, p[i]), keys)
  <2> HIDE DEF N
  <2>1. QED
    BY <1>5, <1>7, MergeTreeOrders
<1>9. p \in [1..N -> 1..N]
  <2> HIDE DEF N
  <2>1. QED
    BY <1>6, OrderShape
<1> DEFINE T == [i \in 1..N |-> R[p[i]]]
<1>10. RowsAre(query, rows, T) /\ T \in Seq(S) /\ Len(T) = N
  <2>1. R \in Seq(Seq(Literal)) /\ p \in Orders(Len(R)) /\ T = [i \in 1..Len(R) |-> R[p[i]]]
    BY <1>4, <1>8 DEF S
  <2> HIDE DEF T
  <2>2. RowsAre(query, rows, T) /\ T \in Seq(Seq(Literal)) /\ Len(T) = Len(R)
    BY <2>1, RowsPermuted
  <2>3. QED
    BY <2>2 DEF S
<1>11. \A i \in 1..N : T[i] = R[p[i]] /\ p[i] \in 1..N
  BY <1>9
<1> HIDE DEF T, N
<1>12. Shows(new, W, T)
  <2>1. \A i \in 1..N : Len(T[i]) = W
    BY <1>4, <1>11
  <2>2. \A c \in 1..W : new[c].data = [i \in 1..N |-> T[i][c]]
    <3> TAKE c \in 1..W
    <3>1. new[c] = Named(output[c].alias, output[c].fn, output[c].name, result[c])
      <4> DEFINE o == output[c]
      <4>1. o = Named(o.alias, o.fn, o.name, o.data)
        BY <1>2
      <4>2. new[c] = [o EXCEPT !.data = result[c]]
        BY <1>2
      <4> HIDE DEF o
      <4>3. QED
        BY <4>1, <4>2, NamedKeeps DEF o
    <3>2. new[c].data = result[c]
      BY <3>1, NamedFields
    <3>3. result[c] = [i \in 1..N |-> cols[c][p[i]]]
      BY <1>8
    <3>4. cols[c] = [i \in 1..N |-> R[i][c]]
      BY <1>2, <1>3, <1>4 DEF DataOf, N
    <3>5. \A i \in 1..N : cols[c][p[i]] = T[i][c]
      BY <1>11, <3>4
    <3>6. QED
      BY <3>2, <3>3, <3>5
  <2>3. QED
    BY <1>10, <2>1, <2>2 DEF Shows, S
<1>13. /\ by \in Seq(ToSet(query.columns)) /\ Len(by) \in Nat /\ DOMAIN by = 1..Len(by)
       /\ \A k \in 1..Len(by) : by[k] \in ToSet(query.columns)
  BY ListShape
<1> DEFINE n == Len(by)
<1>14. keys = [k \in 1..n |-> OutputPosition(by[k])]
  BY <1>13 DEF keys, OutputKeys
<1>15. keys # <<>> /\ \A k \in 1..n : OutputPosition(by[k]) # 0
  <2>1. keys # <<>> /\ 0 \notin ToSet(keys)
    BY DEF KeysFound, keys
  <2> HIDE DEF n, by
  <2>2. QED
    BY <1>14, <2>1 DEF ToSet
<1>16. by # <<>>
  <2> SUFFICES ASSUME by = <<>> PROVE FALSE
    OBVIOUS
  <2>1. n = 0
    OBVIOUS
  <2> HIDE DEF n, by
  <2>2. 1..n = {}
    BY <2>1
  <2>3. DOMAIN keys = {}
    BY <1>14, <2>2
  <2>4. keys = [k \in {} |-> keys[k]]
    BY <1>14, <2>2
  <2>5. keys = <<>>
    BY <2>3, <2>4, EmptyFunction
  <2>6. QED
    BY <1>15, <2>5
<1>17. SortedBy(query, by, T)
  <2> DEFINE other == [k \in DOMAIN by |-> ColumnPosition(query, by[k])]
  <2> SUFFICES ASSUME NEW i \in 1..N, NEW j \in 1..N, i < j PROVE ~Below(T[j], T[i], other)
    <3>1. DOMAIN T = 1..N
      <4> HIDE DEF by
      <4>1. QED
        BY <1>10
    <3>2. QED
      BY <3>1 DEF SortedBy
  <2>1. \A k \in 1..n : /\ keys[k] \in 1..l /\ L[keys[k]].name = by[k].name
                        /\ other[k] \in 1..l /\ L[other[k]].name = by[k].name
    <3> TAKE k \in 1..n
    <3>1. ~(Aggregating(query) /\ DOMAIN groups = {})
      <4> SUFFICES ASSUME Aggregating(query), DOMAIN groups = {} PROVE FALSE
        OBVIOUS
      <4>1. N = 0
        BY DEF N
      <4>2. QED
        BY <4>1
    <3>2. keys[k] = OutputPosition(by[k]) /\ other[k] = ColumnPosition(query, by[k])
      BY <1>13, <1>14
    <3>3. by[k] \in ToSet(query.columns) /\ OutputPosition(by[k]) # 0
      BY <1>13, <1>15
    <3> DEFINE x == by[k]
    <3> HIDE DEF by
    <3>4. /\ ColumnPosition(query, x) \in 1..l
          /\ L[ColumnPosition(query, x)].name = x.name
          /\ \/ Aggregating(query) /\ DOMAIN groups = {}
             \/ /\ OutputPosition(x) \in 1..l
                /\ L[OutputPosition(x)].name = x.name
      <4> HIDE DEF x
      <4>1. x \in ToSet(query.columns) /\ OutputPosition(x) # 0
        BY <3>3 DEF x
      <4>2. QED
        BY <4>1, PositionMeans
    <3>5. QED
      BY <3>1, <3>2, <3>4
  <2>2. \A k \in 1..n, x \in 1..N : T[x][keys[k]] = T[x][other[k]]
    <3> TAKE k \in 1..n, x \in 1..N
    <3>1. \/ l = 0
          \/ \E y \in 1..Len(rows) : \A c \in 1..l : T[x][c] = rows[y][L[c].name]
      <4>1. T \in Seq(Seq(Literal)) /\ x \in 1..Len(T)
        BY <1>10 DEF S
      <4> HIDE DEF other, by, n
      <4>2. RowsAre(query, rows, T)
        BY <1>10
      <4>3. LeadingCells(query, rows, T[x])
        BY <4>1, <4>2, CellsAre
      <4>4. QED
        BY <4>3 DEF LeadingCells
    <3> HIDE DEF l, L, other, by, n
    <3>2. keys[k] \in 1..l /\ other[k] \in 1..l /\ L[keys[k]].name = L[other[k]].name
      BY <2>1
    <3>3. l # 0
      BY <3>2
    <3>4. QED
      BY <3>1, <3>2, <3>3
  <2>3. n \in Nat /\ DOMAIN keys = 1..n /\ DOMAIN other = 1..n
    BY <1>13, <1>14
  <2>4. ~Below(T[j], T[i], keys)
    BY <1>5, <1>8, <1>11
  <2> HIDE DEF other, n
  <2>5. QED
    BY <2>2, <2>3, <2>4, SameBelow
<1>18. QED
  BY <1>10, <1>12, <1>16, <1>17 DEF W, N

LEMMA PlainShown ==
    ASSUME NEW schema, IsQuery(schema, query), ~Aggregating(query),
           NEW rows \in Seq(Row(schema)), ColumnsAre(values, query, rows)
    PROVE  /\ Shows(PlainOutput, Len(ToRead(query)), PlainRows(query, rows))
           /\ RowsAre(query, rows, PlainRows(query, rows))
<1> DEFINE C == query.columns
           W == Len(C)
           N == Len(rows)
           R == PlainRows(query, rows)
           S == Seq(Literal)
<1>1. /\ DOMAIN PlainOutput = 1..W /\ Len(ToRead(query)) = W
      /\ \A c \in 1..W : PlainOutput[c] = Named("", "", C[c].name, values[c])
  BY PlainIs
<1>2. /\ N \in Nat /\ R \in Seq(S) /\ Len(R) = N
      /\ \A i \in 1..N : Len(R[i]) = W
      /\ \A i \in 1..N, c \in 1..W : R[i][c] = rows[i][C[c].name]
  <2>1. N \in Nat /\ R \in Seq(S) /\ Len(R) = N
    BY PlainShape
  <2>2. \A i \in 1..N : Len(R[i]) = W
    <3>1. \A i \in 1..N : Len(R[i]) = Len(ToRead(query))
      BY PlainWidth
    <3>2. QED
      BY <1>1, <3>1
  <2>3. \A i \in 1..N, c \in 1..W : R[i][c] = rows[i][C[c].name]
    BY PlainShape
  <2>4. QED
    BY <2>1, <2>2, <2>3
<1>3. \A c \in 1..W : values[c] = [i \in 1..N |-> rows[i][C[c].name]]
  BY DEF ColumnsAre
<1> HIDE DEF R, S, W, N
<1>4. Shows(PlainOutput, W, R)
  <2>1. \A c \in 1..W : PlainOutput[c].data = [i \in 1..N |-> R[i][c]]
    <3> TAKE c \in 1..W
    <3> DEFINE none == ""
               o == PlainOutput[c]
               d == values[c]
               name == C[c].name
    <3>1. o = Named(none, none, name, d)
      BY <1>1
    <3> HIDE DEF none, o
    <3>2. o.data = d
      BY <3>1, NamedFields
    <3>3. d = [i \in 1..N |-> R[i][c]]
      <4>1. d = [i \in 1..N |-> rows[i][C[c].name]]
        BY <1>3
      <4>2. \A i \in 1..N : R[i][c] = rows[i][C[c].name]
        BY <1>2
      <4> HIDE DEF d
      <4>3. QED
        BY <4>1, <4>2
    <3>4. QED
      BY <3>2, <3>3 DEF o
  <2>2. QED
    BY <1>2, <2>1 DEF Shows, S
<1>5. RowsAre(query, rows, R)
  <2> DEFINE p == [i \in 1..N |-> i]
  <2>1. p \in Orders(N)
    BY DEF Orders
  <2>2. R = [i \in 1..N |-> R[p[i]]]
    <3>1. R = [i \in 1..N |-> R[i]]
      <4> HIDE DEF p
      <4>1. QED
        BY <1>2
    <3>2. \A i \in 1..N : R[i] = R[p[i]]
      OBVIOUS
    <3> HIDE DEF p
    <3>3. QED
      BY <3>1, <3>2
  <2> HIDE DEF p
  <2>3. QED
    BY <2>1, <2>2 DEF RowsAre, N, R
<1>6. QED
  BY <1>1, <1>4, <1>5 DEF R

LEMMA GroupedShown ==
    ASSUME NEW schema, IsQuery(schema, query), Aggregating(query),
           NEW rows \in Seq(Row(schema)), GroupsAre(groups, query, rows),
           NEW arrangement \in Arrangements(DOMAIN groups)
    PROVE  \E R : /\ Shows(GroupedOutput(arrangement), Len(ToRead(query)), R)
                  /\ RowsAre(query, rows, R) /\ (DOMAIN groups = {} => R = <<>>)
<1> DEFINE s == arrangement
           K == GroupKeys(query, rows)
           n == Cardinality(K)
           g == Len(query.group_by)
           A == query.aggregates
           m == Len(A)
           S == Seq(Literal)
           o == GroupedOutput(s)
           W == Len(ToRead(query))
           R == [x \in 1..n |-> GroupRow(query, rows, s[x])]
<1>1. DOMAIN groups = K
  BY DEF GroupsAre
<1>2. s \in Arrangements(K)
  BY <1>1
<1>3. /\ n \in Nat /\ DOMAIN s = 1..n /\ \A x \in 1..n : s[x] \in K
      /\ R \in Arrangements(GroupRows(query, rows))
  <2> HIDE DEF s
  <2>1. n = Cardinality(GroupKeys(query, rows))
    OBVIOUS
  <2> HIDE DEF n
  <2>2. QED
    BY <1>2, <2>1, RowsArranged
<1>4. g \in Nat /\ m \in Nat
  BY QueryShape
<1>5. DOMAIN o = 1..(g + m) /\ W = g + m
  BY GroupedIs
<1>6. \A c \in 1..g : o[c] = Named("", "", query.group_by[c].name, [x \in DOMAIN s |-> s[x][c]])
  BY GroupedIs
<1>7. \A a \in 1..m : \E alias, fn : o[g + a] =
         Named(alias, fn, A[a].name, [x \in DOMAIN s |-> Final(A[a].fn, groups[s[x]][a])])
  <2>1. \A a \in 1..m : o[g + a] =
           Named(A[a].alias, IF DOMAIN groups = {} THEN "" ELSE A[a].fn, A[a].name,
                 [x \in DOMAIN s |-> Final(A[a].fn, groups[s[x]][a])])
    BY GroupedIs
  <2> HIDE DEF o, s, g, m, A
  <2>2. QED
    BY <2>1
<1>8. \A x \in 1..n : R[x] = GroupRow(query, rows, s[x])
  OBVIOUS
<1>9. R = [x \in 1..n |-> R[x]] /\ DOMAIN R = 1..n
  OBVIOUS
<1> HIDE DEF R, s, n, K, o
<1>10. ASSUME NEW x \in 1..n
       PROVE  /\ R[x] \in S /\ Len(R[x]) = W
              /\ \A c \in 1..g : R[x][c] = s[x][c]
              /\ \A a \in 1..m : R[x][g + a] = Final(A[a].fn, groups[s[x]][a])
  <2> DEFINE key == s[x]
  <2>1. key \in GroupKeys(query, rows)
    BY <1>3 DEF K
  <2>2. R[x] = GroupRow(query, rows, key)
    BY <1>8
  <2> HIDE DEF key
  <2>3. /\ GroupRow(query, rows, key) \in Seq(Literal)
        /\ Len(GroupRow(query, rows, key)) = Len(ToRead(query))
    BY <2>1, GroupRowShape
  <2>4. \A c \in 1..g : GroupRow(query, rows, key)[c] = key[c]
    BY <2>1, GroupRowShape
  <2>5. \A a \in 1..m : GroupRow(query, rows, key)[g + a] = Final(A[a].fn, groups[key][a])
    BY <2>1, GroupRowShape
  <2>6. QED
    BY <2>2, <2>3, <2>4, <2>5 DEF key
<1> HIDE DEF S, g, m, A, W
<1>11. R \in Seq(S) /\ Len(R) = n
  BY <1>3, <1>9, <1>10, IsSeqOf
<1>12. \A c \in 1..g : o[c].data = [x \in 1..n |-> R[x][c]]
  <2> TAKE c \in 1..g
  <2> DEFINE none == ""
             d == [x \in DOMAIN s |-> s[x][c]]
             name == query.group_by[c].name
  <2>1. o[c] = Named(none, none, name, d)
    BY <1>6
  <2>2. d = [x \in 1..n |-> R[x][c]]
    BY <1>3, <1>10
  <2> HIDE DEF none, d, name
  <2>3. o[c].data = d
    BY <2>1, NamedFields
  <2>4. QED
    BY <2>2, <2>3
<1>13. \A a \in 1..m : o[g + a].data = [x \in 1..n |-> R[x][g + a]]
  <2> TAKE a \in 1..m
  <2> DEFINE d == [x \in DOMAIN s |-> Final(A[a].fn, groups[s[x]][a])]
             name == A[a].name
  <2>1. PICK alias, fn : o[g + a] = Named(alias, fn, name, d)
    BY <1>7
  <2>2. d = [x \in 1..n |-> R[x][g + a]]
    BY <1>3, <1>10
  <2> HIDE DEF d, name
  <2>3. o[g + a].data = d
    BY <2>1, NamedFields
  <2>4. QED
    BY <2>2, <2>3
<1>14. \A c \in 1..(g + m) : o[c].data = [x \in 1..n |-> R[x][c]]
  <2> TAKE c \in 1..(g + m)
  <2>1. CASE c \in 1..g
    BY <1>12, <2>1
  <2>2. CASE c \notin 1..g
    <3> DEFINE a == c - g
    <3>1. a \in 1..m /\ g + a = c
      BY <1>4, <2>2
    <3> HIDE DEF a
    <3>2. o[g + a].data = [x \in 1..n |-> R[x][g + a]]
      BY <1>13, <3>1
    <3>3. QED
      BY <3>1, <3>2
  <2>3. QED
    BY <2>1, <2>2
<1>15. Shows(o, W, R)
  BY <1>5, <1>10, <1>11, <1>14 DEF Shows, S
<1>16. RowsAre(query, rows, R)
  BY <1>3 DEF RowsAre
<1>17. ASSUME DOMAIN groups = {} PROVE R = <<>>
  <2>1. n = 0
    BY <1>1, <1>17, FS_EmptySet DEF n
  <2>2. Len(R) = 0
    BY <1>11, <2>1
  <2>3. QED
    BY <1>11, <2>2
<1>18. QED
  BY <1>15, <1>16, <1>17 DEF o, W, s

LEMMA KeptIsRows ==
    ASSUME Stored, Counters
    PROVE  Kept \in Seq(Row(table.schema))
<1> DEFINE R == Row(table.schema)
           meant == Meant(table.schema, query)
           N == Len(ChunksOf(parts))
<1>1. parts \in Seq(Seq(R))
  BY DEF Stored
<1> HIDE DEF R, meant
<1>2. N \in Nat
  BY <1>1, ChunkTyped
<1>3. read \in 0..N
  BY DEF Counters
<1> HIDE DEF N
<1>4. read \in Nat /\ read <= N
  BY <1>2, <1>3
<1>5. read <= Len(ChunksOf(parts))
  BY <1>4 DEF N
<1>6. KeptUpTo(parts, read, meant) \in Seq(R)
  BY <1>1, <1>4, <1>5, ChunksKept
<1>7. QED
  BY <1>6 DEF Kept, meant, R

(* The answer shows the rows kept, from the end of the scan to the last    *)
(* ORDER BY list.                                                          *)
LEMMA ShownKept ==
    ASSUME Stored, Phases, Counters, Collected, Headed, Shown, [Next]_vars
    PROVE  Shown'
<1>1. CASE Finalize
  <2>1. /\ pc = "scan" /\ pc' = "order" /\ table' = table /\ parts' = parts /\ query' = query
        /\ read' = read /\ groups' = groups /\ ordered' = ordered /\ ordered = 0
        /\ IF Aggregating(query)
           THEN \E arrangement \in Arrangements(DOMAIN groups) :
                   output' = GroupedOutput(arrangement)
           ELSE output' = PlainOutput
    <3>1. pc = "scan"
      BY <1>1 DEF Finalize
    <3>2. ordered = 0
      BY <3>1 DEF Shown
    <3>3. QED
      BY <1>1, <3>2 DEF Finalize, tableVars
  <2>2. IsQuery(table.schema, query)
    BY <2>1 DEF Phases
  <2>3. Kept' = Kept
    BY <2>1 DEF Kept
  <2>4. ordered' \in 0..Len(query'.order_by)
    <3> DEFINE SEQ == Seq(ToSet(query.columns))
               O == query.order_by
    <3>1. O \in Seq(SEQ)
      BY <2>2 DEF IsQuery
    <3> HIDE DEF SEQ, O
    <3>2. Len(O) \in Nat
      BY <3>1
    <3> DEFINE m == Len(O)
    <3> HIDE DEF m
    <3>3. 0 \in 0..m
      BY <3>2 DEF m
    <3>4. QED
      BY <2>1, <3>3 DEF m, O
  <2>5. ASSUME Aligned(table.schema, query) PROVE \E R : OutputIs(R)'
    <3> DEFINE rows == Kept
    <3>1. rows \in Seq(Row(table.schema))
      BY KeptIsRows
    <3>2. /\ ~Aggregating(query) => ColumnsAre(values, query, rows)
          /\ Aggregating(query) => GroupsAre(groups, query, rows)
      BY <2>1, <2>5 DEF Collected
    <3> HIDE DEF rows
    <3>3. CASE ~Aggregating(query)
      <4> DEFINE R == PlainRows(query, rows)
      <4>1. Shows(PlainOutput, Len(ToRead(query)), R) /\ RowsAre(query, rows, R)
        BY <2>2, <3>1, <3>2, <3>3, PlainShown
      <4>2. output' = PlainOutput
        BY <2>1, <3>3
      <4> HIDE DEF R
      <4>3. OutputIs(R)'
        BY <2>1, <2>3, <3>3, <4>1, <4>2 DEF OutputIs, rows, R
      <4>4. QED
        BY <4>3
    <3>4. CASE Aggregating(query)
      <4>1. PICK arrangement \in Arrangements(DOMAIN groups) : output' = GroupedOutput(arrangement)
        BY <2>1, <3>4
      <4>2. PICK R : /\ Shows(GroupedOutput(arrangement), Len(ToRead(query)), R)
                     /\ RowsAre(query, rows, R) /\ (DOMAIN groups = {} => R = <<>>)
        BY <2>2, <3>1, <3>2, <3>4, GroupedShown
      <4>3. OutputIs(R)'
        BY <2>1, <2>3, <3>4, <4>1, <4>2 DEF OutputIs, rows
      <4>4. QED
        BY <4>3
    <3>5. QED
      BY <3>3, <3>4
  <2>6. QED
    BY <2>1, <2>4, <2>5 DEF Shown
<1>2. CASE OrderOnce
  <2> DEFINE m == Len(query.order_by)
  <2>1. /\ pc = "order" /\ pc' = pc /\ table' = table /\ parts' = parts /\ query' = query
        /\ read' = read /\ groups' = groups /\ ordered' = ordered + 1
        /\ Ordering /\ KeysFound /\ ordered < m
    BY <1>2 DEF OrderOnce, Ordering, tableVars
  <2>2. PICK result \in MergeTreeResults(OutputData, OutputKeys) :
           output' = [c \in DOMAIN output |-> [output[c] EXCEPT !.data = result[c]]]
    BY <1>2 DEF OrderOnce
  <2>3. IsQuery(table.schema, query)
    BY <2>1 DEF Phases
  <2>4. ordered \in 0..m /\ m \in Nat
    <3> DEFINE SEQ == Seq(ToSet(query.columns))
               O == query.order_by
    <3>1. O \in Seq(SEQ)
      BY <2>3 DEF IsQuery
    <3> HIDE DEF SEQ, O
    <3>2. Len(O) \in Nat
      BY <3>1
    <3>3. QED
      BY <2>1, <3>2 DEF Shown, O
  <2> HIDE DEF m
  <2>5. ordered + 1 \in 1..m /\ ordered + 1 # 0 /\ ordered + 1 \in 0..m
    BY <2>1, <2>4
  <2>6. Kept' = Kept
    BY <2>1 DEF Kept
  <2>7. ASSUME Aligned(table.schema, query) PROVE \E R : OutputIs(R)'
    <3> DEFINE rows == Kept
    <3>1. rows \in Seq(Row(table.schema))
      BY KeptIsRows
    <3>2. PICK R : OutputIs(R)
      BY <2>1, <2>7 DEF Shown
    <3>3. /\ Shows(output, Len(ToRead(query)), R) /\ RowsAre(query, rows, R)
          /\ DOMAIN groups = {} /\ Aggregating(query) => R = <<>>
      BY <3>2 DEF OutputIs
    <3> HIDE DEF rows
    <3> DEFINE new == [c \in DOMAIN output |-> [output[c] EXCEPT !.data = result[c]]]
    <3>4. output' = new
      BY <2>2
    <3>5. new = [c \in DOMAIN output |-> [output[c] EXCEPT !.data = result[c]]]
      OBVIOUS
    <3> HIDE DEF new
    <3>6. PICK T : /\ Shows(new, Len(ToRead(query)), T) /\ RowsAre(query, rows, T)
                   /\ Len(T) = Len(R) /\ query.order_by[ordered + 1] # <<>>
                   /\ SortedBy(query, query.order_by[ordered + 1], T)
      BY <2>1, <2>3, <2>5, <3>1, <3>3, <3>5, AnswerOrdered DEF m
    <3>7. DOMAIN groups = {} /\ Aggregating(query) => T = <<>>
      <4> SUFFICES ASSUME DOMAIN groups = {}, Aggregating(query) PROVE T = <<>>
        OBVIOUS
      <4>1. R = <<>>
        BY <3>3
      <4>2. Len(R) = 0
        BY <4>1
      <4> DEFINE S == Seq(Literal)
      <4>3. T \in Seq(S)
        BY <3>6 DEF Shows
      <4> HIDE DEF S
      <4>4. QED
        BY <3>6, <4>2, <4>3
    <3>8. OutputIs(T)'
      BY <2>1, <2>5, <2>6, <3>4, <3>6, <3>7 DEF OutputIs, rows
    <3>9. QED
      BY <3>8
  <2>8. QED
    BY <2>1, <2>5, <2>7 DEF Shown, m
<1>3. CASE UNCHANGED vars
  <2>1. /\ pc' = pc /\ table' = table /\ query' = query /\ parts' = parts /\ read' = read
        /\ groups' = groups /\ output' = output /\ ordered' = ordered
    BY <1>3 DEF vars, tableVars, selectVars
  <2>2. Kept' = Kept
    BY <2>1 DEF Kept
  <2>3. \A R : OutputIs(R) => OutputIs(R)'
    BY <2>1, <2>2 DEF OutputIs
  <2>4. QED
    BY <2>1, <2>3 DEF Shown
<1>4. CASE Next /\ ~Finalize /\ ~OrderOnce
  <2>1. pc' # "order"
    BY <1>4 DEF Next, CreateTable, CreateTableRefused, Insert, InsertRefused, InsertPanics,
                Select, SelectRefused, SelectPanics, ReadChunk, ReadPanics, AggregateFails, OrderFails,
                Answer, Reading
  <2>2. pc' = "scan" => ordered' = 0
    <3>1. CASE Select
      BY <3>1 DEF Select, Phases
    <3>2. CASE ReadChunk
      <4>1. pc = "scan" /\ ordered' = ordered
        BY <3>2 DEF ReadChunk, Reading
      <4>2. QED
        BY <4>1 DEF Shown
    <3>3. CASE ~Select /\ ~ReadChunk
      <4>1. pc' # "scan"
        BY <1>4, <3>3 DEF Next, CreateTable, CreateTableRefused, Insert, InsertRefused,
                    InsertPanics, SelectRefused, SelectPanics, ReadPanics, AggregateFails,
                    OrderFails, Answer, Reading, Ordering
      <4>2. QED
        BY <4>1
    <3>4. QED
      BY <3>1, <3>2, <3>3
  <2>3. QED
    BY <2>1, <2>2 DEF Shown
<1>5. QED
  BY <1>1, <1>2, <1>3, <1>4

-----------------------------------------------------------------------------
(* Panics *)

(* Two values of a column are comparable unless it may hold NULL.          *)
LEMMA NamedCompare ==
    ASSUME Created, NEW name \in Names(table.schema),
           NEW r \in Row(table.schema), NEW s \in Row(table.schema),
           ~Comparable(r[name], s[name])
    PROVE  MayBeNull(name)
<1> DEFINE schema == table.schema
           i == IndexOf(schema, name)
           c == schema[i]
           x == r[name]
           y == s[name]
<1>1. IsSchema(schema)
  BY CreatedIs
<1>2. i \in 1..Len(schema) /\ c.name = name
  <2>1. name \in Names(schema)
    OBVIOUS
  <2> HIDE DEF schema
  <2>2. QED
    BY <1>1, <2>1, SchemaNames
<1>3. Fits(c, x) /\ Fits(c, y)
  <2>1. (\A k \in 1..Len(schema) : Fits(schema[k], r[schema[k].name]))
        /\ \A k \in 1..Len(schema) : Fits(schema[k], s[schema[k].name])
    BY DEF Row
  <2> HIDE DEF schema, i
  <2>2. QED
    BY <1>2, <2>1
<1>4. x.type # y.type
  BY DEF Comparable
<1> HIDE DEF x, y, c
<1>5. c.nullable \/ c.default = {Null}
  BY <1>3, <1>4 DEF Fits
<1>6. QED
  BY <1>5 DEF MayBeNull, Column, c

LEMMA OrderPanicsOnNull ==
    ASSUME Stored, Phases, Counters, Headed, Shown, pc = "order", FilterAligned,
           Ordering, KeysFound, OrderPanics(OutputData, OutputKeys)
    PROVE  \E p \in ToSet(query.order_by[ordered + 1]) : MayBeNull(p.name)
<1> DEFINE schema == table.schema
           rows == Kept
           W == Len(ToRead(query))
           by == query.order_by[ordered + 1]
           L == Leading(query)
           l == Len(L)
           cols == OutputData
           keys == OutputKeys
           S == Seq(Literal)
<1>1. IsQuery(schema, query) /\ Created
  BY DEF Phases
<1>2. rows \in Seq(Row(schema))
  BY KeptIsRows
<1>3. PICK R : OutputIs(R)
  BY FilterAlignedIs DEF Shown
<1>4. /\ Shows(output, W, R) /\ RowsAre(query, rows, R)
      /\ DOMAIN groups = {} /\ Aggregating(query) => R = <<>>
  BY <1>3 DEF OutputIs
<1> DEFINE N == Len(R)
<1>5. W \in Nat \ {0}
  <2>1. Reads(schema, query, ToRead(query))
    BY <1>1, ToReadShape
  <2>2. QED
    BY <2>1 DEF Reads
<1>6. DOMAIN output = 1..W
  BY DEF Headed
<1>7. RowCount(cols) = N /\ \A i \in 1..N : RowAt(cols, i) = R[i]
  <2>1. cols = DataOf(output)
    BY DEF OutputData, DataOf
  <2> HIDE DEF W, N, cols
  <2>2. RowCount(DataOf(output)) = Len(R)
    BY <1>4, <1>5, <1>6, ShownData
  <2>3. \A i \in 1..Len(R) : RowAt(DataOf(output), i) = R[i]
    BY <1>4, <1>5, <1>6, ShownData
  <2>4. QED
    BY <2>1, <2>2, <2>3 DEF N
<1>8. R \in Seq(S)
  BY <1>4 DEF Shows
<1>9. ordered + 1 \in 1..Len(query.order_by)
  <2> DEFINE SEQ == Seq(ToSet(query.columns))
             O == query.order_by
             m == Len(O)
  <2>1. O \in Seq(SEQ)
    BY <1>1 DEF IsQuery
  <2> HIDE DEF SEQ, O
  <2>2. m \in Nat
    BY <2>1
  <2>3. ordered \in 0..m /\ ordered < m
    BY DEF Shown, Ordering, O
  <2> HIDE DEF m
  <2>4. ordered + 1 \in 1..m
    BY <2>2, <2>3
  <2>5. QED
    BY <2>4 DEF m, O
<1>10. /\ Len(by) \in Nat /\ DOMAIN by = 1..Len(by)
       /\ \A k \in 1..Len(by) : by[k] \in ToSet(query.columns)
  BY <1>1, <1>9, ListShape
<1> DEFINE n == Len(by)
<1>11. keys = [k \in 1..n |-> OutputPosition(by[k])]
  BY <1>10 DEF OutputKeys
<1>12. \A k \in 1..n : OutputPosition(by[k]) # 0
  <2>1. 0 \notin ToSet(keys)
    BY DEF KeysFound
  <2> HIDE DEF n, by, keys
  <2>2. QED
    BY <1>11, <2>1 DEF ToSet
<1>13. OrderPanics(cols, keys)
  OBVIOUS
<1> HIDE DEF cols, keys, N, S, W, schema, rows
<1>14. DOMAIN keys = 1..n
  BY <1>11
<1>a. PICK i \in 1..N, j \in 1..N, k \in 1..n : ~Comparable(R[i][keys[k]], R[j][keys[k]])
  BY <1>7, <1>13, <1>14 DEF OrderPanics
<1> DEFINE x == by[k]
           at == keys[k]
<1>15. at = OutputPosition(x) /\ x \in ToSet(query.columns) /\ at # 0
  BY <1>10, <1>11, <1>12
<1>16. x \in ToSet(by)
  BY <1>10 DEF ToSet
<1>17. ~(Aggregating(query) /\ DOMAIN groups = {})
  <2> SUFFICES ASSUME Aggregating(query), DOMAIN groups = {} PROVE FALSE
    OBVIOUS
  <2>1. R = <<>>
    BY <1>4
  <2>2. N = 0
    BY <2>1 DEF N
  <2>3. QED
    BY <2>2
<1> HIDE DEF x, at, by, n
<1>18. /\ at \in 1..Len(Leading(query)) /\ Leading(query)[at].name = x.name
  <2>1. OutputPosition(x) # 0
    BY <1>15
  <2>2. \/ Aggregating(query) /\ DOMAIN groups = {}
        \/ /\ OutputPosition(x) \in 1..Len(Leading(query))
           /\ Leading(query)[OutputPosition(x)].name = x.name
    BY <1>1, <1>15, <2>1, PositionMeans
  <2>3. QED
    BY <1>15, <1>17, <2>2
<1>19. R \in Seq(Seq(Literal)) /\ i \in 1..Len(R) /\ j \in 1..Len(R)
  BY <1>8 DEF S, N
<1>20. LeadingCells(query, rows, R[i]) /\ LeadingCells(query, rows, R[j])
  <2>1. LeadingCells(query, rows, R[i])
    BY <1>1, <1>2, <1>4, <1>19, CellsAre
  <2>2. LeadingCells(query, rows, R[j])
    BY <1>1, <1>2, <1>4, <1>19, CellsAre
  <2>3. QED
    BY <2>1, <2>2
<1> HIDE DEF L, l
<1>b. PICK y \in 1..Len(rows) : R[i][at] = rows[y][x.name]
  BY <1>18, <1>20 DEF LeadingCells
<1>c. PICK z \in 1..Len(rows) : R[j][at] = rows[z][x.name]
  BY <1>18, <1>20 DEF LeadingCells
<1>21. rows[y] \in Row(schema) /\ rows[z] \in Row(schema)
  <2> DEFINE T == Row(schema)
  <2> HIDE DEF T
  <2>1. rows \in Seq(T)
    BY <1>2 DEF T
  <2>2. rows[y] \in T /\ rows[z] \in T
    BY <2>1
  <2>3. QED
    BY <2>2 DEF T
<1>22. x.name \in Names(schema)
  <2>1. \A c \in 1..Len(Leading(query)) : Leading(query)[c].name \in Names(schema)
    BY <1>1, QueryShape
  <2>2. QED
    BY <1>18, <2>1
<1>23. ~Comparable(rows[y][x.name], rows[z][x.name])
  BY <1>a, <1>b, <1>c DEF at
<1>24. MayBeNull(x.name)
  BY <1>1, <1>21, <1>22, <1>23, NamedCompare DEF schema
<1>25. QED
  BY <1>16, <1>24 DEF by

LEMMA OrderPanickedKept ==
    ASSUME Stored, Phases, Counters, Headed, Shown, OrderPanicked, [Next]_vars
    PROVE  OrderPanicked'
<1> SUFFICES ASSUME pc' = "done", outcome' = "panic"
             PROVE  \/ ~StrategyFits(query)'
                    \/ ~FilterAligned'
                    \/ \E p \in ToSet(query'.order_by[ordered' + 1]) : MayBeNull(p.name)'
  BY DEF OrderPanicked
<1>1. CASE ReadPanics
  <2>1. table' = table /\ query' = query
    BY <1>1 DEF ReadPanics, tableVars, selectVars
  <2>2. ~FilterAligned
    BY <1>1 DEF ReadPanics, FilterInBuffer, FilterAligned
  <2>3. QED
    BY <2>1, <2>2 DEF FilterAligned, CompiledWhere
<1>2. CASE OrderFails
  <2>1. /\ table' = table /\ query' = query /\ ordered' = ordered /\ pc = "order" /\ Ordering
        /\ KeysFound /\ OrderPanics(OutputData, OutputKeys)
    BY <1>2 DEF OrderFails, Ordering, tableVars, selectVars
  <2>2. FilterAligned => \E p \in ToSet(query.order_by[ordered + 1]) : MayBeNull(p.name)
    BY <2>1, OrderPanicsOnNull
  <2>3. QED
    BY <2>1, <2>2 DEF FilterAligned, CompiledWhere, MayBeNull
<1>3. CASE UNCHANGED vars
  <2>1. /\ table' = table /\ query' = query /\ ordered' = ordered /\ pc' = pc /\ outcome' = outcome
        /\ parts' = parts
    BY <1>3 DEF vars, tableVars, selectVars
  <2>2. StrategyFits(query)' = StrategyFits(query)
    BY <2>1 DEF StrategyFits, Total
  <2>3. QED
    BY <2>1, <2>2 DEF OrderPanicked, FilterAligned, CompiledWhere, MayBeNull
<1>4. CASE SelectPanics
  <2>1. PICK select \in Selects(table.schema) :
          /\ ~StrategyFits(SelectNode(table.schema, select))
          /\ query' = SelectNode(table.schema, select)
    BY <1>4 DEF SelectPanics
  <2>2. parts' = parts
    BY <1>4 DEF SelectPanics, tableVars
  <2> DEFINE node == SelectNode(table.schema, select)
  <2> HIDE DEF node
  <2>3. ~StrategyFits(node) /\ query' = node
    BY <2>1 DEF node
  <2>4. ~StrategyFits(query)'
    BY <2>2, <2>3 DEF StrategyFits, Total
  <2>5. QED
    BY <2>4
<1>5. CASE Next /\ ~SelectPanics /\ ~ReadPanics /\ ~OrderFails
  <2>1. CASE Answer
    <3>1. outcome' = outcome /\ pc = "order"
      BY <2>1 DEF Answer
    <3>2. QED
      BY <3>1 DEF Phases
  <2>2. CASE ~Answer
    BY <1>5, <2>2 DEF Next, CreateTable, CreateTableRefused, Insert, InsertRefused,
                InsertPanics, Select, SelectRefused, ReadChunk, AggregateFails,
                Finalize, OrderOnce, Reading, Ordering
  <2>3. QED
    BY <2>1, <2>2
<1>6. QED
  BY <1>1, <1>2, <1>3, <1>4, <1>5

(* What holds of a SELECT's rows in every state.                           *)
AnswerInv == Collected /\ Finished /\ Headed /\ Shown

(* From the scan to the answer, the rows collected, grouped and ordered    *)
(* are those that WHERE keeps of the chunks read, whatever was inserted.   *)
THEOREM AnswerIsInvariant == Spec => [](StoreInv /\ AnswerInv)
<1>1. Init => AnswerInv
  <2> SUFFICES ASSUME Init PROVE AnswerInv
    OBVIOUS
  <2>1. pc = "create" /\ ~Answered
    BY DEF Init, Answered
  <2>2. QED
    BY <2>1 DEF AnswerInv, Collected, Finished, Headed, Shown
<1>2. StoreInv /\ AnswerInv /\ [Next]_vars => AnswerInv'
  <2> SUFFICES ASSUME StoreInv, AnswerInv, [Next]_vars PROVE AnswerInv'
    OBVIOUS
  <2>1. Stored /\ Phases /\ Counters /\ Collected /\ Finished /\ Headed /\ Shown
    BY DEF StoreInv, AnswerInv
  <2>2. Collected'
    BY <2>1, CollectedKept
  <2>3. Finished'
    BY <2>1, FinishedKept
  <2>4. Headed'
    BY <2>1, HeadedKept
  <2>5. Shown'
    BY <2>1, ShownKept
  <2>6. QED
    BY <2>2, <2>3, <2>4, <2>5 DEF AnswerInv
<1>3. QED
  BY <1>1, <1>2, StoreIsInvariant, PTL DEF Spec

(* An INSERT panics only where an ORDER BY column may hold NULL; a SELECT  *)
(* of columns and aggregates only there, where OFFSET overflows the lines  *)
(* to read, or where WHERE finds another column than it looks for:        *)
(* no other value that the planner lets into a table or an answer is ever  *)
(* found not to be comparable.  (MergeTreeEngine::order_columns,           *)
(* Strategy::new, get_granule_mask)                                        *)
THEOREM PanicsAreExplained == Spec => []PanicsExplained
<1>1. Init => OrderPanicked
  BY DEF Init, OrderPanicked
<1>2. StoreInv /\ AnswerInv /\ OrderPanicked /\ [Next]_vars => OrderPanicked'
  BY OrderPanickedKept DEF StoreInv, AnswerInv
<1>3. StoreInv /\ OrderPanicked => PanicsExplained
  BY DEF StoreInv, InsertPanicked, OrderPanicked, PanicsExplained
<1>4. QED
  BY <1>1, <1>2, <1>3, AnswerIsInvariant, PTL DEF Spec

-----------------------------------------------------------------------------
(* OFFSET and LIMIT *)

Skipped(q, n) == Least(q.offset, n)
Cut(q, n) == IF q.limit = NoLimit THEN n - Skipped(q, n) ELSE Least(q.limit, n - Skipped(q, n))
HasWindow(q) == q.offset \in Nat /\ q.limit \in Nat \cup {NoLimit}

LEMMA CutIs ==
    ASSUME NEW q, HasWindow(q), NEW n \in Nat
    PROVE  /\ Skipped(q, n) \in Nat /\ Skipped(q, n) <= n /\ Cut(q, n) \in Nat
           /\ Skipped(q, n) + Cut(q, n) <= n
<1> DEFINE limit == q.limit
           offset == q.offset
<1>1. offset \in Nat /\ limit \in Nat \cup {-1}
  BY DEF HasWindow, NoLimit
<1>2. Skipped(q, n) = Least(offset, n)
      /\ Cut(q, n) = IF limit = -1 THEN n - Least(offset, n) ELSE Least(limit, n - Least(offset, n))
  BY DEF Skipped, Cut, NoLimit
<1> HIDE DEF limit, offset
<1>3. QED
  BY <1>1, <1>2 DEF Least

LEMMA PieceAt ==
    ASSUME NEW S, NEW s \in Seq(S), NEW a \in Nat, NEW b \in Nat, a + b <= Len(s)
    PROVE  /\ SubSeq(s, a + 1, a + b) \in Seq(S) /\ Len(SubSeq(s, a + 1, a + b)) = b
           /\ \A i \in 1..b : SubSeq(s, a + 1, a + b)[i] = s[a + i]
<1> DEFINE n == Len(s)
           t == SubSeq(s, a + 1, a + b)
<1>1. n \in Nat /\ a + b <= n /\ \A i \in 1..n : s[i] \in S
  OBVIOUS
<1>2. t = [i \in 1..b |-> s[a + i]]
  <2>1. t = [i \in 1..(1 + (a + b) - (a + 1)) |-> s[i + (a + 1) - 1]]
    OBVIOUS
  <2>2. 1 + (a + b) - (a + 1) = b /\ \A i \in 1..b : i + (a + 1) - 1 = a + i
    OBVIOUS
  <2> HIDE DEF t
  <2>3. QED
    BY <2>1, <2>2
<1> HIDE DEF n, t
<1>3. \A i \in 1..b : a + i \in 1..n
  BY <1>1
<1>4. DOMAIN t = 1..b /\ t = [i \in 1..b |-> t[i]] /\ \A i \in 1..b : t[i] = s[a + i] /\ t[i] \in S
  BY <1>1, <1>2, <1>3
<1>5. t \in Seq(S) /\ Len(t) = b
  BY <1>4, IsSeqOf
<1>6. QED
  BY <1>4, <1>5 DEF t

LEMMA WindowIs ==
    ASSUME NEW q, HasWindow(q), NEW S, NEW data \in Seq(S), NEW n, n = Len(data)
    PROVE  Window(q, data) = [i \in 1..Cut(q, n) |-> data[Skipped(q, n) + i]]
<1> DEFINE o == Skipped(q, n)
           k == Cut(q, n)
           rest == SubSeq(data, o + 1, o + (n - o))
<1>1. n \in Nat
  OBVIOUS
<1>2. o \in Nat /\ o <= n /\ k \in Nat /\ o + k <= n
  BY <1>1, CutIs
<1>3. Window(q, data) = IF q.limit = NoLimit THEN rest ELSE SubSeq(rest, 1, Least(q.limit, Len(rest)))
  <2> HIDE DEF o
  <2>1. o + (n - o) = n
    BY <1>1, <1>2
  <2>2. o = Least(q.offset, Len(data))
    BY DEF o, Skipped
  <2>3. Window(q, data) = IF q.limit = NoLimit THEN SubSeq(data, o + 1, n)
                          ELSE SubSeq(SubSeq(data, o + 1, n), 1, Least(q.limit, Len(SubSeq(data, o + 1, n))))
    BY <2>2 DEF Window
  <2>4. QED
    BY <2>1, <2>3
<1>4. k = IF q.limit = NoLimit THEN n - o ELSE Least(q.limit, n - o)
  BY DEF Cut
<1> HIDE DEF o, k
<1> DEFINE m == n - o
<1>5. m \in Nat /\ o + m <= n
  BY <1>1, <1>2
<1>6. rest = SubSeq(data, o + 1, o + m)
  OBVIOUS
<1> HIDE DEF rest, m
<1>7. rest \in Seq(S) /\ Len(rest) = m /\ \A i \in 1..m : rest[i] = data[o + i]
  BY <1>2, <1>5, <1>6, PieceAt
<1>8. IsList(rest, m)
  BY <1>7 DEF IsList
<1>9. CASE q.limit = NoLimit
  <2>1. k = m /\ Window(q, data) = rest
    BY <1>3, <1>4, <1>9 DEF m
  <2>2. rest = [i \in 1..m |-> data[o + i]]
    BY <1>7, <1>8 DEF IsList
  <2>3. QED
    BY <2>1, <2>2 DEF k, o
<1>10. CASE q.limit # NoLimit
  <2>1. k = Least(q.limit, m) /\ Window(q, data) = SubSeq(rest, 1, k)
    BY <1>3, <1>4, <1>7, <1>10 DEF m
  <2> DEFINE w == SubSeq(rest, 0 + 1, 0 + k)
  <2>2. Window(q, data) = w
    BY <1>2, <2>1
  <2>3. k <= m
    BY <1>2, <1>5 DEF m
  <2>4. w \in Seq(S) /\ Len(w) = k /\ \A i \in 1..k : w[i] = rest[0 + i]
    <3> HIDE DEF w
    <3>1. 0 \in Nat /\ 0 + k <= Len(rest)
      BY <1>2, <1>7, <2>3
    <3>2. QED
      BY <1>2, <1>7, <3>1, PieceAt DEF w
  <2>5. \A i \in 1..k : rest[0 + i] = data[o + i]
    BY <1>2, <1>5, <1>7, <2>3
  <2> HIDE DEF w
  <2>6. w = [i \in 1..k |-> w[i]]
    BY <2>4
  <2>7. w = [i \in 1..k |-> data[o + i]]
    BY <2>4, <2>5, <2>6
  <2>8. QED
    BY <2>2, <2>7 DEF k, o
<1>11. QED
  BY <1>9, <1>10

RowsIn(cols) == [i \in 1..RowCount(cols) |-> RowAt(cols, i)]
CutTo(q, out) == [c \in DOMAIN out |-> [out[c] EXCEPT !.data = Window(q, out[c].data)]]

(* Each column is cut as the rows are.                                     *)
LEMMA AnswerCut ==
    ASSUME NEW q, HasWindow(q), NEW out, NEW W \in Nat \ {0}, DOMAIN out = 1..W,
           \A c \in 1..W : out[c] = Named(out[c].alias, out[c].fn, out[c].name, out[c].data),
           NEW R, Shows(out, W, R)
    PROVE  RowsIn(DataOf(CutTo(q, out))) = Window(q, R)
<1> DEFINE N == Len(R)
           S == Seq(Literal)
           SEQ == Literal
           k == Cut(q, N)
           o == Skipped(q, N)
           new == CutTo(q, out)
           cols == DataOf(new)
<1>0. DOMAIN new = 1..W
      /\ \A c \in 1..W : new[c] = [out[c] EXCEPT !.data = Window(q, out[c].data)]
  BY DEF CutTo
<1> HIDE DEF new
<1>1. R \in Seq(S) /\ (\A i \in 1..N : Len(R[i]) = W)
      /\ \A c \in 1..W : out[c].data = [i \in 1..N |-> R[i][c]]
  BY DEF Shows
<1>2. \A i \in 1..N, c \in 1..W : R[i][c] \in SEQ
  BY ShownData
<1>3. N \in Nat /\ \A i \in 1..N : R[i] \in S
  <2> HIDE DEF S
  <2>1. QED
    BY <1>1
<1>4. k \in Nat /\ o \in Nat /\ o + k <= N
  BY <1>3, CutIs
<1>5. Window(q, R) = [i \in 1..k |-> R[o + i]]
  <2> HIDE DEF S
  <2>1. R \in Seq(S) /\ N = Len(R)
    BY <1>1
  <2> HIDE DEF N
  <2>2. Window(q, R) = [i \in 1..Cut(q, N) |-> R[Skipped(q, N) + i]]
    BY <2>1, WindowIs
  <2>3. QED
    BY <2>2
<1> HIDE DEF N, SEQ, k, o
<1>6. \A i \in 1..k : o + i \in 1..N
  BY <1>3, <1>4
<1>7. ASSUME NEW c \in 1..W PROVE new[c].data = [i \in 1..k |-> R[o + i][c]]
  <2> DEFINE d == out[c].data
             x == out[c]
             w == Window(q, d)
  <2>1. d = [i \in 1..N |-> R[i][c]]
    BY <1>1
  <2>2. x = Named(x.alias, x.fn, x.name, x.data)
    OBVIOUS
  <2>3. new[c] = [x EXCEPT !.data = w]
    BY <1>0
  <2> HIDE DEF w, x
  <2>4. new[c].data = w
    <3>1. new[c] = Named(x.alias, x.fn, x.name, w)
      BY <2>2, <2>3, NamedKeeps
    <3>2. QED
      BY <3>1, NamedFields
  <2> HIDE DEF d
  <2>5. DOMAIN d = 1..N /\ d = [i \in 1..N |-> d[i]] /\ \A i \in 1..N : d[i] = R[i][c] /\ d[i] \in SEQ
    BY <1>2, <2>1
  <2>6. d \in Seq(SEQ) /\ Len(d) = N
    BY <1>3, <2>5, IsSeqOf
  <2>7. w = [i \in 1..k |-> d[o + i]]
    BY <2>6, WindowIs DEF w, k, o
  <2>8. \A i \in 1..k : d[o + i] = R[o + i][c]
    BY <1>6, <2>5
  <2>9. QED
    BY <2>4, <2>7, <2>8
<1>8. DOMAIN cols = 1..W /\ \A c \in 1..W : cols[c] = [i \in 1..k |-> R[o + i][c]]
  BY <1>0, <1>7 DEF DataOf
<1> HIDE DEF cols
<1>9. RowCount(cols) = k
  <2> DEFINE f == cols[1]
  <2>0. 1 \in 1..W
    OBVIOUS
  <2>1. f = [i \in 1..k |-> R[o + i][1]]
    BY <1>8, <2>0
  <2> DEFINE T == {f[i] : i \in 1..k}
  <2> HIDE DEF f
  <2>2. DOMAIN f = 1..k /\ f = [i \in 1..k |-> f[i]] /\ \A i \in 1..k : f[i] \in T
    BY <2>1
  <2> HIDE DEF T
  <2>3. Len(f) = k
    BY <1>4, <2>2, IsSeqOf
  <2>4. QED
    BY <2>3 DEF RowCount, f
<1>10. ASSUME NEW i \in 1..k PROVE RowAt(cols, i) = R[o + i]
  <2> DEFINE r == R[o + i]
  <2>1. r \in Seq(SEQ) /\ Len(r) = W
    BY <1>1, <1>3, <1>6 DEF S, SEQ, N
  <2>2. \A c \in 1..W : cols[c][i] = r[c]
    BY <1>8
  <2> HIDE DEF r
  <2>3. RowAt(cols, i) = [c \in 1..W |-> r[c]]
    BY <1>8, <2>2 DEF RowAt
  <2>4. r = [c \in 1..W |-> r[c]]
    BY <2>1
  <2>5. QED
    BY <2>3, <2>4 DEF r
<1>11. QED
  BY <1>5, <1>9, <1>10 DEF cols, new, RowsIn

-----------------------------------------------------------------------------
(* The answer *)

LEMMA ListsCount ==
    ASSUME NEW schema, NEW q, IsQuery(schema, q)
    PROVE  /\ Len(q.order_by) \in Nat /\ q.order_by \in Seq(Seq(ToSet(q.columns)))
           /\ Len(q.order_by) = 0 <=> q.order_by = <<>>
           /\ q.order_by # <<>> => LastList(q) = q.order_by[Len(q.order_by)]
<1> DEFINE SEQ == Seq(ToSet(q.columns))
           O == q.order_by
<1>1. O \in Seq(SEQ)
  BY DEF IsQuery
<1> HIDE DEF SEQ, O
<1>2. Len(O) \in Nat /\ (Len(O) = 0 <=> O = <<>>)
  BY <1>1
<1>3. Last(O) = O[Len(O)]
  BY DEF Last
<1>4. QED
  BY <1>1, <1>2, <1>3 DEF LastList, O, SEQ

(* The rows shown are a result in SQL's sense, ordered by the last list.   *)
LEMMA ResultsAre ==
    ASSUME NEW schema, NEW q, IsQuery(schema, q), NEW rows \in Seq(Row(schema)), NEW R,
           RowsAre(q, rows, R), NEW n, n = Len(q.order_by),
           n = 0 /\ ~Aggregating(q) => R = PlainRows(q, rows),
           n # 0 => q.order_by[n] # <<>> /\ SortedBy(q, q.order_by[n], R)
    PROVE  R \in Results(q, rows, LastList(q))
<1> DEFINE by == LastList(q)
<1>1. /\ n = 0 <=> q.order_by = <<>>
      /\ n # 0 => by = q.order_by[n]
  BY ListsCount
<1>2. n = 0 => by = <<>>
  BY <1>1 DEF LastList
<1> HIDE DEF by
<1>3. SortedBy(q, by, R)
  <2>1. CASE n # 0
    BY <1>1, <2>1
  <2>2. CASE n = 0
    <3>1. DOMAIN by = {}
      BY <1>2, <2>2
    <3>2. QED
      BY <3>1 DEF SortedBy, Below
  <2>3. QED
    BY <2>1, <2>2
<1>4. CASE Aggregating(q)
  BY <1>3, <1>4 DEF Results, RowsAre, by
<1>5. CASE ~Aggregating(q) /\ n = 0
  <2>1. R = PlainRows(q, rows) /\ by = <<>>
    BY <1>2, <1>5
  <2>2. Results(q, rows, by) = {PlainRows(q, rows)}
    BY <1>5, <2>1 DEF Results
  <2>3. QED
    BY <2>1, <2>2 DEF by
<1>6. CASE ~Aggregating(q) /\ n # 0
  <2>1. by # <<>>
    BY <1>1, <1>6
  <2> DEFINE N == Len(rows)
             plain == PlainRows(q, rows)
  <2>2. PICK p \in Orders(N) : R = [i \in 1..N |-> plain[p[i]]]
    BY <1>6 DEF RowsAre
  <2>3. DOMAIN p = 1..N
    BY DEF Orders
  <2> HIDE DEF N, plain
  <2>4. R \in {[i \in DOMAIN x |-> plain[x[i]]] : x \in Orders(N)}
    BY <2>2, <2>3
  <2>5. Results(q, rows, by) =
            {r \in {[i \in DOMAIN x |-> plain[x[i]]] : x \in Orders(N)} : SortedBy(q, by, r)}
    BY <1>6, <2>1 DEF Results, N, plain
  <2>6. QED
    BY <1>3, <2>4, <2>5 DEF by
<1>7. QED
  BY <1>4, <1>5, <1>6

(* Rows that suffice are cut to the same answer as all of them.            *)
LEMMA SameWindow ==
    ASSUME NEW schema, NEW q, IsQuery(schema, q), ~Aggregating(q), q.limit # NoLimit,
           NEW rows \in Seq(Row(schema)), NEW all \in Seq(Row(schema)),
           Len(rows) >= q.limit + q.offset, Len(rows) <= Len(all),
           \A i \in 1..Len(rows) : all[i] = rows[i]
    PROVE  Window(q, PlainRows(q, rows)) = Window(q, PlainRows(q, all))
<1> DEFINE limit == q.limit
           offset == q.offset
           N == Len(rows)
           M == Len(all)
           few == PlainRows(q, rows)
           many == PlainRows(q, all)
           S == Seq(Literal)
<1>1. limit \in Nat /\ offset \in Nat /\ HasWindow(q)
  BY DEF IsQuery, HasWindow, NoLimit
<1>2. N \in Nat /\ DOMAIN rows = 1..N /\ few \in Seq(S) /\ Len(few) = N
  BY PlainShape
<1>3. M \in Nat /\ DOMAIN all = 1..M /\ many \in Seq(S) /\ Len(many) = M
  BY PlainShape
<1>4. \A i \in 1..N : few[i] = many[i]
  <2>1. few = [i \in 1..N |-> [c \in DOMAIN q.columns |-> rows[i][q.columns[c].name]]]
    BY <1>2 DEF PlainRows
  <2>2. many = [i \in 1..M |-> [c \in DOMAIN q.columns |-> all[i][q.columns[c].name]]]
    BY <1>3 DEF PlainRows
  <2>3. \A i \in 1..N : all[i] = rows[i] /\ i \in 1..M
    <3>1. \A i \in 1..N : all[i] = rows[i]
      OBVIOUS
    <3>2. N <= M
      OBVIOUS
    <3> HIDE DEF N, M
    <3>3. QED
      BY <1>2, <1>3, <3>1, <3>2
  <2> HIDE DEF few, many, N, M
  <2>4. QED
    BY <2>1, <2>2, <2>3
<1>5. N >= limit + offset /\ N <= M
  OBVIOUS
<1>6. /\ Skipped(q, N) = Least(offset, N) /\ Cut(q, N) = Least(limit, N - Least(offset, N))
      /\ Skipped(q, M) = Least(offset, M) /\ Cut(q, M) = Least(limit, M - Least(offset, M))
  BY DEF Skipped, Cut
<1> HIDE DEF limit, offset, N, M, S, few, many
<1>7. /\ Skipped(q, N) = offset /\ Cut(q, N) = limit
      /\ Skipped(q, M) = offset /\ Cut(q, M) = limit
  BY <1>1, <1>2, <1>3, <1>5, <1>6 DEF Least
<1>8. Window(q, few) = [i \in 1..limit |-> few[offset + i]]
  <2>1. HasWindow(q) /\ few \in Seq(S)
    BY <1>1, <1>2
  <2>2. N = Len(few)
    BY <1>2
  <2>3. Window(q, few) = [i \in 1..Cut(q, N) |-> few[Skipped(q, N) + i]]
    BY <2>1, <2>2, WindowIs
  <2>4. QED
    BY <1>7, <2>3
<1>9. Window(q, many) = [i \in 1..limit |-> many[offset + i]]
  <2>1. HasWindow(q) /\ many \in Seq(S)
    BY <1>1, <1>3
  <2>2. M = Len(many)
    BY <1>3
  <2>3. Window(q, many) = [i \in 1..Cut(q, M) |-> many[Skipped(q, M) + i]]
    BY <2>1, <2>2, WindowIs
  <2>4. QED
    BY <1>7, <2>3
<1>10. \A i \in 1..limit : few[offset + i] = many[offset + i]
  <2>1. \A i \in 1..limit : offset + i \in 1..N
    BY <1>1, <1>2, <1>5
  <2>2. QED
    BY <1>4, <2>1
<1>11. QED
  BY <1>8, <1>9, <1>10 DEF few, many

(* The cut rows are an answer over all rows that WHERE keeps.              *)
LEMMA CutSuffices ==
    ASSUME NEW schema, NEW q, IsQuery(schema, q), NEW rows \in Seq(Row(schema)),
           NEW all \in Seq(Row(schema)), Suffice(q, rows, all),
           NEW R, R \in Results(q, rows, LastList(q))
    PROVE  Window(q, R) \in {Window(q, r) : r \in Results(q, all, LastList(q))}
<1>1. CASE rows = all
  BY <1>1
<1>2. CASE rows # all
  <2>1. /\ ~Aggregating(q) /\ q.order_by = <<>> /\ q.limit # NoLimit
        /\ Len(rows) >= q.limit + q.offset /\ Len(rows) <= Len(all)
        /\ \A i \in 1..Len(rows) : all[i] = rows[i]
    BY <1>2 DEF Suffice
  <2>2. LastList(q) = <<>>
    BY <2>1 DEF LastList
  <2>3. R = PlainRows(q, rows)
    BY <2>1, <2>2 DEF Results
  <2>4. PlainRows(q, all) \in Results(q, all, LastList(q))
    BY <2>1, <2>2 DEF Results
  <2>5. Window(q, PlainRows(q, rows)) = Window(q, PlainRows(q, all))
    BY <2>1, SameWindow
  <2>6. QED
    BY <2>3, <2>4, <2>5
<1>3. QED
  BY <1>1, <1>2

LEMMA AnswerByKept ==
    ASSUME Stored, Phases, Counters, Finished, Headed, Shown, AnswerBy, [Next]_vars
    PROVE  AnswerBy'
<1>1. CASE Answer
  <2>1. /\ pc = "order" /\ ordered = Len(query.order_by)
        /\ output' = [c \in DOMAIN output |-> [output[c] EXCEPT !.data = Window(query, @)]]
        /\ table' = table /\ parts' = parts /\ query' = query
    BY <1>1 DEF Answer, tableVars
  <2>2. Counted' = Counted /\ KeptRows' = KeptRows
    BY <2>1 DEF Counted, FilterAligned, CompiledWhere, KeptRows, AllRows
  <2>3. SUFFICES ASSUME Counted PROVE IsAnswerBy(LastList(query))'
    BY <2>2 DEF AnswerBy
  <2> DEFINE W == Len(ToRead(query))
             rows == Kept
             all == KeptRows
             new == CutTo(query, output)
             schema == table.schema
  <2>4. IsQuery(schema, query) /\ Aligned(schema, query)
    BY <2>1, <2>3, FilterAlignedIs DEF Phases, Counted
  <2>5. PICK R : OutputIs(R)
    BY <2>1, <2>4 DEF Shown
  <2>6. rows \in Seq(Row(schema)) /\ all \in Seq(Row(schema))
    BY KeptIsRows, KeptRowsAre
  <2>7. Suffice(query, rows, all)
    BY <2>1, <2>3 DEF Finished
  <2>8. HasWindow(query)
    BY <2>4 DEF IsQuery, HasWindow
  <2>9. W \in Nat \ {0}
    <3>1. Reads(schema, query, ToRead(query))
      BY <2>4, ToReadShape
    <3>2. QED
      BY <3>1 DEF Reads
  <2>10. DOMAIN output = 1..W
    BY <2>1 DEF Headed
  <2>11. \A c \in 1..W : output[c] = Named(output[c].alias, output[c].fn, output[c].name, output[c].data)
    BY <2>1 DEF Headed
  <2>12. Shows(output, W, R)
    BY <2>5 DEF OutputIs
  <2>13. output' = new
    BY <2>1 DEF CutTo
  <2> HIDE DEF W, new
  <2>14. RowsIn(DataOf(new)) = Window(query, R)
    BY <2>8, <2>9, <2>10, <2>12, <2>11, AnswerCut DEF new
  <2>15. AnswerRows' = Window(query, R)
    BY <2>13, <2>14 DEF AnswerRows, OutputData, DataOf, RowsIn
  <2>16. R \in Results(query, rows, LastList(query))
    <3> DEFINE n == Len(query.order_by)
    <3>1. RowsAre(query, rows, R)
      BY <2>5 DEF OutputIs
    <3>2. n = 0 /\ ~Aggregating(query) => R = PlainRows(query, rows)
      BY <2>1, <2>5 DEF OutputIs
    <3>3. n # 0 => query.order_by[n] # <<>> /\ SortedBy(query, query.order_by[n], R)
      BY <2>1, <2>5 DEF OutputIs
    <3>4. n = Len(query.order_by)
      OBVIOUS
    <3> HIDE DEF n, rows
    <3>5. QED
      BY <2>4, <2>6, <3>1, <3>2, <3>3, <3>4, ResultsAre
  <2>17. Window(query, R) \in {Window(query, r) : r \in Results(query, all, LastList(query))}
    <3> HIDE DEF rows, all
    <3>1. QED
      BY <2>4, <2>6, <2>7, <2>16, CutSuffices
  <2>18. QED
    BY <2>1, <2>2, <2>15, <2>17 DEF IsAnswerBy, LastList
<1>2. CASE UNCHANGED vars
  <2>1. /\ pc' = pc /\ outcome' = outcome /\ table' = table /\ parts' = parts /\ query' = query
        /\ output' = output
    BY <1>2 DEF vars, tableVars, selectVars
  <2>2. Answered' = Answered /\ Counted' = Counted
    BY <2>1 DEF Answered, Counted, FilterAligned, CompiledWhere
  <2>3. AnswerRows' = AnswerRows /\ KeptRows' = KeptRows
    BY <2>1 DEF AnswerRows, OutputData, KeptRows, AllRows
  <2>4. IsAnswerBy(LastList(query))' = IsAnswerBy(LastList(query))
    BY <2>1, <2>3 DEF IsAnswerBy, LastList
  <2>5. QED
    BY <2>2, <2>4 DEF AnswerBy
<1>3. CASE Next /\ ~Answer
  <2>1. ~Answered'
    BY <1>3 DEF Next, CreateTable, CreateTableRefused, Insert, InsertRefused, InsertPanics,
                Select, SelectRefused, SelectPanics, ReadChunk, ReadPanics, AggregateFails, Finalize,
                OrderOnce, OrderFails, Reading, Ordering, Answered
  <2>2. QED
    BY <2>1 DEF AnswerBy
<1>4. QED
  BY <1>1, <1>2, <1>3

LEMMA AnswerIsOneList ==
    ASSUME StoreInv, AnswerBy, Answered, query # <<>>, Counted, Len(query.order_by) <= 1
    PROVE  IsSQLAnswer
<1> DEFINE n == Len(query.order_by)
           O == query.order_by
           S == ToSet(query.columns)
           SEQ == Seq(S)
<1>1. IsQuery(table.schema, query)
  BY DEF StoreInv, Phases, Answered
<1>2. O \in Seq(SEQ) /\ n \in Nat
  BY <1>1, ListsCount
<1> HIDE DEF O, SEQ
<1>3. LastList(query) = FlattenSeq(O)
  <2>1. CASE n = 0
    <3>1. O = <<>>
      BY <1>2, <2>1 DEF O
    <3>2. QED
      BY <3>1, FlatEmpty DEF LastList, O
  <2>2. CASE n = 1
    <3>1. O[1] \in SEQ /\ O = <<O[1]>> /\ O # <<>> /\ Last(O) = O[1]
      BY <1>2, <2>2 DEF O, Last
    <3> DEFINE list == O[1]
    <3> HIDE DEF list
    <3>2. list \in Seq(S)
      BY <3>1 DEF list, SEQ
    <3>3. FlattenSeq(<<list>>) = list
      BY <3>2, FlatOne
    <3>4. QED
      BY <3>1, <3>3 DEF LastList, O, list
  <2>3. n <= 1
    OBVIOUS
  <2> HIDE DEF n
  <2>4. QED
    BY <1>2, <2>1, <2>2, <2>3
<1>4. QED
  BY <1>3 DEF AnswerBy, IsSQLAnswer, O

(* An answer is SQL's by the last ORDER BY list alone.                     *)
THEOREM AnswersByLast == Spec => []AnswerBy
<1>1. Init => AnswerBy
  BY DEF Init, AnswerBy, Answered
<1>2. StoreInv /\ AnswerInv /\ AnswerBy /\ [Next]_vars => AnswerBy'
  BY AnswerByKept DEF StoreInv, AnswerInv
<1>3. QED
  BY <1>1, <1>2, AnswerIsInvariant, PTL DEF Spec

(* A SELECT without aggregates answers what SQL says, whatever the         *)
(* statements, the rows and their parts: the folding of WHERE's constants, *)
(* its masks, the chunks at which a scan may stop, the permutation of the  *)
(* columns, OFFSET and LIMIT change nothing.  (scan_from_storage)          *)
THEOREM SelectAnswersSQL == Spec => []AnswerIsSQL
<1>1. StoreInv /\ AnswerBy => AnswerIsSQL
  BY AnswerIsOneList DEF AnswerIsSQL, Dependable
<1>2. QED
  BY <1>1, StoreIsInvariant, AnswersByLast, PTL

(* Of several ORDER BY lists the last one decides alone.                   *)
(* (src/src/sql/execution/select/mod.rs:129-139)                           *)
THEOREM LastListOrders == Spec => []OrderedByLast
<1>1. StoreInv /\ AnswerBy => OrderedByLast
  <2> SUFFICES ASSUME StoreInv, AnswerBy, Answered, query # <<>>, Len(query.order_by) > 1, Counted
               PROVE  IsAnswerBy(Last(query.order_by))
    BY DEF OrderedByLast
  <2>1. query.order_by # <<>>
    <3> DEFINE O == query.order_by
    <3>1. O = <<>> => Len(O) = 0
      OBVIOUS
    <3> HIDE DEF O
    <3>2. QED
      BY <3>1 DEF O
  <2>2. QED
    BY <2>1 DEF AnswerBy, LastList
<1>2. QED
  BY <1>1, StoreIsInvariant, AnswersByLast, PTL

(* An aggregated SELECT has one row for every key, each over exactly the   *)
(* rows of that key, however they are spread over chunks and parts.        *)
(* (Aggregator::append_chunk and finalize)                                 *)
THEOREM GroupsAnswerSQL == Spec => []GroupsAreExact
<1>1. StoreInv /\ AnswerBy => GroupsAreExact
  BY AnswerIsOneList DEF GroupsAreExact, Dependable
<1>2. QED
  BY <1>1, StoreIsInvariant, AnswersByLast, PTL

=============================================================================
