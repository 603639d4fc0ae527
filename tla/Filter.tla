------------------------------- MODULE Filter -------------------------------
(***************************************************************************)
(* WHERE: CompiledFilter::compile turns an expression into a tree over     *)
(* column INDICES of the table's schema, folding constants on the way, and *)
(* get_granule_mask evaluates the tree column by column on a granule       *)
(* buffer (src/src/sql/compiled_filter.rs).  The buffer holds the columns  *)
(* the query reads, in the order it reads them.                            *)
(***************************************************************************)
EXTENDS Values, Sequences, FiniteSets

(***************************************************************************)
(* An expression is the sequence of its nodes, operands before what joins  *)
(* them and the root last; a node says how many places back an operand is. *)
(***************************************************************************)
Col(name) == <<[kind |-> "col", name |-> name]>>
Lit(value) == <<[kind |-> "lit", value |-> value]>>
Cmp(l, op, r) ==
    l \o r \o <<[kind |-> "cmp", op |-> op, left |-> Len(r) + 1, right |-> 1]>>
And(l, r) == l \o r \o <<[kind |-> "and", left |-> Len(r) + 1, right |-> 1]>>
Or(l, r) == l \o r \o <<[kind |-> "or", left |-> Len(r) + 1, right |-> 1]>>
Not(e) == e \o <<[kind |-> "not", of |-> 1]>>

Op == {"gt", "lt", "gteq", "lteq", "eq", "noteq"}
Node == [kind : {"col"}, name : STRING] \cup [kind : {"lit"}, value : Literal]
          \cup [kind : {"cmp"}, op : Op, left : Nat, right : Nat]
          \cup [kind : {"and", "or"}, left : Nat, right : Nat]
          \cup [kind : {"not"}, of : Nat]
OperandsOf(node) ==
    CASE node.kind \in {"and", "or", "cmp"} -> {node.left, node.right}
      [] node.kind = "not" -> {node.of}
      [] OTHER -> {}
IsExpression(e) ==
    /\ e \in Seq(Node) /\ e # <<>>
    /\ \A i \in DOMAIN e : OperandsOf(e[i]) \subseteq 1..(i - 1)

(* A schema is a sequence of columns [name, type, nullable]. *)
IndexOf(schema, name) ==
    LET found == {i \in DOMAIN schema : schema[i].name = name}
    IN  IF found = {} THEN 0 ELSE CHOOSE i \in found : TRUE

Failed == [kind |-> "failed"]
Const(b) == [kind |-> "const", is |-> b]
Compare(idx, op, value) == [kind |-> "compare", idx |-> idx, op |-> op, value |-> value]

Flip(op) == CASE op = "gt" -> "lt" [] op = "lt" -> "gt" [] op = "gteq" -> "lteq"
              [] op = "lteq" -> "gteq" [] OTHER -> op

(* A column against a literal, which takes the column's type. *)
AgainstColumn(schema, name, op, literal) ==
    LET i == IndexOf(schema, name)
    IN  IF i = 0 \/ Typed(literal, schema[i].type) = {} THEN Failed
        ELSE Compare(i, op, CHOOSE v \in Typed(literal, schema[i].type) : TRUE)

CompileComparison(schema, l, op, r) ==
    CASE l.kind = "col" /\ r.kind = "lit" -> AgainstColumn(schema, l.name, op, r.value)
      [] l.kind = "lit" /\ r.kind = "col" -> AgainstColumn(schema, r.name, Flip(op), l.value)
      [] l.kind = "lit" /\ r.kind = "lit" -> Const(FitsOp(l.value, op, r.value))
      [] l.kind = "col" /\ r.kind = "col" ->
            LET i == IndexOf(schema, l.name)  j == IndexOf(schema, r.name)
            IN  IF 0 \in {i, j} THEN Failed
                ELSE [kind |-> "columns", left |-> i, op |-> op, right |-> j]
      [] OTHER -> Failed

(* Mutant: OR folds constants the way AND does. *)
Joined_OrAsAnd(kind, made, l, r) ==
    IF kind = "or" /\ (made[l] = Const(TRUE) \/ made[r] = Const(TRUE))
    THEN IF made[l] = Const(TRUE) THEN made[r] ELSE made[l]
    ELSE IF Failed \in {made[l], made[r]} THEN Failed
    ELSE [kind |-> kind, left |-> l, right |-> r]

(* compile_and and compile_or: a constant that decides hides everything    *)
(* after it, errors included; the other constant leaves the other operand. *)
Joined(kind, made, l, r) ==
    LET deciding == Const(kind = "or")
        neutral == Const(kind = "and")
    IN  IF made[l] \in {Failed, deciding} THEN made[l]
        ELSE IF made[l] = neutral \/ made[r] \in {Failed, deciding} THEN made[r]
        ELSE IF made[r] = neutral THEN made[l]
        ELSE [kind |-> kind, left |-> l, right |-> r]

CompileNode(e, schema, made, i) ==
    LET node == e[i]
    IN  CASE node.kind \in {"and", "or"} ->
                Joined(node.kind, made, i - node.left, i - node.right)
          [] node.kind = "cmp" ->
                CompileComparison(schema, e[i - node.left], node.op, e[i - node.right])
          [] node.kind = "not" ->
                IF made[i - node.of] = Failed THEN Failed
                ELSE [kind |-> "not", of |-> i - node.of]
          [] node.kind = "lit" ->
                IF node.value.type = "bool" THEN Const(IsTrue(node.value)) ELSE Failed
          [] node.kind = "col" ->
                LET c == IndexOf(schema, node.name)
                IN  IF c # 0 /\ schema[c].type = "bool"
                    THEN [kind |-> "column", idx |-> c] ELSE Failed

(* The compiled nodes name their operands by position; again the last one  *)
(* is the root.  A node that folding leaves out is not reached from it.    *)
Compile(e, schema) ==
    LET made[i \in DOMAIN e] == CompileNode(e, schema, made, i) IN made
Root(f) == f[Len(f)]

(* The indices a compiled filter looks up in the buffer. *)
NeedsOf(node, needs) ==
    CASE node.kind \in {"compare", "column"} -> {node.idx}
      [] node.kind = "columns" -> {node.left, node.right}
      [] node.kind \in {"and", "or"} -> needs[node.left] \cup needs[node.right]
      [] node.kind = "not" -> needs[node.of]
      [] OTHER -> {}
Needs(f) ==
    LET needs[i \in DOMAIN f] == NeedsOf(f[i], needs) IN needs[Len(f)]

(* get_granule_mask, for a buffer that has all the indices needed: the     *)
(* rows of the buffer whose bit is set.                                    *)
MaskOf(node, mask, buffer) ==
    LET rows == 1..Len(buffer[1])
    IN  CASE node.kind = "const" -> {i \in rows : node.is}
          [] node.kind = "column" -> {i \in rows : IsTrue(buffer[node.idx][i])}
          [] node.kind = "compare" ->
                {i \in rows : FitsOp(buffer[node.idx][i], node.op, node.value)}
          [] node.kind = "columns" ->
                {i \in rows : FitsOp(buffer[node.left][i], node.op, buffer[node.right][i])}
          [] node.kind = "not" -> rows \ mask[node.of]
          [] node.kind = "and" -> mask[node.left] \cap mask[node.right]
          [] node.kind = "or" -> mask[node.left] \cup mask[node.right]
          [] OTHER -> {}
Mask(f, buffer) ==
    LET mask[i \in DOMAIN f] == MaskOf(f[i], mask, buffer) IN mask[Len(f)]

-----------------------------------------------------------------------------
(* Reference: what the expression means for one row, a function from the   *)
(* columns' names to values.                                               *)
Operand(e, other, row) ==
    IF e.kind = "col" THEN row[e.name]
    ELSE IF other.kind = "col" /\ e.value.type = "num" THEN Value("int", e.value.v)
    ELSE e.value

HoldsAt(e, row, holds, i) ==
    LET node == e[i]
    IN  CASE node.kind = "and" -> holds[i - node.left] /\ holds[i - node.right]
          [] node.kind = "or" -> holds[i - node.left] \/ holds[i - node.right]
          [] node.kind = "not" -> ~holds[i - node.of]
          [] node.kind = "cmp" ->
                LET l == e[i - node.left]  r == e[i - node.right]
                IN  FitsOp(Operand(l, r, row), node.op, Operand(r, l, row))
          [] node.kind = "col" -> IsTrue(row[node.name])
          [] node.kind = "lit" -> IsTrue(node.value)
Holds(e, row) ==
    LET holds[i \in DOMAIN e] == HoldsAt(e, row, holds, i) IN holds[Len(e)]
=============================================================================
