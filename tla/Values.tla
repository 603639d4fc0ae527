------------------------------- MODULE Values -------------------------------
(***************************************************************************)
(* Column values and their comparison (src/src/storage/value.rs): a value  *)
(* is its type and an integer that stands for it: strings are numbered in  *)
(* their order, FALSE and TRUE are 0 and 1.  The numeric types are told    *)
(* apart only where the code tells them apart: a number in a column is     *)
(* "int", a number literal is "num" until a column gives it its type; a    *)
(* count is "uint", an average is given in "twelfths".                     *)
(***************************************************************************)
EXTENDS Integers

Value(type, v) == [type |-> type, v |-> v]
ValueType == {"null", "bool", "str", "int", "num", "uint", "twelfths"}
Literal == [type : ValueType, v : Int]
Null == Value("null", 0)
IsTrue(a) == a = Value("bool", 1)
Numeric(a) == a.type \in {"int", "num"}       \* as_f64 returns a number

(* partial_cmp answers None for two values of different types. *)
Comparable(a, b) == a.type = b.type
Precedes(a, b) == Comparable(a, b) /\ a.v < b.v

(* ToValue::fits_op: what is not comparable is neither above nor below. *)
FitsOp(a, op, b) ==
    \/ op \in {"gt", "gteq"} /\ Precedes(b, a)
    \/ op \in {"lt", "lteq"} /\ Precedes(a, b)
    \/ op \in {"eq", "gteq", "lteq"} /\ a = b
    \/ op = "noteq" /\ a # b

(* Value::try_from((literal, type)) in a set: empty when it is an error. *)
Typed(literal, type) ==
    CASE literal = Null -> {Null}
      [] literal.type = "num" /\ type = "int" -> {Value("int", literal.v)}
      [] literal.type # "num" /\ literal.type = type -> {literal}
      [] OTHER -> {}
=============================================================================
