----------------------------- MODULE Rows_proofs -----------------------------
(***************************************************************************)
(* What WHERE keeps and how the engines order: a compiled filter keeps the *)
(* rows its expression holds for, for every expression and every schema,   *)
(* and a column is permuted as the order says, for every order.            *)
(***************************************************************************)
EXTENDS Filter, Engines, Granules_proofs

-----------------------------------------------------------------------------
(* Expressions *)

(* The operands of a node stand before it.                                 *)
LEMMA ExpressionShape ==
    ASSUME NEW e, IsExpression(e)
    PROVE  /\ Len(e) \in Nat \ {0} /\ DOMAIN e = 1..Len(e)
           /\ \A i \in 1..Len(e) :
                /\ e[i] \in Node
                /\ e[i].kind \in {"and", "or", "cmp"} =>
                      i - e[i].left \in 1..(i - 1) /\ i - e[i].right \in 1..(i - 1)
                /\ e[i].kind = "not" => i - e[i].of \in 1..(i - 1)
<1>1. e \in Seq(Node) /\ e # <<>> /\ \A i \in DOMAIN e : OperandsOf(e[i]) \subseteq 1..(i - 1)
  BY DEF IsExpression
<1> HIDE DEF Node
<1>2. Len(e) \in Nat \ {0} /\ DOMAIN e = 1..Len(e) /\ \A i \in 1..Len(e) : e[i] \in Node
  BY <1>1, EmptySeq
<1>3. ASSUME NEW i \in 1..Len(e), e[i].kind \in {"and", "or", "cmp"}
      PROVE  i - e[i].left \in 1..(i - 1) /\ i - e[i].right \in 1..(i - 1)
  <2>1. e[i].left \in 1..(i - 1) /\ e[i].right \in 1..(i - 1)
    BY <1>1, <1>2, <1>3 DEF OperandsOf
  <2>2. QED
    BY <1>2, <2>1
<1>4. ASSUME NEW i \in 1..Len(e), e[i].kind = "not"
      PROVE  i - e[i].of \in 1..(i - 1)
  <2>1. e[i].of \in 1..(i - 1)
    BY <1>1, <1>2, <1>4 DEF OperandsOf
  <2>2. QED
    BY <1>2, <2>1
<1>5. QED
  BY <1>2, <1>3, <1>4

LEMMA NodeKinds ==
    ASSUME NEW n \in Node
    PROVE  /\ n.kind \in {"col", "lit", "cmp", "and", "or", "not"}
           /\ n.kind = "col" => n.name \in STRING
           /\ n.kind = "lit" => n.value \in Literal
           /\ n.kind = "cmp" => n.op \in Op
BY DEF Node

-----------------------------------------------------------------------------
(* What is defined node by node, from the nodes before, exists. *)

LEMMA CompileNodeLocal ==
    ASSUME NEW e, IsExpression(e), NEW schema, NEW i \in 1..Len(e),
           NEW g, NEW h, \A j \in 1..(i - 1) : g[j] = h[j]
    PROVE  CompileNode(e, schema, g, i) = CompileNode(e, schema, h, i)
<1>1. e[i].kind \in {"col", "lit", "cmp", "and", "or", "not"}
  BY ExpressionShape, NodeKinds
<1>2. CASE e[i].kind \in {"and", "or"}
  <2>1. g[i - e[i].left] = h[i - e[i].left] /\ g[i - e[i].right] = h[i - e[i].right]
    BY <1>2, ExpressionShape
  <2>2. QED
    BY <1>2, <2>1 DEF CompileNode, Joined
<1>3. CASE e[i].kind = "not"
  <2>1. g[i - e[i].of] = h[i - e[i].of]
    BY <1>3, ExpressionShape
  <2>2. QED
    BY <1>3, <2>1 DEF CompileNode
<1>4. CASE e[i].kind \in {"cmp", "lit", "col"}
  BY <1>4 DEF CompileNode
<1>5. QED
  BY <1>1, <1>2, <1>3, <1>4

(* Compile fulfils its recursive definition.                               *)
LEMMA CompileStep ==
    ASSUME NEW e, IsExpression(e), NEW schema
    PROVE  LET f == Compile(e, schema)
           IN  f = [i \in 1..Len(e) |-> CompileNode(e, schema, f, i)]
<1> DEFINE N == Len(e)
           To(n, g) == g = [i \in 1..n |-> CompileNode(e, schema, g, i)]
           T == {n \in Nat : n <= N => \E g : To(n, g)}
<1>0. N \in Nat /\ DOMAIN e = 1..N
  BY ExpressionShape
<1>1. 0 \in T
  <2> DEFINE g == [i \in 1..0 |-> 0]
  <2>1. g = [i \in 1..0 |-> CompileNode(e, schema, g, i)]
    OBVIOUS
  <2> HIDE DEF g
  <2>2. \E k : To(0, k)
    BY <2>1
  <2>3. QED
    BY <2>2
<1>2. ASSUME NEW n \in Nat, n \in T PROVE n + 1 \in T
  <2> SUFFICES ASSUME n + 1 <= N PROVE \E g : To(n + 1, g)
    OBVIOUS
  <2>1. PICK g : To(n, g)
    BY <1>0, <1>2
  <2> DEFINE new == CompileNode(e, schema, g, n + 1)
             h == [i \in 1..(n + 1) |-> IF i = n + 1 THEN new ELSE g[i]]
  <2>2. /\ DOMAIN h = 1..(n + 1) /\ h = [i \in 1..(n + 1) |-> h[i]]
        /\ h[n + 1] = new /\ \A i \in 1..n : h[i] = g[i]
    OBVIOUS
  <2>3. \A i \in 1..n : g[i] = CompileNode(e, schema, g, i)
    <3> HIDE DEF new, h
    <3>1. g = [i \in 1..n |-> CompileNode(e, schema, g, i)]
      BY <2>1
    <3>2. QED
      BY <3>1
  <2> HIDE DEF h, To
  <2>4. ASSUME NEW i \in 1..(n + 1) PROVE h[i] = CompileNode(e, schema, h, i)
    <3>1. i \in 1..N /\ (i = n + 1 \/ i \in 1..n)
      BY <1>0
    <3>2. ASSUME NEW j \in 1..(i - 1) PROVE g[j] = h[j]
      <4>1. j \in 1..n
        OBVIOUS
      <4>2. QED
        BY <2>2, <4>1
    <3>3. CompileNode(e, schema, g, i) = CompileNode(e, schema, h, i)
      BY <1>0, <3>1, <3>2, CompileNodeLocal
    <3>4. QED
      BY <2>2, <2>3, <3>1, <3>3
  <2>5. h = [i \in 1..(n + 1) |-> CompileNode(e, schema, h, i)]
    BY <2>2, <2>4
  <2>6. QED
    BY <2>5 DEF To
<1>3. \E g : To(N, g)
  <2> HIDE DEF T, To
  <2>1. \A n \in Nat : n \in T
    BY <1>1, <1>2, CountingUp
  <2>2. N \in T /\ N <= N
    BY <1>0, <2>1
  <2>3. QED
    BY <2>2 DEF T
<1> DEFINE u == CHOOSE g : g = [i \in 1..N |-> CompileNode(e, schema, g, i)]
<1>4. u = [i \in 1..N |-> CompileNode(e, schema, u, i)]
  BY <1>3
<1>5. Compile(e, schema) = u
  BY <1>0 DEF Compile
<1> HIDE DEF u
<1>6. QED
  BY <1>4, <1>5

LEMMA HoldsAtLocal ==
    ASSUME NEW e, IsExpression(e), NEW row, NEW i \in 1..Len(e),
           NEW g, NEW h, \A j \in 1..(i - 1) : g[j] = h[j]
    PROVE  HoldsAt(e, row, g, i) = HoldsAt(e, row, h, i)
<1>1. e[i].kind \in {"col", "lit", "cmp", "and", "or", "not"}
  BY ExpressionShape, NodeKinds
<1>2. CASE e[i].kind \in {"and", "or"}
  <2>1. g[i - e[i].left] = h[i - e[i].left] /\ g[i - e[i].right] = h[i - e[i].right]
    BY <1>2, ExpressionShape
  <2>2. QED
    BY <1>2, <2>1 DEF HoldsAt
<1>3. CASE e[i].kind = "not"
  <2>1. g[i - e[i].of] = h[i - e[i].of]
    BY <1>3, ExpressionShape
  <2>2. QED
    BY <1>3, <2>1 DEF HoldsAt
<1>4. CASE e[i].kind \in {"cmp", "lit", "col"}
  BY <1>4 DEF HoldsAt
<1>5. QED
  BY <1>1, <1>2, <1>3, <1>4

(* So does Holds.                                                          *)
LEMMA HoldsStep ==
    ASSUME NEW e, IsExpression(e), NEW row
    PROVE  \E holds : /\ holds = [i \in 1..Len(e) |-> HoldsAt(e, row, holds, i)]
                      /\ Holds(e, row) = holds[Len(e)]
<1> DEFINE N == Len(e)
           To(n, g) == g = [i \in 1..n |-> HoldsAt(e, row, g, i)]
           T == {n \in Nat : n <= N => \E g : To(n, g)}
<1>0. N \in Nat /\ DOMAIN e = 1..N
  BY ExpressionShape
<1>1. 0 \in T
  <2> DEFINE g == [i \in 1..0 |-> 0]
  <2>1. g = [i \in 1..0 |-> HoldsAt(e, row, g, i)]
    OBVIOUS
  <2> HIDE DEF g
  <2>2. \E k : To(0, k)
    BY <2>1
  <2>3. QED
    BY <2>2
<1>2. ASSUME NEW n \in Nat, n \in T PROVE n + 1 \in T
  <2> SUFFICES ASSUME n + 1 <= N PROVE \E g : To(n + 1, g)
    OBVIOUS
  <2>1. PICK g : To(n, g)
    BY <1>0, <1>2
  <2> DEFINE new == HoldsAt(e, row, g, n + 1)
             h == [i \in 1..(n + 1) |-> IF i = n + 1 THEN new ELSE g[i]]
  <2>2. /\ DOMAIN h = 1..(n + 1) /\ h = [i \in 1..(n + 1) |-> h[i]]
        /\ h[n + 1] = new /\ \A i \in 1..n : h[i] = g[i]
    OBVIOUS
  <2>3. \A i \in 1..n : g[i] = HoldsAt(e, row, g, i)
    <3> HIDE DEF new, h
    <3>1. g = [i \in 1..n |-> HoldsAt(e, row, g, i)]
      BY <2>1
    <3>2. QED
      BY <3>1
  <2> HIDE DEF h, To
  <2>4. ASSUME NEW i \in 1..(n + 1) PROVE h[i] = HoldsAt(e, row, h, i)
    <3>1. i \in 1..N /\ (i = n + 1 \/ i \in 1..n)
      BY <1>0
    <3>2. ASSUME NEW j \in 1..(i - 1) PROVE g[j] = h[j]
      <4>1. j \in 1..n
        OBVIOUS
      <4>2. QED
        BY <2>2, <4>1
    <3>3. HoldsAt(e, row, g, i) = HoldsAt(e, row, h, i)
      BY <1>0, <3>1, <3>2, HoldsAtLocal
    <3>4. QED
      BY <2>2, <2>3, <3>1, <3>3
  <2>5. h = [i \in 1..(n + 1) |-> HoldsAt(e, row, h, i)]
    BY <2>2, <2>4
  <2>6. QED
    BY <2>5 DEF To
<1>3. \E g : To(N, g)
  <2> HIDE DEF T, To
  <2>1. \A n \in Nat : n \in T
    BY <1>1, <1>2, CountingUp
  <2>2. N \in T /\ N <= N
    BY <1>0, <2>1
  <2>3. QED
    BY <2>2 DEF T
<1> DEFINE u == CHOOSE g : g = [i \in 1..N |-> HoldsAt(e, row, g, i)]
<1>4. u = [i \in 1..N |-> HoldsAt(e, row, u, i)]
  BY <1>3
<1>5. Holds(e, row) = u[N]
  BY <1>0 DEF Holds
<1> HIDE DEF u
<1>6. QED
  BY <1>4, <1>5

(* A compiled filter: the operands of a node stand before it.              *)
Layered(f, N) ==
    /\ N \in Nat \ {0} /\ DOMAIN f = 1..N /\ Len(f) = N
    /\ \A i \in 1..N :
         /\ f[i].kind \in {"and", "or"} => f[i].left \in 1..(i - 1) /\ f[i].right \in 1..(i - 1)
         /\ f[i].kind = "not" => f[i].of \in 1..(i - 1)

LEMMA NeedsOfLocal ==
    ASSUME NEW f, NEW N, Layered(f, N), NEW i \in 1..N,
           NEW g, NEW h, \A j \in 1..(i - 1) : g[j] = h[j]
    PROVE  NeedsOf(f[i], g) = NeedsOf(f[i], h)
<1>1. CASE f[i].kind \in {"and", "or"}
  <2>1. g[f[i].left] = h[f[i].left] /\ g[f[i].right] = h[f[i].right]
    BY <1>1 DEF Layered
  <2>2. QED
    BY <1>1, <2>1 DEF NeedsOf
<1>2. CASE f[i].kind = "not"
  <2>1. g[f[i].of] = h[f[i].of]
    BY <1>2 DEF Layered
  <2>2. QED
    BY <1>2, <2>1 DEF NeedsOf
<1>3. CASE f[i].kind \notin {"and", "or", "not"}
  BY <1>3 DEF NeedsOf
<1>4. QED
  BY <1>1, <1>2, <1>3

LEMMA NeedsStep ==
    ASSUME NEW f, NEW M, Layered(f, M)
    PROVE  \E needs : /\ needs = [i \in 1..M |-> NeedsOf(f[i], needs)]
                      /\ Needs(f) = needs[M]
<1> DEFINE N == M
           To(n, g) == g = [i \in 1..n |-> NeedsOf(f[i], g)]
           T == {n \in Nat : n <= N => \E g : To(n, g)}
<1>0. N \in Nat /\ DOMAIN f = 1..N /\ Len(f) = N
  BY DEF Layered
<1>1. 0 \in T
  <2> DEFINE g == [i \in 1..0 |-> 0]
  <2>1. g = [i \in 1..0 |-> NeedsOf(f[i], g)]
    OBVIOUS
  <2> HIDE DEF g
  <2>2. \E k : To(0, k)
    BY <2>1
  <2>3. QED
    BY <2>2
<1>2. ASSUME NEW n \in Nat, n \in T PROVE n + 1 \in T
  <2> SUFFICES ASSUME n + 1 <= N PROVE \E g : To(n + 1, g)
    OBVIOUS
  <2>1. PICK g : To(n, g)
    BY <1>0, <1>2
  <2> DEFINE new == NeedsOf(f[n + 1], g)
             h == [i \in 1..(n + 1) |-> IF i = n + 1 THEN new ELSE g[i]]
  <2>2. /\ DOMAIN h = 1..(n + 1) /\ h = [i \in 1..(n + 1) |-> h[i]]
        /\ h[n + 1] = new /\ \A i \in 1..n : h[i] = g[i]
    OBVIOUS
  <2>3. \A i \in 1..n : g[i] = NeedsOf(f[i], g)
    <3> HIDE DEF new, h
    <3>1. g = [i \in 1..n |-> NeedsOf(f[i], g)]
      BY <2>1
    <3>2. QED
      BY <3>1
  <2> HIDE DEF h, To
  <2>4. ASSUME NEW i \in 1..(n + 1) PROVE h[i] = NeedsOf(f[i], h)
    <3>1. i \in 1..N /\ (i = n + 1 \/ i \in 1..n)
      BY <1>0
    <3>2. ASSUME NEW j \in 1..(i - 1) PROVE g[j] = h[j]
      <4>1. j \in 1..n
        OBVIOUS
      <4>2. QED
        BY <2>2, <4>1
    <3>3. NeedsOf(f[i], g) = NeedsOf(f[i], h)
      BY <1>0, <3>1, <3>2, NeedsOfLocal
    <3>4. QED
      BY <2>2, <2>3, <3>1, <3>3
  <2>5. h = [i \in 1..(n + 1) |-> NeedsOf(f[i], h)]
    BY <2>2, <2>4
  <2>6. QED
    BY <2>5 DEF To
<1>3. \E g : To(N, g)
  <2> HIDE DEF T, To
  <2>1. \A n \in Nat : n \in T
    BY <1>1, <1>2, CountingUp
  <2>2. N \in T /\ N <= N
    BY <1>0, <2>1
  <2>3. QED
    BY <2>2 DEF T
<1> DEFINE u == CHOOSE g : g = [i \in 1..N |-> NeedsOf(f[i], g)]
<1>4. u = [i \in 1..N |-> NeedsOf(f[i], u)]
  BY <1>3
<1>5. Needs(f) = u[N]
  BY <1>0 DEF Needs
<1> HIDE DEF u
<1>6. QED
  BY <1>4, <1>5

LEMMA MaskOfLocal ==
    ASSUME NEW f, NEW N, Layered(f, N), NEW buffer, NEW i \in 1..N,
           NEW g, NEW h, \A j \in 1..(i - 1) : g[j] = h[j]
    PROVE  MaskOf(f[i], g, buffer) = MaskOf(f[i], h, buffer)
<1>1. CASE f[i].kind \in {"and", "or"}
  <2>1. g[f[i].left] = h[f[i].left] /\ g[f[i].right] = h[f[i].right]
    BY <1>1 DEF Layered
  <2>2. QED
    BY <1>1, <2>1 DEF MaskOf
<1>2. CASE f[i].kind = "not"
  <2>1. g[f[i].of] = h[f[i].of]
    BY <1>2 DEF Layered
  <2>2. QED
    BY <1>2, <2>1 DEF MaskOf
<1>3. CASE f[i].kind \notin {"and", "or", "not"}
  BY <1>3 DEF MaskOf
<1>4. QED
  BY <1>1, <1>2, <1>3

LEMMA MaskStep ==
    ASSUME NEW f, NEW M, Layered(f, M), NEW buffer
    PROVE  \E mask : /\ mask = [i \in 1..M |-> MaskOf(f[i], mask, buffer)]
                     /\ Mask(f, buffer) = mask[M]
<1> DEFINE N == M
           To(n, g) == g = [i \in 1..n |-> MaskOf(f[i], g, buffer)]
           T == {n \in Nat : n <= N => \E g : To(n, g)}
<1>0. N \in Nat /\ DOMAIN f = 1..N /\ Len(f) = N
  BY DEF Layered
<1>1. 0 \in T
  <2> DEFINE g == [i \in 1..0 |-> 0]
  <2>1. g = [i \in 1..0 |-> MaskOf(f[i], g, buffer)]
    OBVIOUS
  <2> HIDE DEF g
  <2>2. \E k : To(0, k)
    BY <2>1
  <2>3. QED
    BY <2>2
<1>2. ASSUME NEW n \in Nat, n \in T PROVE n + 1 \in T
  <2> SUFFICES ASSUME n + 1 <= N PROVE \E g : To(n + 1, g)
    OBVIOUS
  <2>1. PICK g : To(n, g)
    BY <1>0, <1>2
  <2> DEFINE new == MaskOf(f[n + 1], g, buffer)
             h == [i \in 1..(n + 1) |-> IF i = n + 1 THEN new ELSE g[i]]
  <2>2. /\ DOMAIN h = 1..(n + 1) /\ h = [i \in 1..(n + 1) |-> h[i]]
        /\ h[n + 1] = new /\ \A i \in 1..n : h[i] = g[i]
    OBVIOUS
  <2>3. \A i \in 1..n : g[i] = MaskOf(f[i], g, buffer)
    <3> HIDE DEF new, h
    <3>1. g = [i \in 1..n |-> MaskOf(f[i], g, buffer)]
      BY <2>1
    <3>2. QED
      BY <3>1
  <2> HIDE DEF h, To
  <2>4. ASSUME NEW i \in 1..(n + 1) PROVE h[i] = MaskOf(f[i], h, buffer)
    <3>1. i \in 1..N /\ (i = n + 1 \/ i \in 1..n)
      BY <1>0
    <3>2. ASSUME NEW j \in 1..(i - 1) PROVE g[j] = h[j]
      <4>1. j \in 1..n
        OBVIOUS
      <4>2. QED
        BY <2>2, <4>1
    <3>3. MaskOf(f[i], g, buffer) = MaskOf(f[i], h, buffer)
      BY <1>0, <3>1, <3>2, MaskOfLocal
    <3>4. QED
      BY <2>2, <2>3, <3>1, <3>3
  <2>5. h = [i \in 1..(n + 1) |-> MaskOf(f[i], h, buffer)]
    BY <2>2, <2>4
  <2>6. QED
    BY <2>5 DEF To
<1>3. \E g : To(N, g)
  <2> HIDE DEF T, To
  <2>1. \A n \in Nat : n \in T
    BY <1>1, <1>2, CountingUp
  <2>2. N \in T /\ N <= N
    BY <1>0, <2>1
  <2>3. QED
    BY <2>2 DEF T
<1> DEFINE u == CHOOSE g : g = [i \in 1..N |-> MaskOf(f[i], g, buffer)]
<1>4. u = [i \in 1..N |-> MaskOf(f[i], u, buffer)]
  BY <1>3
<1>5. Mask(f, buffer) = u[N]
  BY <1>0 DEF Mask
<1> HIDE DEF u
<1>6. QED
  BY <1>4, <1>5

-----------------------------------------------------------------------------
(* WHERE *)

LEMMA IndexOfType ==
    ASSUME NEW S, NEW schema \in Seq(S), NEW name
    PROVE  /\ IndexOf(schema, name) \in 0..Len(schema)
           /\ IndexOf(schema, name) # 0 => schema[IndexOf(schema, name)].name = name
           /\ (\E i \in 1..Len(schema) : schema[i].name = name) => IndexOf(schema, name) # 0
BY DEF IndexOf

LEMMA ComparisonKinds ==
    ASSUME NEW schema, NEW l, NEW op, NEW r
    PROVE  CompileComparison(schema, l, op, r).kind
              \in {"failed", "compare", "const", "columns"}
<1>1. \A name, o, literal :
        \/ AgainstColumn(schema, name, o, literal) = Failed
        \/ \E i, v : AgainstColumn(schema, name, o, literal) = Compare(i, o, v)
  BY DEF AgainstColumn
<1> DEFINE c == CompileComparison(schema, l, op, r)
<1>2. \/ c = Failed \/ \E i, o, v : c = Compare(i, o, v)
      \/ \E b : c = Const(b)
      \/ \E i, k : c = [kind |-> "columns", left |-> i, op |-> op, right |-> k]
  <2>1. CASE l.kind = "col" /\ r.kind = "lit"
    BY <1>1, <2>1 DEF CompileComparison
  <2>2. CASE l.kind = "lit" /\ r.kind = "col"
    BY <1>1, <2>2 DEF CompileComparison
  <2>3. CASE l.kind = "lit" /\ r.kind = "lit"
    BY <2>3 DEF CompileComparison
  <2>4. CASE l.kind = "col" /\ r.kind = "col"
    BY <2>4 DEF CompileComparison
  <2>5. CASE ~(l.kind \in {"lit", "col"} /\ r.kind \in {"lit", "col"})
    BY <2>5 DEF CompileComparison
  <2>6. QED
    BY <2>1, <2>2, <2>3, <2>4, <2>5
<1> HIDE DEF c
<1>3. c.kind \in {"failed", "compare", "const", "columns"}
  BY <1>2 DEF Failed, Compare, Const
<1>4. QED
  BY <1>3 DEF c

LEMMA CompiledLayered ==
    ASSUME NEW e, IsExpression(e), NEW schema
    PROVE  Layered(Compile(e, schema), Len(e))
<1> DEFINE N == Len(e)
           f == Compile(e, schema)
           OK(i) == /\ f[i].kind \in {"and", "or"} =>
                          f[i].left \in 1..(i - 1) /\ f[i].right \in 1..(i - 1)
                    /\ f[i].kind = "not" => f[i].of \in 1..(i - 1)
           T == {n \in Nat : \A i \in 1..N : i <= n => OK(i)}
<1>0. N \in Nat \ {0} /\ f = [i \in 1..N |-> CompileNode(e, schema, f, i)]
  BY ExpressionShape, CompileStep
<1> HIDE DEF f
<1>1. \A i \in 1..N : f[i] = CompileNode(e, schema, f, i)
  BY <1>0
<1>2. DOMAIN f = 1..N /\ Len(f) = N
  BY <1>0
<1>3. 0 \in T
  OBVIOUS
<1>4. ASSUME NEW n \in Nat, n \in T PROVE n + 1 \in T
  <2> SUFFICES ASSUME NEW i \in 1..N, i = n + 1 PROVE OK(i)
    <3>1. \A i \in 1..N : i <= n + 1 => i <= n \/ i = n + 1
      BY <1>4
    <3>2. QED
      BY <1>4, <3>1
  <2>0. \A j \in 1..(i - 1) : j \in 1..N /\ j <= n
    BY <1>0, <1>4
  <2>1. \A j \in 1..(i - 1) : OK(j)
    BY <1>4, <2>0
  <2>2. e[i].kind \in {"col", "lit", "cmp", "and", "or", "not"}
    BY ExpressionShape, NodeKinds
  <2>3. CASE e[i].kind \in {"and", "or"}
    <3> DEFINE l == i - e[i].left
               r == i - e[i].right
    <3>1. l \in 1..(i - 1) /\ r \in 1..(i - 1)
      BY <2>3, ExpressionShape
    <3>2. f[i] = Joined(e[i].kind, f, l, r)
      BY <1>1, <2>3 DEF CompileNode
    <3> HIDE DEF l, r
    <3>3. \/ f[i] = f[l] \/ f[i] = f[r]
          \/ f[i] = [kind |-> e[i].kind, left |-> l, right |-> r]
      BY <3>2 DEF Joined
    <3>4. OK(l) /\ OK(r)
      BY <2>1, <3>1
    <3>5. ASSUME NEW k \in 1..(i - 1), NEW j \in 1..(k - 1) PROVE j \in 1..(i - 1)
      BY <1>0
    <3>6. CASE f[i] = f[l]
      BY <3>1, <3>4, <3>5, <3>6
    <3>7. CASE f[i] = f[r]
      BY <3>1, <3>4, <3>5, <3>7
    <3>8. CASE f[i] = [kind |-> e[i].kind, left |-> l, right |-> r]
      BY <2>3, <3>1, <3>8
    <3>9. QED
      BY <3>3, <3>6, <3>7, <3>8
  <2>4. CASE e[i].kind = "not"
    <3>1. f[i] = Failed \/ f[i] = [kind |-> "not", of |-> i - e[i].of]
      BY <1>1, <2>4 DEF CompileNode
    <3>2. i - e[i].of \in 1..(i - 1)
      BY <2>4, ExpressionShape
    <3>3. QED
      BY <3>1, <3>2 DEF Failed
  <2>5. CASE e[i].kind = "cmp"
    <3>1. f[i] = CompileComparison(schema, e[i - e[i].left], e[i].op, e[i - e[i].right])
      BY <1>1, <2>5 DEF CompileNode
    <3>2. f[i].kind \in {"failed", "compare", "const", "columns"}
      BY <3>1, ComparisonKinds
    <3>3. QED
      BY <3>2
  <2>6. CASE e[i].kind \in {"lit", "col"}
    <3> DEFINE c == IndexOf(schema, e[i].name)
    <3>1. \/ f[i] = Failed \/ f[i] = Const(IsTrue(e[i].value))
          \/ f[i] = [kind |-> "column", idx |-> c]
      BY <1>1, <2>6 DEF CompileNode
    <3> HIDE DEF c
    <3>2. f[i].kind \in {"failed", "const", "column"}
      BY <3>1 DEF Failed, Const
    <3>3. QED
      BY <3>2
  <2>7. QED
    BY <2>2, <2>3, <2>4, <2>5, <2>6
<1> HIDE DEF T
<1>5. \A n \in Nat : n \in T
  BY <1>3, <1>4, CountingUp
<1> HIDE DEF OK
<1>6. \A i \in 1..N : OK(i)
  <2>1. N \in T
    BY <1>0, <1>5
  <2>2. QED
    BY <2>1 DEF T
<1>7. QED
  BY <1>0, <1>2, <1>6 DEF Layered, OK, f

LEMMA FlipFits ==
    ASSUME NEW a, NEW b, NEW op \in Op
    PROVE  FitsOp(b, Flip(op), a) <=> FitsOp(a, op, b)
BY DEF FitsOp, Flip, Op, Precedes, Comparable

(* A literal in a column's type is what the reference compares with.       *)
LEMMA TypedLiteral ==
    ASSUME NEW literal \in Literal, NEW type, Typed(literal, type) # {}
    PROVE  (CHOOSE v \in Typed(literal, type) : TRUE) =
              IF literal.type = "num" THEN Value("int", literal.v) ELSE literal
BY DEF Typed, Null, Value, Literal, ValueType

(* What each compiled node looks up and keeps.                             *)
LEMMA NodesNeed ==
    ASSUME NEW needs
    PROVE  /\ \A b : NeedsOf(Const(b), needs) = {}
           /\ \A i : NeedsOf([kind |-> "column", idx |-> i], needs) = {i}
           /\ \A i : NeedsOf([kind |-> "not", of |-> i], needs) = needs[i]
           /\ \A i, k : NeedsOf([kind |-> "and", left |-> i, right |-> k], needs) =
                            needs[i] \cup needs[k]
           /\ \A i, k : NeedsOf([kind |-> "or", left |-> i, right |-> k], needs) =
                            needs[i] \cup needs[k]
BY DEF NeedsOf, Const

LEMMA NodesKeep ==
    ASSUME NEW mask, NEW buffer
    PROVE  LET rows == 1..Len(buffer[1])
           IN  /\ \A b : MaskOf(Const(b), mask, buffer) = {j \in rows : b}
               /\ \A i : MaskOf([kind |-> "column", idx |-> i], mask, buffer) =
                             {j \in rows : IsTrue(buffer[i][j])}
               /\ \A i : MaskOf([kind |-> "not", of |-> i], mask, buffer) = rows \ mask[i]
               /\ \A i, k : MaskOf([kind |-> "and", left |-> i, right |-> k], mask, buffer) =
                                mask[i] \cap mask[k]
               /\ \A i, k : MaskOf([kind |-> "or", left |-> i, right |-> k], mask, buffer) =
                                mask[i] \cup mask[k]
<1>1. \A b : MaskOf(Const(b), mask, buffer) = {j \in 1..Len(buffer[1]) : b}
  BY DEF MaskOf, Const
<1>2. \A i : MaskOf([kind |-> "column", idx |-> i], mask, buffer) =
                {j \in 1..Len(buffer[1]) : IsTrue(buffer[i][j])}
  BY DEF MaskOf
<1>3. \A i : MaskOf([kind |-> "not", of |-> i], mask, buffer) = (1..Len(buffer[1])) \ mask[i]
  BY DEF MaskOf
<1>4. \A i, k : MaskOf([kind |-> "and", left |-> i, right |-> k], mask, buffer) =
                   mask[i] \cap mask[k]
  BY DEF MaskOf
<1>5. \A i, k : MaskOf([kind |-> "or", left |-> i, right |-> k], mask, buffer) =
                   mask[i] \cup mask[k]
  BY DEF MaskOf
<1>6. QED
  BY <1>1, <1>2, <1>3, <1>4, <1>5

(* The buffer holds in column idx what the row calls by its name.          *)
AlignedAt(I, schema, buffer, j, row) ==
    \A idx \in I : buffer[idx][j] = row[schema[idx].name]

(* A comparison that compiles keeps the rows it holds for.                 *)
LEMMA ComparisonKeeps ==
    ASSUME NEW schema, NEW l \in Node, NEW r \in Node, NEW op \in Op,
           NEW c, c = CompileComparison(schema, l, op, r), c # Failed,
           NEW needs, NEW mask, NEW buffer, NEW j \in 1..Len(buffer[1]), NEW row,
           AlignedAt(NeedsOf(c, needs), schema, buffer, j, row),
           NEW S, schema \in Seq(S)
    PROVE  j \in MaskOf(c, mask, buffer) <=>
              FitsOp(Operand(l, r, row), op, Operand(r, l, row))
<1> DEFINE rows == 1..Len(buffer[1])
<1>1. /\ l.kind = "lit" => l.value \in Literal
      /\ r.kind = "lit" => r.value \in Literal
  BY NodeKinds
<1>2. ASSUME NEW name, NEW literal \in Literal, NEW o,
             c = AgainstColumn(schema, name, o, literal)
      PROVE  j \in MaskOf(c, mask, buffer) <=>
                FitsOp(row[name], o,
                       IF literal.type = "num" THEN Value("int", literal.v) ELSE literal)
  <2> DEFINE i == IndexOf(schema, name)
             v == CHOOSE x \in Typed(literal, schema[i].type) : TRUE
  <2>1. i # 0 /\ Typed(literal, schema[i].type) # {} /\ c = Compare(i, o, v)
    BY <1>2 DEF AgainstColumn
  <2>2. schema[i].name = name
    BY <2>1, IndexOfType
  <2>3. v = IF literal.type = "num" THEN Value("int", literal.v) ELSE literal
    BY <2>1, TypedLiteral
  <2> HIDE DEF i, v
  <2>4. NeedsOf(c, needs) = {i}
    BY <2>1 DEF Compare, NeedsOf
  <2>5. buffer[i][j] = row[name]
    BY <2>2, <2>4 DEF AlignedAt
  <2>6. MaskOf(c, mask, buffer) = {k \in rows : FitsOp(buffer[i][k], o, v)}
    BY <2>1 DEF Compare, MaskOf
  <2>7. QED
    BY <2>3, <2>5, <2>6
<1>3. CASE l.kind = "col" /\ r.kind = "lit"
  <2>1. c = AgainstColumn(schema, l.name, op, r.value)
    BY <1>3 DEF CompileComparison
  <2>2. Operand(l, r, row) = row[l.name]
        /\ Operand(r, l, row) = IF r.value.type = "num" THEN Value("int", r.value.v) ELSE r.value
    BY <1>3 DEF Operand
  <2>3. QED
    BY <1>1, <1>2, <1>3, <2>1, <2>2
<1>4. CASE l.kind = "lit" /\ r.kind = "col"
  <2>1. c = AgainstColumn(schema, r.name, Flip(op), l.value)
    BY <1>4 DEF CompileComparison
  <2>2. Operand(r, l, row) = row[r.name]
        /\ Operand(l, r, row) = IF l.value.type = "num" THEN Value("int", l.value.v) ELSE l.value
    BY <1>4 DEF Operand
  <2>3. j \in MaskOf(c, mask, buffer) <=>
           FitsOp(Operand(r, l, row), Flip(op), Operand(l, r, row))
    BY <1>1, <1>2, <1>4, <2>1, <2>2
  <2>4. QED
    BY <2>3, FlipFits
<1>5. CASE l.kind = "lit" /\ r.kind = "lit"
  <2>1. c = Const(FitsOp(l.value, op, r.value))
    BY <1>5 DEF CompileComparison
  <2>2. Operand(l, r, row) = l.value /\ Operand(r, l, row) = r.value
    BY <1>5 DEF Operand
  <2>3. MaskOf(c, mask, buffer) = {k \in rows : FitsOp(l.value, op, r.value)}
    BY <2>1 DEF Const, MaskOf
  <2>4. QED
    BY <2>2, <2>3
<1>6. CASE l.kind = "col" /\ r.kind = "col"
  <2> DEFINE a == IndexOf(schema, l.name)
             b == IndexOf(schema, r.name)
  <2>1. a # 0 /\ b # 0 /\ c = [kind |-> "columns", left |-> a, op |-> op, right |-> b]
    BY <1>6 DEF CompileComparison
  <2>2. schema[a].name = l.name /\ schema[b].name = r.name
    BY <2>1, IndexOfType
  <2> HIDE DEF a, b
  <2>3. NeedsOf(c, needs) = {a, b}
    BY <2>1 DEF NeedsOf
  <2>4. buffer[a][j] = row[l.name] /\ buffer[b][j] = row[r.name]
    BY <2>2, <2>3 DEF AlignedAt
  <2>5. MaskOf(c, mask, buffer) = {k \in rows : FitsOp(buffer[a][k], op, buffer[b][k])}
    BY <2>1 DEF MaskOf
  <2>6. Operand(l, r, row) = row[l.name] /\ Operand(r, l, row) = row[r.name]
    BY <1>6 DEF Operand
  <2>7. QED
    BY <2>4, <2>5, <2>6
<1>7. CASE ~(l.kind \in {"lit", "col"} /\ r.kind \in {"lit", "col"})
  <2>1. c = Failed
    BY <1>7 DEF CompileComparison
  <2>2. QED
    BY <2>1
<1>8. QED
  BY <1>3, <1>4, <1>5, <1>6, <1>7

(* A filter that compiles keeps the rows its expression holds for, as far  *)
(* as the buffer has the columns it looks up where it looks them up.       *)
THEOREM FilterKeeps ==
    ASSUME NEW e, IsExpression(e), NEW S, NEW schema \in Seq(S),
           Root(Compile(e, schema)) # Failed,
           NEW buffer, NEW j \in 1..Len(buffer[1]), NEW row,
           AlignedAt(Needs(Compile(e, schema)), schema, buffer, j, row)
    PROVE  j \in Mask(Compile(e, schema), buffer) <=> Holds(e, row)
<1> DEFINE N == Len(e)
           f == Compile(e, schema)
           rows == 1..Len(buffer[1])
<1>0. /\ N \in Nat \ {0} /\ f = [i \in 1..N |-> CompileNode(e, schema, f, i)]
  BY ExpressionShape, CompileStep
<1>a. Layered(f, N)
  BY CompiledLayered
<1> HIDE DEF f
<1>1. PICK needs : needs = [i \in 1..N |-> NeedsOf(f[i], needs)] /\ Needs(f) = needs[N]
  BY <1>a, NeedsStep
<1>2. PICK mask : mask = [i \in 1..N |-> MaskOf(f[i], mask, buffer)]
                  /\ Mask(f, buffer) = mask[N]
  <2> HIDE DEF N, rows
  <2>1. QED
    BY <1>a, MaskStep
<1>3. PICK holds : holds = [i \in 1..N |-> HoldsAt(e, row, holds, i)]
                   /\ Holds(e, row) = holds[N]
  BY HoldsStep
<1>4. \A i \in 1..N : f[i] = CompileNode(e, schema, f, i)
  BY <1>0
<1>5. \A i \in 1..N : needs[i] = NeedsOf(f[i], needs)
  BY <1>1
<1>6. \A i \in 1..N : mask[i] = MaskOf(f[i], mask, buffer)
  BY <1>2
<1>7. \A i \in 1..N : holds[i] = HoldsAt(e, row, holds, i)
  BY <1>3
<1> DEFINE OK(i) == f[i] # Failed /\ AlignedAt(needs[i], schema, buffer, j, row)
                       => (j \in mask[i] <=> holds[i])
           T == {n \in Nat : \A i \in 1..N : i <= n => OK(i)}
<1>8. ASSUME NEW i \in 1..N, NEW k \in 1..N, f[i] = f[k]
      PROVE  needs[i] = needs[k] /\ mask[i] = mask[k]
  BY <1>5, <1>6, <1>8
<1>9. ASSUME NEW i \in 1..N, NEW b, f[i] = Const(b)
      PROVE  f[i] # Failed /\ needs[i] = {} /\ (j \in mask[i] <=> b)
  <2>1. f[i] # Failed
    BY <1>9 DEF Const, Failed
  <2>2. needs[i] = {}
    BY <1>5, <1>9, NodesNeed
  <2>3. mask[i] = {x \in rows : b}
    BY <1>6, <1>9, NodesKeep
  <2>4. QED
    BY <2>1, <2>2, <2>3
<1>10. \A I, J : AlignedAt(I \cup J, schema, buffer, j, row) <=>
                     /\ AlignedAt(I, schema, buffer, j, row)
                     /\ AlignedAt(J, schema, buffer, j, row)
  BY DEF AlignedAt
<1>11. AlignedAt({}, schema, buffer, j, row)
  BY DEF AlignedAt
<1>12. ASSUME NEW n \in Nat, n \in T PROVE n + 1 \in T
  <2> SUFFICES ASSUME NEW i \in 1..N, i = n + 1, f[i] # Failed,
                      AlignedAt(needs[i], schema, buffer, j, row)
               PROVE  j \in mask[i] <=> holds[i]
    <3>1. \A i \in 1..N : i <= n + 1 => i <= n \/ i = n + 1
      BY <1>12
    <3>2. QED
      BY <1>12, <3>1
  <2>0. \A k \in 1..(i - 1) : k \in 1..N /\ k <= n
    BY <1>0, <1>12
  <2>1. \A k \in 1..(i - 1) : k \in 1..N /\ OK(k)
    BY <1>12, <2>0
  <2>2. e[i] \in Node /\ e[i].kind \in {"col", "lit", "cmp", "and", "or", "not"}
    BY ExpressionShape, NodeKinds
  <2>3. CASE e[i].kind \in {"and", "or"}
    <3> DEFINE kind == e[i].kind
               l == i - e[i].left
               r == i - e[i].right
    <3>1. l \in 1..(i - 1) /\ r \in 1..(i - 1)
      BY <2>3, ExpressionShape
    <3>2. f[i] = Joined(kind, f, l, r)
      BY <1>4, <2>3 DEF CompileNode
    <3>3. /\ kind = "and" => (holds[i] <=> holds[l] /\ holds[r])
          /\ kind = "or" => (holds[i] <=> holds[l] \/ holds[r])
      BY <1>7, <2>3 DEF HoldsAt
    <3> HIDE DEF l, r
    <3>4. OK(l) /\ OK(r) /\ l \in 1..N /\ r \in 1..N
      BY <2>1, <3>1
    <3>5. CASE f[l] = Failed
      BY <3>2, <3>5 DEF Joined
    <3>6. CASE f[l] = Const(kind = "or")
      <4>1. f[i] = f[l]
        BY <3>2, <3>6 DEF Joined
      <4>2. (j \in mask[l] <=> kind = "or") /\ f[l] # Failed /\ needs[l] = {} /\ mask[i] = mask[l]
        BY <1>8, <1>9, <3>4, <3>6, <4>1
      <4>3. holds[l] <=> kind = "or"
        BY <1>11, <3>4, <4>2
      <4>4. QED
        BY <2>3, <3>3, <4>2, <4>3
    <3>7. CASE f[l] = Const(kind = "and")
      <4>1. f[i] = f[r]
        BY <2>3, <3>2, <3>7 DEF Joined, Const, Failed
      <4>2. f[l] # Failed /\ needs[l] = {} /\ (j \in mask[l] <=> kind = "and")
        BY <1>9, <3>4, <3>7
      <4>3. holds[l] <=> kind = "and"
        BY <1>11, <3>4, <4>2
      <4>4. needs[i] = needs[r] /\ mask[i] = mask[r]
        BY <1>8, <3>4, <4>1
      <4>5. j \in mask[r] <=> holds[r]
        BY <3>4, <4>1, <4>4
      <4>6. QED
        BY <2>3, <3>3, <4>3, <4>4, <4>5
    <3>8. CASE f[l] \notin {Failed, Const(kind = "or"), Const(kind = "and")}
               /\ f[r] \in {Failed, Const(kind = "or")}
      <4>1. f[i] = f[r]
        BY <3>2, <3>8 DEF Joined
      <4>2. f[r] = Const(kind = "or")
        BY <3>8, <4>1
      <4>3. (j \in mask[r] <=> kind = "or") /\ f[r] # Failed /\ needs[r] = {} /\ mask[i] = mask[r]
        BY <1>8, <1>9, <3>4, <4>1, <4>2
      <4>4. holds[r] <=> kind = "or"
        BY <1>11, <3>4, <4>3
      <4>5. QED
        BY <2>3, <3>3, <4>3, <4>4
    <3>9. CASE f[l] \notin {Failed, Const(kind = "or"), Const(kind = "and")}
               /\ f[r] = Const(kind = "and")
      <4>1. f[r] \notin {Failed, Const(kind = "or")}
        BY <2>3, <3>9 DEF Const, Failed
      <4>2. f[i] = f[l]
        BY <3>2, <3>9, <4>1 DEF Joined
      <4>3. f[r] # Failed /\ needs[r] = {} /\ (j \in mask[r] <=> kind = "and")
        BY <1>9, <3>4, <3>9
      <4>4. holds[r] <=> kind = "and"
        BY <1>11, <3>4, <4>3
      <4>5. needs[i] = needs[l] /\ mask[i] = mask[l]
        BY <1>8, <3>4, <4>2
      <4>6. j \in mask[l] <=> holds[l]
        BY <3>4, <4>2, <4>5
      <4>7. QED
        BY <2>3, <3>3, <4>4, <4>5, <4>6
    <3>10. CASE /\ f[l] \notin {Failed, Const(kind = "or"), Const(kind = "and")}
                /\ f[r] \notin {Failed, Const(kind = "or"), Const(kind = "and")}
      <4>1. f[i] = [kind |-> kind, left |-> l, right |-> r]
        BY <3>2, <3>10 DEF Joined
      <4>2. needs[i] = needs[l] \cup needs[r]
        BY <1>5, <2>3, <4>1, NodesNeed
      <4>3. (j \in mask[l] <=> holds[l]) /\ (j \in mask[r] <=> holds[r])
        BY <1>10, <3>4, <3>10, <4>2
      <4>4. /\ kind = "and" => mask[i] = mask[l] \cap mask[r]
            /\ kind = "or" => mask[i] = mask[l] \cup mask[r]
        BY <1>6, <4>1, NodesKeep
      <4>5. QED
        BY <2>3, <3>3, <4>3, <4>4
    <3>11. QED
      BY <3>5, <3>6, <3>7, <3>8, <3>9, <3>10
  <2>4. CASE e[i].kind = "not"
    <3> DEFINE k == i - e[i].of
    <3>1. k \in 1..(i - 1)
      BY <2>4, ExpressionShape
    <3>2. holds[i] <=> ~holds[k]
      BY <1>7, <2>4 DEF HoldsAt
    <3>3. f[i] = IF f[k] = Failed THEN Failed ELSE [kind |-> "not", of |-> k]
      BY <1>4, <2>4 DEF CompileNode
    <3> HIDE DEF k
    <3>4. f[k] # Failed /\ f[i] = [kind |-> "not", of |-> k]
      BY <3>3
    <3>5. needs[i] = needs[k] /\ mask[i] = rows \ mask[k]
      BY <1>5, <1>6, <3>4, NodesNeed, NodesKeep
    <3>6. j \in mask[k] <=> holds[k]
      BY <2>1, <3>1, <3>4, <3>5
    <3>7. QED
      BY <3>2, <3>5, <3>6
  <2>5. CASE e[i].kind = "cmp"
    <3> DEFINE l == e[i - e[i].left]
               r == e[i - e[i].right]
    <3>1. l \in Node /\ r \in Node /\ e[i].op \in Op
      <4>1. i - e[i].left \in 1..(i - 1) /\ i - e[i].right \in 1..(i - 1)
        BY <2>5, ExpressionShape
      <4>2. l \in Node /\ r \in Node
        BY <2>1, <4>1, ExpressionShape
      <4>3. QED
        BY <2>2, <2>5, <4>2, NodeKinds
    <3>2. f[i] = CompileComparison(schema, l, e[i].op, r)
      BY <1>4, <2>5 DEF CompileNode
    <3>3. holds[i] <=> FitsOp(Operand(l, r, row), e[i].op, Operand(r, l, row))
      BY <1>7, <2>5 DEF HoldsAt
    <3> HIDE DEF l, r
    <3>4. needs[i] = NeedsOf(f[i], needs) /\ mask[i] = MaskOf(f[i], mask, buffer)
      BY <1>5, <1>6
    <3>5. j \in MaskOf(f[i], mask, buffer) <=>
             FitsOp(Operand(l, r, row), e[i].op, Operand(r, l, row))
      BY <3>1, <3>2, <3>4, ComparisonKeeps
    <3>6. QED
      BY <3>3, <3>4, <3>5
  <2>6. CASE e[i].kind = "lit"
    <3>1. f[i] = Const(IsTrue(e[i].value))
      BY <1>4, <2>6 DEF CompileNode
    <3>2. holds[i] <=> IsTrue(e[i].value)
      BY <1>7, <2>6 DEF HoldsAt
    <3>3. QED
      BY <1>9, <3>1, <3>2
  <2>7. CASE e[i].kind = "col"
    <3> DEFINE c == IndexOf(schema, e[i].name)
    <3>1. c # 0 /\ f[i] = [kind |-> "column", idx |-> c]
      BY <1>4, <2>7 DEF CompileNode
    <3>2. schema[c].name = e[i].name
      BY <3>1, IndexOfType
    <3> HIDE DEF c
    <3>3. needs[i] = {c} /\ mask[i] = {x \in rows : IsTrue(buffer[c][x])}
      BY <1>5, <1>6, <3>1, NodesNeed, NodesKeep
    <3>4. buffer[c][j] = row[e[i].name]
      BY <3>2, <3>3 DEF AlignedAt
    <3>5. holds[i] <=> IsTrue(row[e[i].name])
      BY <1>7, <2>7 DEF HoldsAt
    <3>6. QED
      BY <3>3, <3>4, <3>5
  <2>8. QED
    BY <2>2, <2>3, <2>4, <2>5, <2>6, <2>7
<1>13. 0 \in T
  OBVIOUS
<1> HIDE DEF T
<1>14. \A n \in Nat : n \in T
  BY <1>12, <1>13, CountingUp
<1> HIDE DEF OK
<1>15. OK(N)
  <2>1. N \in T /\ N \in 1..N /\ N <= N
    BY <1>0, <1>14
  <2>2. QED
    BY <2>1 DEF T
<1>16. f[N] # Failed
  BY <1>a DEF Root, f, Layered
<1>17. QED
  BY <1>1, <1>2, <1>3, <1>15, <1>16 DEF OK, f

-----------------------------------------------------------------------------
(* Orders and permutations *)

LEMMA OrderShape ==
    ASSUME NEW N \in Nat, NEW p \in Orders(N)
    PROVE  /\ p \in [1..N -> 1..N]
           /\ \A x \in 1..N : \E i \in 1..N : p[i] = x
           /\ \A i, j \in 1..N : p[i] = p[j] => i = j
<1>1. p \in [1..N -> 1..N] /\ \A x \in 1..N : \E i \in 1..N : p[i] = x
  BY DEF Orders
<1>2. p \in Surjection(1..N, 1..N)
  BY <1>1 DEF Surjection
<1>3. IsFiniteSet(1..N)
  BY FS_Interval
<1>4. p \in Injection(1..N, 1..N)
  BY <1>2, <1>3, FS_Surjection
<1>5. QED
  BY <1>1, <1>4 DEF Injection, IsInjective

(* The turns of one cycle.                                                 *)
LEMMA FollowSteps ==
    ASSUME NEW state, NEW order, NEW start, Len(state.data) \in Nat
    PROVE  \E after :
              /\ after[0] = [state EXCEPT !.current = start]
              /\ \A i \in 1..Len(state.data) : after[i] = Followed(after[i - 1], order, start)
              /\ FollowCycle(state, order, start) =
                    [after[Len(state.data)] EXCEPT
                        !.visited = @ \cup {after[Len(state.data)].current}]
<1> DEFINE N == Len(state.data)
           To(n, g) == g = [i \in 0..n |-> IF i = 0 THEN [state EXCEPT !.current = start] ELSE Followed(g[i - 1], order, start)]
           T == {n \in Nat : n <= N => \E g : To(n, g)}
<1>0. N \in Nat
  OBVIOUS
<1>1. 0 \in T
  <2> DEFINE g == [i \in 0..0 |-> [state EXCEPT !.current = start]]
  <2>1. g = [i \in 0..0 |-> IF i = 0 THEN [state EXCEPT !.current = start] ELSE Followed(g[i - 1], order, start)]
    OBVIOUS
  <2> HIDE DEF g
  <2>2. \E k : To(0, k)
    BY <2>1
  <2>3. QED
    BY <2>2
<1>2. ASSUME NEW n \in Nat, n \in T PROVE n + 1 \in T
  <2> SUFFICES ASSUME n + 1 <= N PROVE \E g : To(n + 1, g)
    OBVIOUS
  <2>1. PICK g : To(n, g)
    BY <1>0, <1>2
  <2> DEFINE new == Followed(g[n], order, start)
             h == [i \in 0..(n + 1) |-> IF i = n + 1 THEN new ELSE g[i]]
  <2>2. /\ DOMAIN h = 0..(n + 1) /\ h = [i \in 0..(n + 1) |-> h[i]]
        /\ h[n + 1] = new /\ \A i \in 0..n : h[i] = g[i]
    OBVIOUS
  <2>3. \A i \in 0..n : g[i] = IF i = 0 THEN [state EXCEPT !.current = start] ELSE Followed(g[i - 1], order, start)
    <3> HIDE DEF new, h
    <3>1. g = [i \in 0..n |-> IF i = 0 THEN [state EXCEPT !.current = start] ELSE Followed(g[i - 1], order, start)]
      BY <2>1
    <3>2. QED
      BY <3>1
  <2> HIDE DEF h, To
  <2>4. ASSUME NEW i \in 0..(n + 1) PROVE h[i] = IF i = 0 THEN [state EXCEPT !.current = start] ELSE Followed(h[i - 1], order, start)
    <3>1. CASE i = n + 1
      <4>1. i # 0 /\ i - 1 = n /\ n \in 0..n
        BY <3>1
      <4>2. h[i - 1] = g[n] /\ h[i] = new
        BY <2>2, <3>1, <4>1
      <4>3. QED
        BY <3>1, <4>1, <4>2
    <3>2. CASE i # n + 1
      <4>1. i \in 0..n /\ (i # 0 => i - 1 \in 0..n)
        BY <3>2
      <4>2. h[i] = g[i] /\ (i # 0 => h[i - 1] = g[i - 1])
        BY <2>2, <4>1
      <4>3. QED
        BY <2>3, <4>1, <4>2
    <3>3. QED
      BY <3>1, <3>2
  <2>5. h = [i \in 0..(n + 1) |-> IF i = 0 THEN [state EXCEPT !.current = start] ELSE Followed(h[i - 1], order, start)]
    BY <2>2, <2>4
  <2>6. QED
    BY <2>5 DEF To
<1>3. \E g : To(N, g)
  <2> HIDE DEF T, To
  <2>1. \A n \in Nat : n \in T
    BY <1>1, <1>2, CountingUp
  <2>2. N \in T /\ N <= N
    BY <1>0, <2>1
  <2>3. QED
    BY <2>2 DEF T
<1> DEFINE u == CHOOSE g : g = [i \in 0..N |-> IF i = 0 THEN [state EXCEPT !.current = start] ELSE Followed(g[i - 1], order, start)]
<1>4. u = [i \in 0..N |-> IF i = 0 THEN [state EXCEPT !.current = start] ELSE Followed(u[i - 1], order, start)]
  BY <1>3
<1>5. FollowCycle(state, order, start) = [u[N] EXCEPT !.visited = @ \cup {u[N].current}]
  BY <1>0 DEF FollowCycle
<1> HIDE DEF u
<1>6. u[0] = [state EXCEPT !.current = start] /\ \A i \in 1..N : u[i] = Followed(u[i - 1], order, start)
  <2>1. 0 \in 0..N /\ \A i \in 1..N : i \in 0..N /\ i # 0
    BY <1>0
  <2>2. QED
    BY <1>4, <2>1
<1>7. QED
  BY <1>5, <1>6

(* The cycles of a permutation.                                            *)
LEMMA ApplySteps ==
    ASSUME NEW data, NEW order, Len(data) \in Nat
    PROVE  \E after :
              /\ after[0] = [data |-> data, visited |-> {}, current |-> 0]
              /\ \A i \in 1..Len(data) : after[i] = StartCycle(after[i - 1], order, i)
              /\ ApplyPermutation(data, order) = after[Len(data)].data
<1> DEFINE N == Len(data)
           To(n, g) == g = [i \in 0..n |-> IF i = 0 THEN [data |-> data, visited |-> {}, current |-> 0] ELSE StartCycle(g[i - 1], order, i)]
           T == {n \in Nat : n <= N => \E g : To(n, g)}
<1>0. N \in Nat
  OBVIOUS
<1>1. 0 \in T
  <2> DEFINE g == [i \in 0..0 |-> [data |-> data, visited |-> {}, current |-> 0]]
  <2>1. g = [i \in 0..0 |-> IF i = 0 THEN [data |-> data, visited |-> {}, current |-> 0] ELSE StartCycle(g[i - 1], order, i)]
    OBVIOUS
  <2> HIDE DEF g
  <2>2. \E k : To(0, k)
    BY <2>1
  <2>3. QED
    BY <2>2
<1>2. ASSUME NEW n \in Nat, n \in T PROVE n + 1 \in T
  <2> SUFFICES ASSUME n + 1 <= N PROVE \E g : To(n + 1, g)
    OBVIOUS
  <2>1. PICK g : To(n, g)
    BY <1>0, <1>2
  <2> DEFINE new == StartCycle(g[n], order, (n + 1))
             h == [i \in 0..(n + 1) |-> IF i = n + 1 THEN new ELSE g[i]]
  <2>2. /\ DOMAIN h = 0..(n + 1) /\ h = [i \in 0..(n + 1) |-> h[i]]
        /\ h[n + 1] = new /\ \A i \in 0..n : h[i] = g[i]
    OBVIOUS
  <2>3. \A i \in 0..n : g[i] = IF i = 0 THEN [data |-> data, visited |-> {}, current |-> 0] ELSE StartCycle(g[i - 1], order, i)
    <3> HIDE DEF new, h
    <3>1. g = [i \in 0..n |-> IF i = 0 THEN [data |-> data, visited |-> {}, current |-> 0] ELSE StartCycle(g[i - 1], order, i)]
      BY <2>1
    <3>2. QED
      BY <3>1
  <2> HIDE DEF h, To
  <2>4. ASSUME NEW i \in 0..(n + 1) PROVE h[i] = IF i = 0 THEN [data |-> data, visited |-> {}, current |-> 0] ELSE StartCycle(h[i - 1], order, i)
    <3>1. CASE i = n + 1
      <4>1. i # 0 /\ i - 1 = n /\ n \in 0..n
        BY <3>1
      <4>2. h[i - 1] = g[n] /\ h[i] = new
        BY <2>2, <3>1, <4>1
      <4>3. QED
        BY <3>1, <4>1, <4>2
    <3>2. CASE i # n + 1
      <4>1. i \in 0..n /\ (i # 0 => i - 1 \in 0..n)
        BY <3>2
      <4>2. h[i] = g[i] /\ (i # 0 => h[i - 1] = g[i - 1])
        BY <2>2, <4>1
      <4>3. QED
        BY <2>3, <4>1, <4>2
    <3>3. QED
      BY <3>1, <3>2
  <2>5. h = [i \in 0..(n + 1) |-> IF i = 0 THEN [data |-> data, visited |-> {}, current |-> 0] ELSE StartCycle(h[i - 1], order, i)]
    BY <2>2, <2>4
  <2>6. QED
    BY <2>5 DEF To
<1>3. \E g : To(N, g)
  <2> HIDE DEF T, To
  <2>1. \A n \in Nat : n \in T
    BY <1>1, <1>2, CountingUp
  <2>2. N \in T /\ N <= N
    BY <1>0, <2>1
  <2>3. QED
    BY <2>2 DEF T
<1> DEFINE u == CHOOSE g : g = [i \in 0..N |-> IF i = 0 THEN [data |-> data, visited |-> {}, current |-> 0] ELSE StartCycle(g[i - 1], order, i)]
<1>4. u = [i \in 0..N |-> IF i = 0 THEN [data |-> data, visited |-> {}, current |-> 0] ELSE StartCycle(u[i - 1], order, i)]
  BY <1>3
<1>5. ApplyPermutation(data, order) = u[N].data
  BY <1>0 DEF ApplyPermutation
<1> HIDE DEF u
<1>6. u[0] = [data |-> data, visited |-> {}, current |-> 0] /\ \A i \in 1..N : u[i] = StartCycle(u[i - 1], order, i)
  <2>1. 0 \in 0..N /\ \A i \in 1..N : i \in 0..N /\ i # 0
    BY <1>0
  <2>2. QED
    BY <1>4, <2>1
<1>7. QED
  BY <1>5, <1>6

(* What holds while a cycle is followed: `seen` are the places of earlier  *)
(* cycles, W those of this one that have their element already.            *)
Cycling(old, order, seen, start, t, W, s) ==
    LET N == Len(old)
    IN  /\ DOMAIN s.data = 1..N /\ s.data = [i \in 1..N |-> s.data[i]]
        /\ W \subseteq 1..N /\ W \cap seen = {} /\ s.visited = seen \cup W
        /\ s.current \in 1..N /\ s.current \notin seen \cup W
        /\ start \in W \cup {s.current}
        /\ \A w \in W : order[w] \in W \cup {s.current} /\ order[w] # start
        /\ \A x \in W \cup {s.current} : x = start \/ \E w \in W : order[w] = x
        /\ \A i \in 1..N :
              s.data[i] = IF i \in seen \cup W THEN old[order[i]]
                          ELSE IF i = s.current THEN old[start] ELSE old[i]
        /\ order[s.current] = start \/ Cardinality(W) = t

(* What holds between two cycles.                                          *)
Between(old, order, s) ==
    LET N == Len(old)
    IN  /\ DOMAIN s.data = 1..N /\ s.data = [i \in 1..N |-> s.data[i]]
        /\ s.visited \subseteq 1..N
        /\ \A i \in 1..N : i \in s.visited <=> order[i] \in s.visited
        /\ \A i \in 1..N :
              s.data[i] = IF i \in s.visited THEN old[order[i]] ELSE old[i]

LEMMA FollowedTurn ==
    ASSUME NEW S, NEW old \in Seq(S), NEW order \in Orders(Len(old)),
           NEW seen \in SUBSET (1..Len(old)), NEW start \in (1..Len(old)) \ seen,
           \A i \in 1..Len(old) : i \in seen <=> order[i] \in seen,
           NEW t \in Nat, NEW W, NEW s, Cycling(old, order, seen, start, t, W, s)
    PROVE  \E X : Cycling(old, order, seen, start, t + 1, X, Followed(s, order, start))
<1> DEFINE N == Len(old)
           next == order[s.current]
<1>0. N \in Nat
  OBVIOUS
<1>1. /\ order \in [1..N -> 1..N]
      /\ \A i, j \in 1..N : order[i] = order[j] => i = j
  BY <1>0, OrderShape
<1>2. CASE next = start
  <2>1. Followed(s, order, start) = s
    BY <1>2 DEF Followed
  <2>2. Cycling(old, order, seen, start, t + 1, W, s)
    BY <1>2 DEF Cycling
  <2>3. QED
    BY <2>1, <2>2
<1>3. CASE next # start
  <2> DEFINE X == W \cup {s.current}
             u == [data |-> Swapped(s.data, s.current, next),
                   visited |-> s.visited \cup {s.current}, current |-> next]
  <2>1. Followed(s, order, start) = u
    BY <1>3 DEF Followed
  <2>2. /\ W \subseteq 1..N /\ W \cap seen = {} /\ s.visited = seen \cup W
        /\ s.current \in 1..N /\ s.current \notin seen \cup W
        /\ start \in W \cup {s.current}
        /\ \A w \in W : order[w] \in W \cup {s.current} /\ order[w] # start
        /\ \A x \in W \cup {s.current} : x = start \/ \E w \in W : order[w] = x
    BY DEF Cycling
  <2>3. next \in 1..N
    BY <1>1, <2>2
  <2>4. next \notin seen
    BY <2>2, <2>3
  <2>5. next \notin W \cup {s.current}
    <3>1. SUFFICES ASSUME next \in W \cup {s.current} PROVE FALSE
      OBVIOUS
    <3>2. PICK w \in W : order[w] = next
      BY <1>3, <2>2, <3>1
    <3>3. w = s.current
      BY <1>1, <2>2, <3>2
    <3>4. QED
      BY <2>2, <3>3
  <2>6. DOMAIN u.data = 1..N /\ u.data = [i \in 1..N |-> u.data[i]]
    <3>1. DOMAIN s.data = 1..N
      BY DEF Cycling
    <3>2. DOMAIN Swapped(s.data, s.current, next) = 1..N
      BY <3>1 DEF Swapped
    <3>3. Swapped(s.data, s.current, next) = [i \in 1..N |-> Swapped(s.data, s.current, next)[i]]
      BY <3>1 DEF Swapped
    <3>4. u.data = Swapped(s.data, s.current, next)
      OBVIOUS
    <3> HIDE DEF u
    <3>5. QED
      BY <3>2, <3>3, <3>4
  <2>7. \A i \in 1..N : u.data[i] = IF i = next THEN s.data[s.current]
                                     ELSE IF i = s.current THEN s.data[next] ELSE s.data[i]
    <3>1. DOMAIN s.data = 1..N /\ s.data = [i \in 1..N |-> s.data[i]]
      BY DEF Cycling
    <3>2. QED
      BY <2>2, <2>3, <3>1 DEF Swapped
  <2>8. \A i \in 1..N : s.data[i] = IF i \in seen \cup W THEN old[order[i]]
                                     ELSE IF i = s.current THEN old[start] ELSE old[i]
    BY DEF Cycling
  <2>9. \A i \in 1..N : u.data[i] = IF i \in seen \cup X THEN old[order[i]]
                                     ELSE IF i = u.current THEN old[start] ELSE old[i]
    <3> TAKE i \in 1..N
    <3>1. CASE i = next
      BY <2>2, <2>3, <2>4, <2>5, <2>7, <2>8, <3>1
    <3>2. CASE i # next /\ i = s.current
      BY <2>2, <2>3, <2>4, <2>5, <2>7, <2>8, <3>2
    <3>3. CASE i # next /\ i # s.current
      BY <2>2, <2>7, <2>8, <3>3
    <3>4. QED
      BY <3>1, <3>2, <3>3
  <2>10. Cardinality(X) = t + 1
    <3>1. Cardinality(W) = t
      BY <1>3 DEF Cycling
    <3>2. IsFiniteSet(W)
      <4>1. IsFiniteSet(1..N) /\ W \in SUBSET (1..N)
        BY <1>0, <2>2, FS_Interval
      <4>2. QED
        BY <4>1, FS_Subset
    <3>3. QED
      BY <2>2, <3>1, <3>2, FS_AddElement
  <2>11. u.current = next /\ u.visited = s.visited \cup {s.current}
    OBVIOUS
  <2>12. \A w \in X : order[w] \in X \cup {next} /\ order[w] # start
    BY <1>3, <2>2
  <2>13. \A x \in X \cup {next} : x = start \/ \E w \in X : order[w] = x
    BY <2>2
  <2>14. X \subseteq 1..N /\ X \cap seen = {} /\ u.visited = seen \cup X /\ start \in X
    <3>1. X \subseteq 1..N /\ X \cap seen = {} /\ start \in X
      BY <2>2
    <3>2. u.visited = seen \cup X
      BY <2>2, <2>11
    <3>3. QED
      BY <3>1, <3>2
  <2> HIDE DEF u, X, next
  <2>15. Cycling(old, order, seen, start, t + 1, X, u)
    BY <2>3, <2>4, <2>5, <2>6, <2>9, <2>10, <2>11, <2>12, <2>13, <2>14 DEF Cycling, X
  <2>16. QED
    BY <2>1, <2>15
<1>4. QED
  BY <1>2, <1>3

LEMMA FollowedCycle ==
    ASSUME NEW S, NEW old \in Seq(S), NEW order \in Orders(Len(old)),
           NEW s, Between(old, order, s), NEW start \in (1..Len(old)) \ s.visited,
           s = [data |-> s.data, visited |-> s.visited, current |-> s.current]
    PROVE  /\ Between(old, order, FollowCycle(s, order, start))
           /\ s.visited \cup {start} \subseteq FollowCycle(s, order, start).visited
           /\ LET u == FollowCycle(s, order, start)
              IN  u = [data |-> u.data, visited |-> u.visited, current |-> u.current]
<1> DEFINE N == Len(old)
           seen == s.visited
<1>0. N \in Nat
  OBVIOUS
<1>1. /\ DOMAIN s.data = 1..N /\ s.data = [i \in 1..N |-> s.data[i]]
      /\ s.visited \subseteq 1..N
      /\ \A i \in 1..N : i \in s.visited <=> order[i] \in s.visited
      /\ \A i \in 1..N :
            s.data[i] = IF i \in s.visited THEN old[order[i]] ELSE old[i]
  BY DEF Between
<1>2. Len(s.data) = N
  BY <1>0, <1>1
<1>3. PICK after :
          /\ after[0] = [s EXCEPT !.current = start]
          /\ \A i \in 1..N : after[i] = Followed(after[i - 1], order, start)
          /\ FollowCycle(s, order, start) =
                [after[N] EXCEPT !.visited = @ \cup {after[N].current}]
  BY <1>0, <1>2, FollowSteps
<1> DEFINE R(u) == u = [data |-> u.data, visited |-> u.visited, current |-> u.current]
           T == {t \in Nat : t <= N => R(after[t]) /\ \E W : Cycling(old, order, seen, start, t, W, after[t])}
<1>4. 0 \in T
  <2> DEFINE z == after[0]
  <2>1. z = [data |-> s.data, visited |-> s.visited, current |-> start]
    BY <1>3
  <2>2. z.data = s.data /\ z.visited = s.visited /\ z.current = start
    BY <2>1
  <2> HIDE DEF z
  <2>3. Cardinality({}) = 0
    BY FS_EmptySet
  <2>4. Cycling(old, order, seen, start, 0, {}, z)
    BY <1>1, <2>2, <2>3 DEF Cycling
  <2>5. R(z)
    BY <2>1, <2>2
  <2>6. QED
    BY <2>4, <2>5 DEF z
<1>5. ASSUME NEW t \in Nat, t \in T PROVE t + 1 \in T
  <2> SUFFICES ASSUME t + 1 <= N
               PROVE  R(after[t + 1]) /\ \E W : Cycling(old, order, seen, start, t + 1, W, after[t + 1])
    OBVIOUS
  <2> HIDE DEF R
  <2>1. R(after[t]) /\ \E W : Cycling(old, order, seen, start, t, W, after[t])
    BY <1>0, <1>5
  <2>2. PICK W : Cycling(old, order, seen, start, t, W, after[t])
    BY <2>1
  <2>3. t + 1 \in 1..N /\ (t + 1) - 1 = t
    BY <1>0
  <2>4. after[t + 1] = Followed(after[t], order, start)
    BY <1>3, <2>3
  <2> DEFINE a == after[t]
  <2> HIDE DEF a
  <2>5. Cycling(old, order, seen, start, t, W, a) /\ R(a)
    BY <2>1, <2>2 DEF a
  <2>6. \E X : Cycling(old, order, seen, start, t + 1, X, Followed(a, order, start))
    BY <1>1, <2>5, FollowedTurn
  <2>7. R(Followed(a, order, start))
    BY <2>5 DEF R, Followed
  <2>8. QED
    BY <2>4, <2>6, <2>7 DEF a
<1> HIDE DEF T
<1>6. N \in T /\ N <= N
  BY <1>0, <1>4, <1>5, CountingUp
<1> DEFINE end == after[N]
<1>7. R(end) /\ \E W : Cycling(old, order, seen, start, N, W, end)
  BY <1>6 DEF T
<1>8. PICK W : Cycling(old, order, seen, start, N, W, end)
  BY <1>7
<1> DEFINE f == FollowCycle(s, order, start)
<1>9. f = [end EXCEPT !.visited = @ \cup {end.current}]
  BY <1>3
<1>10. f.data = end.data /\ f.visited = end.visited \cup {end.current} /\ R(f)
  BY <1>7, <1>9
<1> HIDE DEF f, end, R
<1>11. /\ W \subseteq 1..N /\ W \cap seen = {} /\ end.visited = seen \cup W
       /\ end.current \in 1..N /\ end.current \notin seen \cup W
       /\ start \in W \cup {end.current}
       /\ \A w \in W : order[w] \in W \cup {end.current} /\ order[w] # start
       /\ \A x \in W \cup {end.current} : x = start \/ \E w \in W : order[w] = x
  BY <1>8 DEF Cycling
<1>12. order[end.current] = start
  <2>1. SUFFICES ASSUME Cardinality(W) = N PROVE FALSE
    BY <1>8 DEF Cycling
  <2>2. IsFiniteSet(1..N) /\ Cardinality(1..N) = N
    <3>1. 1 \in Int /\ N \in Int /\ 1 <= N
      BY <1>0
    <3>2. QED
      BY <3>1, FS_Interval
  <2>3. W = 1..N
    <3>1. W \in SUBSET (1..N)
      BY <1>11
    <3>2. QED
      BY <2>1, <2>2, <3>1, FS_Subset
  <2>4. QED
    BY <1>11, <2>3
<1>13. /\ order \in [1..N -> 1..N]
       /\ \A i, j \in 1..N : order[i] = order[j] => i = j
  BY <1>0, OrderShape
<1>14. \A i \in 1..N : i \in f.visited <=> order[i] \in f.visited
  <2> TAKE i \in 1..N
  <2>1. i \in seen <=> order[i] \in seen
    BY <1>1
  <2>2. i \in W \cup {end.current} => order[i] \in W \cup {end.current}
    BY <1>11, <1>12
  <2>3. ASSUME order[i] \in W \cup {end.current} PROVE i \in W \cup {end.current}
    <3>1. CASE order[i] = start
      BY <1>11, <1>12, <1>13, <3>1
    <3>2. CASE order[i] # start
      <4>1. PICK w \in W : order[w] = order[i]
        BY <1>11, <2>3, <3>2
      <4>2. w = i
        BY <1>11, <1>13, <4>1
      <4>3. QED
        BY <4>1, <4>2
    <3>3. QED
      BY <3>1, <3>2
  <2>4. QED
    BY <1>10, <1>11, <2>1, <2>2, <2>3
<1>15. \A i \in 1..N : f.data[i] = IF i \in f.visited THEN old[order[i]] ELSE old[i]
  <2>1. \A i \in 1..N : end.data[i] = IF i \in seen \cup W THEN old[order[i]]
                          ELSE IF i = end.current THEN old[start] ELSE old[i]
    BY <1>8 DEF Cycling
  <2>2. QED
    BY <1>10, <1>11, <1>12, <2>1
<1>16. DOMAIN f.data = 1..N /\ f.data = [i \in 1..N |-> f.data[i]]
  BY <1>8, <1>10 DEF Cycling
<1>17. f.visited \subseteq 1..N
  BY <1>1, <1>10, <1>11
<1>18. Between(old, order, f)
  BY <1>14, <1>15, <1>16, <1>17 DEF Between
<1>19. s.visited \cup {start} \subseteq f.visited
  BY <1>10, <1>11
<1>20. QED
  BY <1>10, <1>18, <1>19 DEF f, R

(* Swapping along the cycles of an order puts every element in its place.  *)
(* (apply_permutation_in_place, src/src/engines/merge_tree.rs)             *)
THEOREM PermutationApplied ==
    ASSUME NEW S, NEW data \in Seq(S), NEW order \in Orders(Len(data))
    PROVE  ApplyPermutation(data, order) = [i \in 1..Len(data) |-> data[order[i]]]
<1> DEFINE N == Len(data)
           R(u) == u = [data |-> u.data, visited |-> u.visited, current |-> u.current]
<1>0. N \in Nat /\ data = [i \in 1..N |-> data[i]] /\ DOMAIN data = 1..N
  OBVIOUS
<1>1. PICK after :
          /\ after[0] = [data |-> data, visited |-> {}, current |-> 0]
          /\ \A i \in 1..N : after[i] = StartCycle(after[i - 1], order, i)
          /\ ApplyPermutation(data, order) = after[N].data
  BY <1>0, ApplySteps
<1> DEFINE T == {t \in Nat : t <= N =>
                    /\ R(after[t]) /\ Between(data, order, after[t])
                    /\ 1..t \subseteq after[t].visited}
<1>2. 0 \in T
  <2> DEFINE z == after[0]
  <2>1. z = [data |-> data, visited |-> {}, current |-> 0]
    BY <1>1
  <2>2. z.data = data /\ z.visited = {} /\ z.current = 0
    BY <2>1
  <2> HIDE DEF z
  <2>3. R(z) /\ 1..0 \subseteq z.visited
    BY <2>1, <2>2
  <2>4. Between(data, order, z)
    BY <1>0, <2>2 DEF Between
  <2>5. QED
    BY <2>3, <2>4 DEF z
<1>3. ASSUME NEW t \in Nat, t \in T PROVE t + 1 \in T
  <2> SUFFICES ASSUME t + 1 <= N
               PROVE  /\ R(after[t + 1]) /\ Between(data, order, after[t + 1])
                      /\ 1..(t + 1) \subseteq after[t + 1].visited
    OBVIOUS
  <2> DEFINE a == after[t]
             b == after[t + 1]
  <2>1. R(a) /\ Between(data, order, a) /\ 1..t \subseteq a.visited
    BY <1>0, <1>3
  <2>2. t + 1 \in 1..N /\ (t + 1) - 1 = t
    BY <1>0
  <2>3. b = StartCycle(a, order, t + 1)
    BY <1>1, <2>2
  <2> HIDE DEF a, b
  <2>4. CASE t + 1 \in a.visited
    <3>1. b = a
      BY <2>3, <2>4 DEF StartCycle
    <3>2. 1..(t + 1) \subseteq b.visited
      BY <2>1, <2>4, <3>1
    <3>3. QED
      BY <2>1, <3>1, <3>2 DEF b
  <2>5. CASE t + 1 \notin a.visited
    <3>1. b = FollowCycle(a, order, t + 1)
      BY <2>3, <2>5 DEF StartCycle
    <3> HIDE DEF N
    <3>2. t + 1 \in (1..Len(data)) \ a.visited
      BY <2>2, <2>5 DEF N
    <3>3. /\ Between(data, order, b) /\ a.visited \cup {t + 1} \subseteq b.visited
          /\ R(b)
      BY <2>1, <3>1, <3>2, FollowedCycle
    <3>4. 1..(t + 1) \subseteq b.visited
      BY <2>1, <3>3
    <3>5. QED
      BY <3>3, <3>4 DEF b
  <2>6. QED
    BY <2>4, <2>5
<1> HIDE DEF T
<1>4. N \in T /\ N <= N
  BY <1>0, <1>2, <1>3, CountingUp
<1>5. Between(data, order, after[N]) /\ 1..N \subseteq after[N].visited
  BY <1>4 DEF T
<1>6. QED
  BY <1>1, <1>5 DEF Between

-----------------------------------------------------------------------------
(* Sorting *)

(* The numbers 1..N can be listed in the order of any strict total order.  *)
LEMMA OrderExists ==
    ASSUME NEW N \in Nat, NEW R,
           \A i \in 1..N : <<i, i>> \notin R,
           \A i, j, k \in 1..N : <<i, j>> \in R /\ <<j, k>> \in R => <<i, k>> \in R,
           \A i, j \in 1..N : i = j \/ <<i, j>> \in R \/ <<j, i>> \in R
    PROVE  \E p \in Orders(N) : \A i, j \in 1..N : i < j => <<p[i], p[j]>> \in R
<1> DEFINE D == 1..N
           B(i) == {j \in D : <<j, i>> \in R}
           rank == [i \in D |-> Cardinality(B(i)) + 1]
<1>1. IsFiniteSet(D) /\ Cardinality(D) = N
  <2>1. 1 \in Int /\ N \in Int /\ IsFiniteSet({}) /\ Cardinality({}) = 0
    BY FS_EmptySet
  <2>2. N = 0 => D = {}
    OBVIOUS
  <2>3. QED
    BY <2>1, <2>2, FS_Interval
<1>2. ASSUME NEW i \in D
      PROVE  IsFiniteSet(B(i)) /\ Cardinality(B(i)) \in Nat /\ rank[i] \in D
  <2>1. B(i) \in SUBSET D /\ B(i) # D
    OBVIOUS
  <2> HIDE DEF B, D
  <2>2. IsFiniteSet(B(i)) /\ Cardinality(B(i)) <= N /\ Cardinality(B(i)) # N
    BY <1>1, <2>1, FS_Subset
  <2>3. Cardinality(B(i)) \in Nat
    BY <2>2, FS_CardinalityType
  <2>4. Cardinality(B(i)) + 1 \in D
    BY <2>2, <2>3 DEF D
  <2>5. QED
    BY <2>2, <2>3, <2>4
<1>3. ASSUME NEW i \in D, NEW j \in D, <<i, j>> \in R PROVE rank[i] < rank[j]
  <2>1. B(i) \in SUBSET B(j) /\ B(i) # B(j)
    BY <1>3
  <2>2. IsFiniteSet(B(j)) /\ Cardinality(B(i)) \in Nat /\ Cardinality(B(j)) \in Nat
    BY <1>2
  <2> HIDE DEF B, D
  <2>3. Cardinality(B(i)) < Cardinality(B(j))
    BY <2>1, <2>2, FS_Subset
  <2>4. QED
    BY <2>2, <2>3
<1>4. rank \in [D -> D]
  <2>1. \A i \in D : rank[i] \in D
    BY <1>2
  <2>2. rank = [i \in D |-> rank[i]]
    OBVIOUS
  <2> HIDE DEF rank, D, B
  <2>3. QED
    BY <2>1, <2>2
<1> HIDE DEF rank, B
<1>5. \A i, j \in D : rank[i] = rank[j] => i = j
  <2> TAKE i, j \in D
  <2> HAVE rank[i] = rank[j]
  <2>1. rank[i] \in Int
    BY <1>4
  <2>2. <<i, j>> \notin R /\ <<j, i>> \notin R
    <3> HIDE DEF D
    <3>1. <<i, j>> \in R => rank[i] < rank[j]
      BY <1>3
    <3>2. <<j, i>> \in R => rank[j] < rank[i]
      BY <1>3
    <3>3. QED
      BY <2>1, <3>1, <3>2
  <2>3. QED
    BY <2>2
<1>6. rank \in Injection(D, D)
  BY <1>4, <1>5 DEF Injection, IsInjective
<1>7. rank \in Surjection(D, D)
  BY <1>1, <1>6, FS_Injection
<1>8. \A x \in D : \E i \in D : rank[i] = x
  BY <1>7 DEF Surjection
<1> DEFINE p == [x \in D |-> CHOOSE i \in D : rank[i] = x]
<1>9. \A x \in D : p[x] \in D /\ rank[p[x]] = x
  BY <1>8
<1>10. p \in [D -> D]
  <2>1. p = [x \in D |-> p[x]]
    OBVIOUS
  <2> HIDE DEF p, D
  <2>2. QED
    BY <1>9, <2>1
<1> HIDE DEF p
<1>11. \A x \in D : \E i \in D : p[i] = x
  <2> TAKE x \in D
  <2>1. rank[x] \in D
    BY <1>4
  <2>2. p[rank[x]] \in D /\ rank[p[rank[x]]] = rank[x]
    BY <1>9, <2>1
  <2>3. p[rank[x]] = x
    BY <1>5, <2>2
  <2>4. QED
    BY <2>1, <2>3
<1>12. p \in Orders(N)
  BY <1>10, <1>11 DEF Orders
<1>13. ASSUME NEW i \in D, NEW j \in D, i < j PROVE <<p[i], p[j]>> \in R
  <2>1. p[i] \in D /\ p[j] \in D /\ rank[p[i]] = i /\ rank[p[j]] = j
    BY <1>9
  <2>2. p[i] # p[j]
    BY <1>13, <2>1
  <2>3. <<p[j], p[i]>> \notin R
    <3>1. SUFFICES ASSUME <<p[j], p[i]>> \in R PROVE FALSE
      OBVIOUS
    <3>2. j < i
      BY <1>3, <2>1, <3>1
    <3>3. QED
      BY <1>13, <3>2
  <2>4. QED
    BY <2>1, <2>2, <2>3
<1>14. QED
  BY <1>12, <1>13

(* Rows by their keys.  A row has a value for every key.                   *)
KeyValues(a, keys) == \A j \in 1..Len(keys) : a[keys[j]] \in Literal

(* Two rows that can be compared as far as they agree.                     *)
CanCompare(a, b, keys) ==
    \A k \in 1..Len(keys) : SameUpTo(a, b, keys, k) => Comparable(a[keys[k]], b[keys[k]])

LEMMA LiteralDiffers ==
    ASSUME NEW a \in Literal, NEW b \in Literal
    PROVE  /\ Comparable(a, b) /\ a # b => Precedes(a, b) \/ Precedes(b, a)
           /\ ~(Precedes(a, b) /\ Precedes(b, a)) /\ ~Precedes(a, a)
           /\ \A c \in Literal : Precedes(a, b) /\ Precedes(b, c) => Precedes(a, c)
BY DEF Literal, Comparable, Precedes

(* The first key by which two rows differ decides.                         *)
LEMMA FirstDifference ==
    ASSUME NEW P, NEW keys \in Seq(P), NEW a, NEW b, NEW m \in 1..(Len(keys) + 1),
           ~SameUpTo(a, b, keys, m)
    PROVE  \E k \in 1..Len(keys) : /\ k < m /\ SameUpTo(a, b, keys, k)
                                  /\ a[keys[k]] # b[keys[k]]
<1> DEFINE T == {n \in Nat : n < m => SameUpTo(a, b, keys, n + 1)}
<1>1. SUFFICES ASSUME ~ \E k \in 1..Len(keys) : /\ k < m /\ SameUpTo(a, b, keys, k)
                                  /\ a[keys[k]] # b[keys[k]]
               PROVE  FALSE
  OBVIOUS
<1>0. Len(keys) \in Nat
  OBVIOUS
<1>2. 0 \in T
  BY DEF SameUpTo
<1>3. ASSUME NEW n \in Nat, n \in T PROVE n + 1 \in T
  <2> SUFFICES ASSUME n + 1 < m PROVE SameUpTo(a, b, keys, (n + 1) + 1)
    OBVIOUS
  <2>1. SameUpTo(a, b, keys, n + 1)
    BY <1>0, <1>3
  <2>2. n + 1 \in 1..Len(keys) /\ n + 1 < m
    BY <1>0
  <2>3. a[keys[n + 1]] = b[keys[n + 1]]
    BY <1>1, <2>1, <2>2
  <2>4. QED
    BY <1>3, <2>1, <2>3 DEF SameUpTo
<1> HIDE DEF T
<1>4. m - 1 \in Nat /\ m - 1 \in T
  BY <1>0, <1>2, <1>3, CountingUp
<1>5. m - 1 < m /\ (m - 1) + 1 = m
  BY <1>0
<1>6. SameUpTo(a, b, keys, m)
  <2>1. SameUpTo(a, b, keys, (m - 1) + 1)
    BY <1>4, <1>5 DEF T
  <2>2. QED
    BY <1>5, <2>1
<1>7. QED
  BY <1>6

LEMMA BelowOrder ==
    ASSUME NEW P, NEW keys \in Seq(P), NEW a, NEW b, NEW c,
           KeyValues(a, keys), KeyValues(b, keys), KeyValues(c, keys)
    PROVE  /\ ~Below(a, a, keys)
           /\ Below(a, b, keys) => ~Below(b, a, keys) /\ ~SameKey(a, b, keys)
           /\ Below(a, b, keys) /\ Below(b, c, keys) => Below(a, c, keys)
           /\ Below(a, b, keys) /\ SameKey(b, c, keys) => Below(a, c, keys)
           /\ SameKey(a, b, keys) /\ Below(b, c, keys) => Below(a, c, keys)
           /\ SameKey(a, b, keys) /\ SameKey(b, c, keys) => SameKey(a, c, keys)
           /\ SameKey(a, b, keys) => SameKey(b, a, keys)
           /\ SameKey(a, a, keys)
<1> DEFINE N == Len(keys)
<1>0. N \in Nat /\ DOMAIN keys = 1..N
  OBVIOUS
<1>1. \A x, y : SameKey(x, y, keys) <=> \A j \in 1..N : x[keys[j]] = y[keys[j]]
  BY <1>0 DEF SameKey, SameUpTo
<1>2. \A x, y, k : SameUpTo(x, y, keys, k) <=> \A j \in 1..(k - 1) : x[keys[j]] = y[keys[j]]
  BY DEF SameUpTo
<1>3. \A j \in 1..N : a[keys[j]] \in Literal /\ b[keys[j]] \in Literal /\ c[keys[j]] \in Literal
  BY DEF KeyValues
<1>4. \A x, y : Below(x, y, keys) <=>
                   \E k \in 1..N : /\ \A j \in 1..(k - 1) : x[keys[j]] = y[keys[j]]
                                   /\ Precedes(x[keys[k]], y[keys[k]])
  BY <1>0 DEF Below, SameUpTo
<1>5. ~Below(a, a, keys)
  BY <1>3, <1>4, LiteralDiffers
<1>6. ASSUME Below(a, b, keys) PROVE ~Below(b, a, keys) /\ ~SameKey(a, b, keys)
  <2>1. PICK k \in 1..N : /\ \A j \in 1..(k - 1) : a[keys[j]] = b[keys[j]]
                          /\ Precedes(a[keys[k]], b[keys[k]])
    BY <1>4, <1>6
  <2>2. a[keys[k]] # b[keys[k]] /\ ~Precedes(b[keys[k]], a[keys[k]])
    BY <1>3, <2>1, LiteralDiffers
  <2>3. ASSUME NEW l \in 1..N, \A j \in 1..(l - 1) : b[keys[j]] = a[keys[j]],
               Precedes(b[keys[l]], a[keys[l]])
        PROVE  FALSE
    <3>1. a[keys[l]] # b[keys[l]]
      BY <1>3, <2>3, LiteralDiffers
    <3>2. ~(l < k) /\ ~(k < l)
      BY <2>1, <2>2, <2>3, <3>1
    <3>3. l = k
      BY <3>2
    <3>4. QED
      BY <2>2, <2>3, <3>3
  <2>4. QED
    BY <1>1, <1>4, <2>2, <2>3
<1>7. ASSUME Below(a, b, keys), Below(b, c, keys) PROVE Below(a, c, keys)
  <2>1. PICK k \in 1..N : /\ \A j \in 1..(k - 1) : a[keys[j]] = b[keys[j]]
                          /\ Precedes(a[keys[k]], b[keys[k]])
    BY <1>4, <1>7
  <2>2. PICK l \in 1..N : /\ \A j \in 1..(l - 1) : b[keys[j]] = c[keys[j]]
                          /\ Precedes(b[keys[l]], c[keys[l]])
    BY <1>4, <1>7
  <2>3. CASE k < l
    <3>1. k \in 1..(l - 1) /\ \A j \in 1..(k - 1) : j \in 1..(l - 1)
      BY <2>3
    <3>2. QED
      BY <1>4, <2>1, <2>2, <3>1
  <2>4. CASE l < k
    <3>1. l \in 1..(k - 1) /\ \A j \in 1..(l - 1) : j \in 1..(k - 1)
      BY <2>4
    <3>2. QED
      BY <1>4, <2>1, <2>2, <3>1
  <2>5. CASE l = k
    <3>1. Precedes(a[keys[k]], c[keys[k]])
      BY <1>3, <2>1, <2>2, <2>5, LiteralDiffers
    <3>2. QED
      BY <1>4, <2>1, <2>2, <2>5, <3>1
  <2>6. QED
    BY <2>3, <2>4, <2>5
<1>8. ASSUME Below(a, b, keys), SameKey(b, c, keys) PROVE Below(a, c, keys)
  <2>1. PICK k \in 1..N : /\ \A j \in 1..(k - 1) : a[keys[j]] = b[keys[j]]
                          /\ Precedes(a[keys[k]], b[keys[k]])
    BY <1>4, <1>8
  <2>2. \A j \in 1..(k - 1) : j \in 1..N
    BY <1>0
  <2>3. QED
    BY <1>1, <1>4, <1>8, <2>1, <2>2
<1>9. ASSUME SameKey(a, b, keys), Below(b, c, keys) PROVE Below(a, c, keys)
  <2>1. PICK k \in 1..N : /\ \A j \in 1..(k - 1) : b[keys[j]] = c[keys[j]]
                          /\ Precedes(b[keys[k]], c[keys[k]])
    BY <1>4, <1>9
  <2>2. \A j \in 1..(k - 1) : j \in 1..N
    BY <1>0
  <2>3. QED
    BY <1>1, <1>4, <1>9, <2>1, <2>2
<1>10. /\ SameKey(a, b, keys) /\ SameKey(b, c, keys) => SameKey(a, c, keys)
       /\ SameKey(a, b, keys) => SameKey(b, a, keys)
       /\ SameKey(a, a, keys)
  BY <1>1
<1>11. QED
  BY <1>5, <1>6, <1>7, <1>8, <1>9, <1>10

LEMMA BelowTotal ==
    ASSUME NEW P, NEW keys \in Seq(P), NEW a, NEW b,
           KeyValues(a, keys), KeyValues(b, keys), CanCompare(a, b, keys),
           ~SameKey(a, b, keys)
    PROVE  Below(a, b, keys) \/ Below(b, a, keys)
<1>0. Len(keys) \in Nat /\ DOMAIN keys = 1..Len(keys) /\ Len(keys) + 1 \in 1..(Len(keys) + 1)
  OBVIOUS
<1>1. PICK k \in 1..Len(keys) : SameUpTo(a, b, keys, k) /\ a[keys[k]] # b[keys[k]]
  <2>1. ~SameUpTo(a, b, keys, Len(keys) + 1)
    BY DEF SameKey
  <2>2. QED
    BY <1>0, <2>1, FirstDifference
<1>2. Precedes(a[keys[k]], b[keys[k]]) \/ Precedes(b[keys[k]], a[keys[k]])
  BY <1>1, LiteralDiffers DEF KeyValues, CanCompare
<1>3. SameUpTo(b, a, keys, k)
  BY <1>1 DEF SameUpTo
<1>4. QED
  BY <1>0, <1>1, <1>2, <1>3 DEF Below

-----------------------------------------------------------------------------
(* The engines *)

(* Data: C columns of N values each.                                       *)
IsData(cols, C, N) ==
    /\ C \in Nat \ {0} /\ N \in Nat
    /\ cols \in [1..C -> [1..N -> Literal]]

LEMMA DataShape ==
    ASSUME NEW cols, NEW C, NEW N, IsData(cols, C, N), NEW keys \in Seq(1..C)
    PROVE  /\ DOMAIN cols = 1..C /\ RowCount(cols) = N
           /\ \A c \in 1..C : cols[c] \in Seq(Literal) /\ Len(cols[c]) = N
           /\ \A i \in 1..N : /\ DOMAIN RowAt(cols, i) = 1..C
                              /\ \A c \in 1..C : RowAt(cols, i)[c] = cols[c][i]
                              /\ KeyValues(RowAt(cols, i), keys)
<1>1. C \in Nat \ {0} /\ N \in Nat /\ cols \in [1..C -> [1..N -> Literal]]
  BY DEF IsData
<1>2. \A c \in 1..C : cols[c] \in Seq(Literal) /\ Len(cols[c]) = N
  BY <1>1
<1>3. DOMAIN cols = 1..C /\ RowCount(cols) = N
  <2>1. 1 \in 1..C
    BY <1>1
  <2>2. QED
    BY <1>1, <1>2, <2>1 DEF RowCount
<1>4. ASSUME NEW i \in 1..N
      PROVE  /\ DOMAIN RowAt(cols, i) = 1..C
             /\ \A c \in 1..C : RowAt(cols, i)[c] = cols[c][i]
             /\ KeyValues(RowAt(cols, i), keys)
  <2>1. DOMAIN RowAt(cols, i) = 1..C /\ \A c \in 1..C : RowAt(cols, i)[c] = cols[c][i]
    BY <1>3 DEF RowAt
  <2>2. \A c \in 1..C : cols[c][i] \in Literal
    BY <1>1, <1>4
  <2>3. \A j \in 1..Len(keys) : keys[j] \in 1..C
    BY <1>1
  <2>4. KeyValues(RowAt(cols, i), keys)
    BY <2>1, <2>2, <2>3 DEF KeyValues
  <2>5. QED
    BY <2>1, <2>4
<1>5. QED
  BY <1>2, <1>3, <1>4

(* MergeTree answers the same rows, each once and whole, in order.         *)
(* (MergeTreeEngine::order_columns)                                        *)
THEOREM MergeTreeOrders ==
    ASSUME NEW cols, NEW C, NEW N, IsData(cols, C, N), NEW keys,
           NEW result \in MergeTreeResults(cols, keys)
    PROVE  \E p \in Orders(N) :
              /\ result = [c \in 1..C |-> [i \in 1..N |-> cols[c][p[i]]]]
              /\ \A i, j \in 1..N :
                    i < j => ~Below(RowAt(cols, p[j]), RowAt(cols, p[i]), keys)
<1>1. DOMAIN cols = 1..C /\ RowCount(cols) = N
      /\ \A c \in 1..C : cols[c] \in Seq(Literal) /\ Len(cols[c]) = N
  <2>1. <<>> \in Seq(1..C)
    BY EmptySeq
  <2>2. QED
    BY <2>1, DataShape
<1>2. PICK p \in SortedOrders(cols, keys) :
          result = [c \in 1..C |-> ApplyPermutation(cols[c], p)]
  BY <1>1 DEF MergeTreeResults
<1>3. N \in Nat
  BY DEF IsData
<1>4. /\ p \in Orders(N)
      /\ \A i, j \in DOMAIN p : i < j => ~Below(RowAt(cols, p[j]), RowAt(cols, p[i]), keys)
  BY <1>1, <1>2 DEF SortedOrders
<1>5. DOMAIN p = 1..N
  BY <1>3, <1>4, OrderShape
<1>6. \A c \in 1..C : ApplyPermutation(cols[c], p) = [i \in 1..N |-> cols[c][p[i]]]
  BY <1>1, <1>4, PermutationApplied
<1>7. QED
  BY <1>2, <1>4, <1>5, <1>6

(* Where nothing panics, there is a stable order, and sort_by answers it.  *)
LEMMA StableOrderIs ==
    ASSUME NEW cols, NEW C, NEW N, IsData(cols, C, N), NEW keys \in Seq(1..C),
           ~OrderPanics(cols, keys)
    PROVE  LET p == StableOrder(cols, keys)
           IN  /\ p \in Orders(N)
               /\ \A i, j \in 1..N : i < j =>
                     /\ ~Below(RowAt(cols, p[j]), RowAt(cols, p[i]), keys)
                     /\ SameKey(RowAt(cols, p[i]), RowAt(cols, p[j]), keys) => p[i] < p[j]
<1>0. N \in Nat /\ DOMAIN cols = 1..C /\ RowCount(cols) = N
      /\ Len(keys) \in Nat /\ DOMAIN keys = 1..Len(keys)
  <2>1. N \in Nat /\ Len(keys) \in Nat /\ DOMAIN keys = 1..Len(keys)
    BY DEF IsData
  <2>2. DOMAIN cols = 1..C /\ RowCount(cols) = N
    BY DataShape
  <2>3. QED
    BY <2>1, <2>2
<1> DEFINE row == [i \in 1..N |-> RowAt(cols, i)]
<1>1. \A i \in 1..N : row[i] = RowAt(cols, i) /\ KeyValues(row[i], keys)
  BY DataShape
<1>2. \A i, j \in 1..N : CanCompare(row[i], row[j], keys)
  BY <1>0 DEF OrderPanics, CanCompare
<1> HIDE DEF row
<1> DEFINE R == {x \in (1..N) \X (1..N) :
                    \/ Below(row[x[1]], row[x[2]], keys)
                    \/ SameKey(row[x[1]], row[x[2]], keys) /\ x[1] < x[2]}
<1>3. \A i, j \in 1..N : <<i, j>> \in R <=>
          \/ Below(row[i], row[j], keys)
          \/ SameKey(row[i], row[j], keys) /\ i < j
  <2> TAKE i, j \in 1..N
  <2> DEFINE x == <<i, j>>
  <2>1. x[1] = i /\ x[2] = j /\ x \in (1..N) \X (1..N)
    OBVIOUS
  <2> HIDE DEF x
  <2>2. x \in R <=> \/ Below(row[i], row[j], keys)
                    \/ SameKey(row[i], row[j], keys) /\ i < j
    BY <2>1
  <2>3. QED
    BY <2>2 DEF x
<1> HIDE DEF R
<1>4. \A i \in 1..N : <<i, i>> \notin R
  <2> TAKE i \in 1..N
  <2>1. ~Below(row[i], row[i], keys) /\ ~(i < i)
    BY <1>1, BelowOrder
  <2>2. QED
    BY <1>3, <2>1
<1>5. \A i, j, k \in 1..N : <<i, j>> \in R /\ <<j, k>> \in R => <<i, k>> \in R
  <2> TAKE i, j, k \in 1..N
  <2> HAVE <<i, j>> \in R /\ <<j, k>> \in R
  <2> DEFINE a == row[i]
             b == row[j]
             c == row[k]
  <2>1. KeyValues(a, keys) /\ KeyValues(b, keys) /\ KeyValues(c, keys)
    BY <1>1
  <2>2. Below(a, b, keys) \/ (SameKey(a, b, keys) /\ i < j)
    BY <1>3
  <2>3. Below(b, c, keys) \/ (SameKey(b, c, keys) /\ j < k)
    BY <1>3
  <2> HIDE DEF a, b, c
  <2>4. /\ Below(a, b, keys) /\ Below(b, c, keys) => Below(a, c, keys)
        /\ Below(a, b, keys) /\ SameKey(b, c, keys) => Below(a, c, keys)
        /\ SameKey(a, b, keys) /\ Below(b, c, keys) => Below(a, c, keys)
        /\ SameKey(a, b, keys) /\ SameKey(b, c, keys) => SameKey(a, c, keys)
    BY <2>1, BelowOrder
  <2>5. Below(a, c, keys) \/ (SameKey(a, c, keys) /\ i < k)
    <3>1. i < j /\ j < k => i < k
      OBVIOUS
    <3>2. QED
      BY <2>2, <2>3, <2>4, <3>1
  <2>6. QED
    BY <1>3, <2>5 DEF a, c
<1>6. \A i, j \in 1..N : i = j \/ <<i, j>> \in R \/ <<j, i>> \in R
  <2> TAKE i, j \in 1..N
  <2> DEFINE a == row[i]
             b == row[j]
  <2>1. KeyValues(a, keys) /\ KeyValues(b, keys) /\ CanCompare(a, b, keys)
    BY <1>1, <1>2
  <2> HIDE DEF a, b
  <2>2. SameKey(a, b, keys) => SameKey(b, a, keys)
    BY <2>1, BelowOrder
  <2>3. ~SameKey(a, b, keys) => Below(a, b, keys) \/ Below(b, a, keys)
    BY <2>1, BelowTotal
  <2>4. i = j \/ i < j \/ j < i
    OBVIOUS
  <2>5. QED
    BY <1>3, <2>2, <2>3, <2>4 DEF a, b
<1>7. PICK q \in Orders(N) : \A i, j \in 1..N : i < j => <<q[i], q[j]>> \in R
  BY <1>0, <1>4, <1>5, <1>6, OrderExists
<1>8. q \in [1..N -> 1..N]
  BY <1>0, OrderShape
<1>9. ASSUME NEW i \in 1..N, NEW j \in 1..N, i < j
      PROVE  /\ ~Below(row[q[j]], row[q[i]], keys)
             /\ SameKey(row[q[i]], row[q[j]], keys) => q[i] < q[j]
  <2> DEFINE a == row[q[i]]
             b == row[q[j]]
  <2>1. q[i] \in 1..N /\ q[j] \in 1..N /\ <<q[i], q[j]>> \in R
    BY <1>7, <1>8, <1>9
  <2>2. KeyValues(a, keys) /\ KeyValues(b, keys)
    BY <1>1, <2>1
  <2>3. Below(a, b, keys) \/ (SameKey(a, b, keys) /\ q[i] < q[j])
    BY <1>3, <2>1
  <2> HIDE DEF a, b
  <2>4. /\ Below(a, b, keys) => ~Below(b, a, keys) /\ ~SameKey(a, b, keys)
        /\ Below(b, a, keys) => ~SameKey(b, a, keys)
        /\ SameKey(a, b, keys) => SameKey(b, a, keys)
    BY <2>2, BelowOrder
  <2>5. QED
    BY <2>3, <2>4 DEF a, b
<1> DEFINE Stable(p) == \A i, j \in DOMAIN p :
            /\ i < j
            /\ SameKey(RowAt(cols, p[i]), RowAt(cols, p[j]), keys)
            => p[i] < p[j]
<1>10. DOMAIN q = 1..N /\ \A i \in 1..N : row[q[i]] = RowAt(cols, q[i])
  BY <1>1, <1>8
<1>11. q \in SortedOrders(cols, keys) /\ Stable(q)
  BY <1>0, <1>9, <1>10 DEF SortedOrders
<1> DEFINE p == StableOrder(cols, keys)
<1>12. p \in SortedOrders(cols, keys) /\ Stable(p)
  BY <1>11 DEF StableOrder
<1> HIDE DEF p
<1>13. p \in Orders(N)
  BY <1>0, <1>12 DEF SortedOrders
<1>14. DOMAIN p = 1..N
  BY <1>0, <1>13, OrderShape
<1>15. \A i, j \in 1..N : i < j =>
                     /\ ~Below(RowAt(cols, p[j]), RowAt(cols, p[i]), keys)
                     /\ SameKey(RowAt(cols, p[i]), RowAt(cols, p[j]), keys) => p[i] < p[j]
  BY <1>0, <1>12, <1>14 DEF SortedOrders
<1>16. QED
  BY <1>13, <1>15 DEF p

(* The primary key is the beginning of the keys.                           *)
Begins(primary, keys) ==
    /\ Len(primary) <= Len(keys)
    /\ \A k \in 1..Len(primary) : primary[k] = keys[k]

(* Rows that agree on the primary key stand together.                      *)
LEMMA RunsOfPrimary ==
    ASSUME NEW P, NEW keys \in Seq(P), NEW primary \in Seq(P), Begins(primary, keys),
           NEW a, NEW b, NEW c, CanCompare(a, b, keys),
           KeyValues(a, keys), KeyValues(b, keys), KeyValues(c, keys),
           ~Below(b, a, keys), ~Below(c, b, keys), SameKey(a, c, primary)
    PROVE  SameKey(a, b, primary)
<1> DEFINE N == Len(keys)
           M == Len(primary)
<1>0. /\ N \in Nat /\ M \in Nat /\ M <= N /\ DOMAIN keys = 1..N
      /\ \A k \in 1..M : primary[k] = keys[k] /\ k \in 1..N
  BY DEF Begins
<1>1. SUFFICES ASSUME ~SameKey(a, b, primary) PROVE FALSE
  OBVIOUS
<1>2. PICK k \in 1..M : SameUpTo(a, b, primary, k) /\ a[primary[k]] # b[primary[k]]
  <2>1. ~SameUpTo(a, b, primary, M + 1)
    BY <1>1 DEF SameKey
  <2>2. M + 1 \in 1..(M + 1)
    BY <1>0
  <2>3. QED
    BY <2>1, <2>2, FirstDifference
<1>3. k \in 1..N /\ primary[k] = keys[k] /\ \A j \in 1..(k - 1) : j \in 1..M
  BY <1>0
<1>4. SameUpTo(a, b, keys, k) /\ a[keys[k]] # b[keys[k]]
  BY <1>0, <1>2, <1>3 DEF SameUpTo
<1>5. \A j \in 1..M : a[keys[j]] = c[keys[j]]
  BY <1>0 DEF SameKey, SameUpTo
<1>6. a[keys[k]] \in Literal /\ b[keys[k]] \in Literal /\ Comparable(a[keys[k]], b[keys[k]])
  BY <1>3, <1>4 DEF KeyValues, CanCompare
<1>7. Precedes(a[keys[k]], b[keys[k]]) \/ Precedes(b[keys[k]], a[keys[k]])
  BY <1>4, <1>6, LiteralDiffers
<1>8. ~Precedes(b[keys[k]], a[keys[k]])
  <2>1. SameUpTo(b, a, keys, k)
    BY <1>4 DEF SameUpTo
  <2>2. QED
    BY <1>0, <1>3, <2>1 DEF Below
<1>9. ~Precedes(c[keys[k]], b[keys[k]])
  <2>1. SameUpTo(c, b, keys, k)
    BY <1>3, <1>4, <1>5 DEF SameUpTo
  <2>2. QED
    BY <1>0, <1>3, <2>1 DEF Below
<1>10. a[keys[k]] = c[keys[k]]
  BY <1>5
<1>11. QED
  BY <1>7, <1>8, <1>9, <1>10

(* The rows at the places q, as columns.                                   *)
Picked(cols, C, q) == [c \in 1..C |-> [i \in 1..Len(q) |-> cols[c][q[i]]]]

(* A row that ReplacingMergeTree drops: another of its primary key comes   *)
(* after it in the order, or is equal to it there and was given later.     *)
Replaced(cols, keys, primary, i) ==
    \E j \in 1..RowCount(cols) :
        /\ SameKey(RowAt(cols, i), RowAt(cols, j), primary)
        /\ \/ Below(RowAt(cols, i), RowAt(cols, j), keys)
           \/ i < j /\ SameKey(RowAt(cols, i), RowAt(cols, j), keys)

(* ReplacingMergeTree keeps the last row of every primary key, and no      *)
(* other.  (ReplacingMergeTreeEngine::order_columns)                       *)
THEOREM ReplacingKeepsLast ==
    ASSUME NEW cols, NEW C, NEW N, IsData(cols, C, N), NEW keys \in Seq(1..C),
           NEW primary \in Seq(1..C), Begins(primary, keys), ~OrderPanics(cols, keys)
    PROVE  \E q \in Seq(1..N) :
              /\ ReplacingResult(cols, keys, primary) = Picked(cols, C, q)
              /\ Members(q) = {i \in 1..N : ~Replaced(cols, keys, primary, i)}
              /\ \A i, j \in 1..Len(q) : i < j =>
                    ~SameKey(RowAt(cols, q[i]), RowAt(cols, q[j]), primary)
<1>0. N \in Nat /\ DOMAIN cols = 1..C /\ RowCount(cols) = N
  <2>1. N \in Nat
    BY DEF IsData
  <2>2. QED
    BY <2>1, DataShape
<1> DEFINE p == StableOrder(cols, keys)
           row == [i \in 1..N |-> RowAt(cols, i)]
           s == [x \in 1..N |-> row[p[x]]]
           last == LastOfRuns(cols, p, primary)
<1>1. \A i \in 1..N : row[i] = RowAt(cols, i) /\ KeyValues(row[i], keys)
  BY DataShape
<1>2. \A i, j \in 1..N : CanCompare(row[i], row[j], keys)
  <2>1. DOMAIN keys = 1..Len(keys)
    OBVIOUS
  <2>2. QED
    BY <1>0, <2>1 DEF OrderPanics, CanCompare
<1> HIDE DEF row, p
<1>3. /\ p \in Orders(N)
      /\ \A i, j \in 1..N : i < j =>
            /\ ~Below(RowAt(cols, p[j]), RowAt(cols, p[i]), keys)
            /\ SameKey(RowAt(cols, p[i]), RowAt(cols, p[j]), keys) => p[i] < p[j]
  BY StableOrderIs DEF p
<1>4. /\ p \in [1..N -> 1..N]
      /\ \A x \in 1..N : \E i \in 1..N : p[i] = x
      /\ \A i, j \in 1..N : p[i] = p[j] => i = j
  <2>1. N \in Nat /\ p \in Orders(N)
    BY <1>0, <1>3
  <2>2. QED
    BY <2>1, OrderShape
<1>5. DOMAIN p = 1..N /\ Len(p) = N /\ \A x \in 1..N : p[x] \in 1..N
  BY <1>0, <1>4
<1>6. \A x \in 1..N : s[x] = row[p[x]] /\ s[x] = RowAt(cols, p[x]) /\ KeyValues(s[x], keys)
  BY <1>1, <1>5
<1>7. \A x, y \in 1..N : CanCompare(s[x], s[y], keys)
  BY <1>2, <1>5, <1>6
<1> HIDE DEF s
<1>8. \A x, y \in 1..N : x < y =>
          ~Below(s[y], s[x], keys) /\ (SameKey(s[x], s[y], keys) => p[x] < p[y])
  BY <1>3, <1>6
<1>9. \A x \in 1..N : x \in last <=> (x < N => ~SameKey(s[x], s[x + 1], primary))
  <2> TAKE x \in 1..N
  <2>1. x < N => x + 1 \in 1..N
    BY <1>0
  <2>2. x < N => s[x] = RowAt(cols, p[x]) /\ s[x + 1] = RowAt(cols, p[x + 1])
    BY <1>6, <2>1
  <2>3. QED
    BY <1>5, <2>2 DEF LastOfRuns
<1>10. last \subseteq 1..N
  BY <1>5 DEF LastOfRuns
<1> HIDE DEF last
(* Rows of one primary key stand together.                                 *)
<1>11. ASSUME NEW x \in 1..N, NEW y \in 1..N, x < y, SameKey(s[x], s[y], primary)
       PROVE  x \notin last
  <2>1. x + 1 \in 1..N /\ x < N /\ x < x + 1 /\ (x + 1 = y \/ x + 1 < y)
    BY <1>0, <1>11
  <2>2. SameKey(s[x], s[x + 1], primary)
    <3>1. CASE x + 1 = y
      BY <1>11, <3>1
    <3>2. CASE x + 1 < y
      <4>1. CanCompare(s[x], s[x + 1], keys)
        BY <1>7, <2>1
      <4>2. ~Below(s[x + 1], s[x], keys) /\ ~Below(s[y], s[x + 1], keys)
        BY <1>8, <2>1, <3>2
      <4>3. KeyValues(s[x], keys) /\ KeyValues(s[x + 1], keys) /\ KeyValues(s[y], keys)
        BY <1>6, <2>1
      <4>4. QED
        BY <1>11, <4>1, <4>2, <4>3, RunsOfPrimary
    <3>3. QED
      BY <2>1, <3>1, <3>2
  <2>3. QED
    BY <1>9, <2>1, <2>2
<1> DEFINE gone(i) == Replaced(cols, keys, primary, i)
<1>12. \A i \in 1..N : gone(i) <=>
           \E j \in 1..N : /\ SameKey(row[i], row[j], primary)
                           /\ \/ Below(row[i], row[j], keys)
                              \/ i < j /\ SameKey(row[i], row[j], keys)
  BY <1>0, <1>1 DEF Replaced
<1> HIDE DEF gone
<1>13. ASSUME NEW x \in 1..N, x \notin last PROVE gone(p[x])
  <2>1. x < N /\ SameKey(s[x], s[x + 1], primary)
    BY <1>9, <1>13
  <2>2. x + 1 \in 1..N /\ x < x + 1
    BY <1>0, <2>1
  <2>3. ~Below(s[x + 1], s[x], keys) /\ (SameKey(s[x], s[x + 1], keys) => p[x] < p[x + 1])
    BY <1>8, <2>2
  <2> DEFINE a == s[x]
             b == s[x + 1]
  <2>4. KeyValues(a, keys) /\ KeyValues(b, keys) /\ CanCompare(a, b, keys)
    BY <1>6, <1>7, <2>2
  <2> HIDE DEF a, b
  <2>5. SameKey(a, b, keys) \/ Below(a, b, keys) \/ Below(b, a, keys)
    BY <2>4, BelowTotal
  <2>6. SameKey(a, b, keys) \/ Below(a, b, keys)
    BY <2>3, <2>5 DEF a, b
  <2>7. p[x] \in 1..N /\ p[x + 1] \in 1..N /\ a = row[p[x]] /\ b = row[p[x + 1]]
    BY <1>5, <1>6, <2>2 DEF a, b
  <2>8. SameKey(a, b, primary) /\ (SameKey(a, b, keys) => p[x] < p[x + 1])
    BY <2>1, <2>3 DEF a, b
  <2>9. QED
    BY <1>12, <2>6, <2>7, <2>8
<1>14. ASSUME NEW x \in 1..N, gone(p[x]) PROVE x \notin last
  <2>1. p[x] \in 1..N
    BY <1>5
  <2>2. PICK j \in 1..N : /\ SameKey(row[p[x]], row[j], primary)
                          /\ \/ Below(row[p[x]], row[j], keys)
                             \/ p[x] < j /\ SameKey(row[p[x]], row[j], keys)
    BY <1>12, <1>14, <2>1
  <2>3. PICK y \in 1..N : p[y] = j
    BY <1>4
  <2> DEFINE a == s[x]
             b == s[y]
  <2>4. a = row[p[x]] /\ b = row[j] /\ KeyValues(a, keys) /\ KeyValues(b, keys)
    BY <1>6, <2>3
  <2> HIDE DEF a, b
  <2>5. /\ SameKey(a, b, primary)
        /\ Below(a, b, keys) \/ (p[x] < p[y] /\ SameKey(a, b, keys))
    BY <2>2, <2>3, <2>4
  <2>6. /\ ~Below(a, a, keys)
        /\ SameKey(a, b, keys) => SameKey(b, a, keys)
    BY <2>4, BelowOrder
  <2>7. p[x] \in Int /\ p[y] \in Int
    BY <1>5
  <2>8. ~(y < x)
    <3>1. SUFFICES ASSUME y < x PROVE FALSE
      OBVIOUS
    <3>2. ~Below(a, b, keys) /\ (SameKey(b, a, keys) => p[y] < p[x])
      BY <1>8, <3>1 DEF a, b
    <3>3. QED
      BY <2>5, <2>6, <2>7, <3>2
  <2>9. y # x
    <3>1. SUFFICES ASSUME y = x PROVE FALSE
      OBVIOUS
    <3>2. a = b
      BY <3>1 DEF a, b
    <3>3. QED
      BY <2>5, <2>6, <2>7, <3>1, <3>2
  <2>10. x < y
    BY <2>8, <2>9
  <2>11. QED
    BY <1>11, <2>5, <2>10 DEF a, b
<1> DEFINE f == Filtered(Places(N), last)
           q == [i \in 1..Len(f) |-> p[f[i]]]
<1>15. /\ f \in Seq(1..N) /\ Members(f) = (1..N) \cap last
       /\ \A i, j \in 1..Len(f) : i < j => f[i] < f[j]
  BY <1>0, PlacesKept
<1> HIDE DEF f
<1>16. Len(f) \in Nat /\ DOMAIN f = 1..Len(f) /\ \A i \in 1..Len(f) : f[i] \in 1..N
  BY <1>0, <1>15
<1>17. \A i \in 1..Len(f) : q[i] = p[f[i]] /\ q[i] \in 1..N
  BY <1>5, <1>16
<1>18. q \in Seq(1..N) /\ Len(q) = Len(f) /\ DOMAIN q = 1..Len(f)
  <2>1. q = [i \in 1..Len(f) |-> q[i]]
    OBVIOUS
  <2> HIDE DEF q
  <2>2. QED
    BY <1>16, <1>17, <2>1
<1> HIDE DEF q
<1>19. Members(q) = {i \in 1..N : ~gone(i)}
  <2>1. ASSUME NEW i \in Members(q) PROVE i \in 1..N /\ ~gone(i)
    <3>1. PICK x \in 1..Len(f) : i = q[x]
      BY <1>18, <2>1 DEF Members
    <3>2. i = p[f[x]] /\ f[x] \in 1..N /\ i \in 1..N
      BY <1>16, <1>17, <3>1
    <3>3. f[x] \in last
      BY <1>15, <1>16 DEF Members
    <3>4. QED
      BY <1>14, <3>2, <3>3
  <2>2. ASSUME NEW i \in 1..N, ~gone(i) PROVE i \in Members(q)
    <3>1. PICK x \in 1..N : p[x] = i
      BY <1>4
    <3>2. x \in last
      BY <1>13, <2>2, <3>1
    <3>3. x \in Members(f)
      BY <1>15, <3>2
    <3>4. PICK y \in 1..Len(f) : f[y] = x
      BY <1>16, <3>3 DEF Members
    <3>5. q[y] = i
      BY <1>17, <3>1, <3>4
    <3>6. QED
      BY <1>18, <3>5 DEF Members
  <2>3. QED
    BY <2>1, <2>2
<1>20. ASSUME NEW i \in 1..Len(q), NEW j \in 1..Len(q), i < j
       PROVE  ~SameKey(RowAt(cols, q[i]), RowAt(cols, q[j]), primary)
  <2>1. i \in 1..Len(f) /\ j \in 1..Len(f)
    BY <1>18
  <2>2. f[i] \in 1..N /\ f[j] \in 1..N /\ f[i] < f[j] /\ f[i] \in last
    BY <1>15, <1>16, <1>20, <2>1 DEF Members
  <2>3. ~SameKey(s[f[i]], s[f[j]], primary)
    BY <1>11, <2>2
  <2>4. s[f[i]] = RowAt(cols, q[i]) /\ s[f[j]] = RowAt(cols, q[j])
    BY <1>6, <1>17, <2>1, <2>2
  <2>5. QED
    BY <2>3, <2>4
<1>21. ReplacingResult(cols, keys, primary) = Picked(cols, C, q)
  <2>1. Filtered([i \in DOMAIN p |-> i], LastOfRuns(cols, p, primary)) = f
    BY <1>5 DEF f, last, Places
  <2>2. ReplacingResult(cols, keys, primary) =
           [c \in DOMAIN cols |-> [i \in DOMAIN f |-> cols[c][p[f[i]]]]]
    BY <2>1 DEF ReplacingResult, p
  <2>3. \A c \in 1..C : [i \in DOMAIN f |-> cols[c][p[f[i]]]] = [i \in 1..Len(q) |-> cols[c][q[i]]]
    BY <1>16, <1>17, <1>18
  <2>4. QED
    BY <1>0, <2>2, <2>3 DEF Picked
<1>22. QED
  BY <1>18, <1>19, <1>20, <1>21 DEF gone

=============================================================================
