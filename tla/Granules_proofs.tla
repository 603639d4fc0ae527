--------------------------- MODULE Granules_proofs ---------------------------
(***************************************************************************)
(* Lists of parts and granules of rows, for every list, every number of    *)
(* rows and every granularity.                                             *)
(***************************************************************************)
EXTENDS Granules, Lists_proofs

-----------------------------------------------------------------------------
(* Lists of parts *)

(* The members of a list over S are in S. *)
LEMMA MembersType ==
    ASSUME NEW S, NEW s \in Seq(S)
    PROVE  Members(s) \subseteq S
BY DEF Members

(* Position finds an occurrence, or answers 0. *)
LEMMA PositionType ==
    ASSUME NEW S, NEW s \in Seq(S), NEW p
    PROVE  /\ Position(s, p) \in 0..Len(s)
           /\ Position(s, p) # 0 => s[Position(s, p)] = p
BY DEF Position, Members

(* What follows a part in the list is in the list. *)
LEMMA AfterType ==
    ASSUME NEW S, NEW s \in Seq(S), NEW p
    PROVE  /\ After(s, p) \subseteq Members(s)
           /\ \A q, r \in After(s, p) : q = r
<1>1. Position(s, p) \in 0..Len(s)
  BY PositionType
<1>2. QED
  BY <1>1 DEF After, Members

(* Position finds every member, and the list has it nowhere else. *)
LEMMA PositionFound ==
    ASSUME NEW S, NEW s \in Seq(S), NEW p
    PROVE  /\ Position(s, p) \in 0..Len(s)
           /\ p \in Members(s) => Position(s, p) # 0 /\ s[Position(s, p)] = p
           /\ p \notin Members(s) => Position(s, p) = 0
           /\ Distinct(s) => \A i \in 1..Len(s) : s[i] = p => Position(s, p) = i
BY DEF Position, Members, Distinct

-----------------------------------------------------------------------------
(* Members *)

LEMMA MembersCat ==
    ASSUME NEW S, NEW a \in Seq(S), NEW b \in Seq(S)
    PROVE  Members(Cat(a, b)) = Members(a) \cup Members(b)
<1> DEFINE c == Cat(a, b)
<1>1. c \in Seq(S) /\ Len(c) = Len(a) + Len(b)
  BY CatType
<1>2. \A i \in 1..Len(a) : c[i] = a[i]
  BY CatType
<1>3. \A i \in 1..Len(b) : c[Len(a) + i] = b[i]
  BY CatType
<1>4. /\ Len(a) \in Nat /\ Len(b) \in Nat
      /\ DOMAIN a = 1..Len(a) /\ DOMAIN b = 1..Len(b) /\ DOMAIN c = 1..Len(c)
  <2> HIDE DEF c
  <2>1. QED
    BY <1>1
<1> HIDE DEF c
<1>5. ASSUME NEW x \in Members(c) PROVE x \in Members(a) \cup Members(b)
  <2>1. PICK i \in 1..Len(c) : x = c[i]
    BY <1>4 DEF Members
  <2>2. CASE i <= Len(a)
    <3>1. i \in 1..Len(a)
      BY <1>4, <2>2
    <3>2. QED
      BY <1>2, <1>4, <2>1, <3>1 DEF Members
  <2>3. CASE ~(i <= Len(a))
    <3>1. i - Len(a) \in 1..Len(b) /\ Len(a) + (i - Len(a)) = i
      BY <1>1, <1>4, <2>3
    <3>2. c[i] = b[i - Len(a)]
      BY <1>3, <3>1
    <3>3. QED
      BY <1>4, <2>1, <3>1, <3>2 DEF Members
  <2>4. QED
    BY <2>2, <2>3
<1>6. ASSUME NEW x \in Members(a) PROVE x \in Members(c)
  <2>1. PICK i \in 1..Len(a) : x = a[i]
    BY <1>4 DEF Members
  <2>2. i \in 1..Len(c) /\ c[i] = x
    BY <1>1, <1>2, <1>4, <2>1
  <2>3. QED
    BY <1>4, <2>2 DEF Members
<1>7. ASSUME NEW x \in Members(b) PROVE x \in Members(c)
  <2>1. PICK i \in 1..Len(b) : x = b[i]
    BY <1>4 DEF Members
  <2>2. Len(a) + i \in 1..Len(c) /\ c[Len(a) + i] = x
    BY <1>1, <1>3, <1>4, <2>1
  <2>3. QED
    BY <1>4, <2>2 DEF Members
<1>8. QED
  BY <1>5, <1>6, <1>7 DEF c

LEMMA PieceMembers ==
    ASSUME NEW S, NEW s \in Seq(S), NEW m \in Int, NEW n \in Int,
           m >= 1, n <= Len(s)
    PROVE  Members(Piece(s, m, n)) \subseteq Members(s)
BY DEF Piece, Members

-----------------------------------------------------------------------------
(* What a filter keeps *)

KeptOf(rows, keep) ==
    [i \in DOMAIN rows |-> IF rows[i] \in keep THEN <<rows[i]>> ELSE <<>>]

LEMMA KeptOfType ==
    ASSUME NEW S, NEW rows \in Seq(S), NEW keep
    PROVE  /\ KeptOf(rows, keep) \in Seq(Seq(S))
           /\ Len(KeptOf(rows, keep)) = Len(rows)
           /\ \A i \in 1..Len(rows) :
                 KeptOf(rows, keep)[i] = IF rows[i] \in keep THEN <<rows[i]>> ELSE <<>>
           /\ Filtered(rows, keep) = FlattenSeq(KeptOf(rows, keep))
<1> DEFINE Q == Seq(S)
           c == KeptOf(rows, keep)
<1>1. \A r \in S : <<r>> \in Q
  OBVIOUS
<1>2. <<>> \in Q /\ Len(rows) \in Nat /\ DOMAIN rows = 1..Len(rows)
      /\ \A i \in 1..Len(rows) : rows[i] \in S
  BY EmptySeq
<1> HIDE DEF Q
<1>3. c = [i \in 1..Len(rows) |-> IF rows[i] \in keep THEN <<rows[i]>> ELSE <<>>]
  BY <1>2 DEF KeptOf
<1>4. \A i \in 1..Len(rows) : (IF rows[i] \in keep THEN <<rows[i]>> ELSE <<>>) \in Q
  BY <1>1, <1>2
<1> DEFINE E(i) == IF rows[i] \in keep THEN <<rows[i]>> ELSE <<>>
<1> HIDE DEF E
<1>5. c = [i \in 1..Len(rows) |-> E(i)] /\ \A i \in 1..Len(rows) : E(i) \in Q
  BY <1>3, <1>4 DEF E
<1> HIDE DEF c
<1>6. c \in Seq(Q) /\ Len(c) = Len(rows) /\ \A i \in 1..Len(rows) : c[i] = E(i)
  BY <1>2, <1>5
<1>7. QED
  BY <1>6 DEF Q, c, E, Filtered, KeptOf

(* Filtering goes chunk by chunk.                                          *)
LEMMA FilteredCat ==
    ASSUME NEW S, NEW a \in Seq(S), NEW b \in Seq(S), NEW keep
    PROVE  Filtered(Cat(a, b), keep) = Cat(Filtered(a, keep), Filtered(b, keep))
<1> DEFINE Q == Seq(S)
           ab == Cat(a, b)
           p == KeptOf(a, keep)
           q == KeptOf(b, keep)
           c == KeptOf(ab, keep)
           pq == Cat(p, q)
<1>1. /\ ab \in Seq(S) /\ Len(ab) = Len(a) + Len(b) /\ Len(a) \in Nat /\ Len(b) \in Nat
      /\ \A i \in 1..Len(a) : ab[i] = a[i]
      /\ \A i \in 1..Len(b) : ab[Len(a) + i] = b[i]
  <2>1. ab \in Seq(S) /\ Len(ab) = Len(a) + Len(b)
    BY CatType
  <2>2. \A i \in 1..Len(a) : ab[i] = a[i]
    BY CatType
  <2>3. \A i \in 1..Len(b) : ab[Len(a) + i] = b[i]
    BY CatType
  <2>4. QED
    BY <2>1, <2>2, <2>3
<1>2. /\ p \in Seq(Q) /\ Len(p) = Len(a)
      /\ \A i \in 1..Len(a) : p[i] = IF a[i] \in keep THEN <<a[i]>> ELSE <<>>
      /\ Filtered(a, keep) = FlattenSeq(p)
  BY KeptOfType
<1>3. /\ q \in Seq(Q) /\ Len(q) = Len(b)
      /\ \A i \in 1..Len(b) : q[i] = IF b[i] \in keep THEN <<b[i]>> ELSE <<>>
      /\ Filtered(b, keep) = FlattenSeq(q)
  BY KeptOfType
<1> HIDE DEF p, q, ab
<1>4. /\ c \in Seq(Q) /\ Len(c) = Len(ab)
      /\ \A i \in 1..Len(ab) : c[i] = IF ab[i] \in keep THEN <<ab[i]>> ELSE <<>>
      /\ Filtered(ab, keep) = FlattenSeq(c)
  BY <1>1, KeptOfType
<1>5. Filtered(a, keep) = FlattenSeq(p) /\ Filtered(b, keep) = FlattenSeq(q)
      /\ FlattenSeq(pq) = Cat(FlattenSeq(p), FlattenSeq(q))
  BY <1>2, <1>3, FlatCat
<1> HIDE DEF Q, c
<1>t. p \in Seq(Q) /\ q \in Seq(Q)
  BY <1>2, <1>3
<1>6. pq \in Seq(Q)
  BY <1>t, CatType
<1>7. Len(pq) = Len(p) + Len(q)
  BY <1>t, CatType
<1>8. \A i \in 1..Len(p) : pq[i] = p[i]
  BY <1>t, CatType
<1>9. \A i \in 1..Len(q) : pq[Len(p) + i] = q[i]
  BY <1>t, CatType
<1> HIDE DEF pq
<1>10. ASSUME NEW i \in 1..Len(ab) PROVE c[i] = pq[i]
  <2>1. CASE i <= Len(a)
    <3>1. i \in 1..Len(a)
      BY <1>1, <2>1
    <3>2. c[i] = IF a[i] \in keep THEN <<a[i]>> ELSE <<>>
      BY <1>1, <1>4, <3>1
    <3>3. QED
      BY <1>2, <1>8, <3>1, <3>2
  <2>2. CASE ~(i <= Len(a))
    <3> DEFINE j == i - Len(a)
    <3>1. j \in 1..Len(b) /\ Len(a) + j = i
      BY <1>1, <2>2
    <3>2. ab[i] = b[j] /\ pq[i] = q[j]
      BY <1>1, <1>2, <1>3, <1>9, <3>1
    <3>3. q[j] = IF b[j] \in keep THEN <<b[j]>> ELSE <<>>
      BY <1>3, <3>1
    <3>4. QED
      BY <1>4, <3>2, <3>3
  <2>3. QED
    BY <2>1, <2>2
<1>11. c = pq
  <2>1. Len(c) = Len(pq) /\ Len(c) = Len(ab)
    BY <1>1, <1>2, <1>3, <1>4, <1>7
  <2>2. QED
    BY <1>4, <1>6, <1>10, <2>1, SeqEqual
<1>12. QED
  BY <1>4, <1>5, <1>11 DEF ab

LEMMA FilteredOne ==
    ASSUME NEW S, NEW r \in S, NEW keep
    PROVE  Filtered(<<r>>, keep) = IF r \in keep THEN <<r>> ELSE <<>>
<1> DEFINE e == IF r \in keep THEN <<r>> ELSE <<>>
           c == KeptOf(<<r>>, keep)
<1>1. <<r>> \in Seq(S) /\ Len(<<r>>) = 1 /\ <<r>>[1] = r /\ e \in Seq(S)
  BY EmptySeq
<1>2. c \in Seq(Seq(S)) /\ Len(c) = 1 /\ c[1] = e /\ Filtered(<<r>>, keep) = FlattenSeq(c)
  <2> DEFINE s == <<r>>
  <2> HIDE DEF s
  <2>1. s \in Seq(S) /\ Len(s) = 1 /\ s[1] = r
    BY <1>1 DEF s
  <2>2. /\ KeptOf(s, keep) \in Seq(Seq(S))
        /\ Len(KeptOf(s, keep)) = 1
        /\ KeptOf(s, keep)[1] = IF s[1] \in keep THEN <<s[1]>> ELSE <<>>
        /\ Filtered(s, keep) = FlattenSeq(KeptOf(s, keep))
    BY <2>1, KeptOfType
  <2>3. QED
    BY <2>1, <2>2 DEF s
<1> HIDE DEF c, e
<1>3. c = <<e>>
  BY <1>2
<1>4. FlattenSeq(<<e>>) = e
  BY <1>1, FlatOne
<1>5. QED
  BY <1>2, <1>3, <1>4 DEF e

LEMMA FilteredEmpty ==
    ASSUME NEW keep
    PROVE  Filtered(<<>>, keep) = <<>>
<1>1. <<>> \in Seq({}) /\ Len(<<>>) = 0
  BY EmptySeq
<1>2. KeptOf(<<>>, keep) \in Seq(Seq({})) /\ Len(KeptOf(<<>>, keep)) = 0
      /\ Filtered(<<>>, keep) = FlattenSeq(KeptOf(<<>>, keep))
  BY <1>1, KeptOfType
<1>3. KeptOf(<<>>, keep) = <<>>
  BY <1>2, EmptySeq
<1>4. QED
  BY <1>2, <1>3, FlatEmpty

LEMMA FilteredType ==
    ASSUME NEW S, NEW rows \in Seq(S), NEW keep
    PROVE  Filtered(rows, keep) \in Seq(S)
<1>1. KeptOf(rows, keep) \in Seq(Seq(S)) /\ Filtered(rows, keep) = FlattenSeq(KeptOf(rows, keep))
  BY KeptOfType
<1>2. QED
  BY <1>1, FlatType

(* A filter adds no row, and one that keeps every row changes nothing.     *)
LEMMA FilteredBounds ==
    ASSUME NEW S, NEW rows \in Seq(S), NEW keep
    PROVE  /\ Len(Filtered(rows, keep)) <= Len(rows)
           /\ Members(rows) \subseteq keep => Filtered(rows, keep) = rows
<1> DEFINE G(s) == /\ Len(Filtered(s, keep)) <= Len(s)
                   /\ (Members(s) \subseteq keep => Filtered(s, keep) = s)
           T == {n \in Nat : \A s \in Seq(S) : Len(s) = n => G(s)}
<1>1. 0 \in T
  <2>1. ASSUME NEW s \in Seq(S), Len(s) = 0 PROVE G(s)
    <3>1. s = <<>> /\ Len(<<>>) = 0
      BY <2>1, EmptySeq
    <3>2. Filtered(s, keep) = s
      BY <3>1, FilteredEmpty
    <3>3. QED
      BY <2>1, <3>2
  <2>2. QED
    BY <2>1
<1>2. ASSUME NEW n \in Nat, n \in T PROVE n + 1 \in T
  <2>1. ASSUME NEW s \in Seq(S), Len(s) = n + 1 PROVE G(s)
    <3> DEFINE a == Piece(s, 1, n)
               r == s[n + 1]
               one == Piece(s, n + 1, n + 1)
    <3>1. a \in Seq(S) /\ Len(a) = n /\ r \in S /\ one = <<r>> /\ one \in Seq(S)
          /\ Members(a) \subseteq Members(s) /\ r \in Members(s)
      <4>a. a \in Seq(S) /\ Len(a) = n
        <5>1. 1 <= n + 1 /\ n <= Len(s) /\ n \in Int /\ (n + 1) - 1 = n
          BY <2>1
        <5>2. QED
          BY <5>1, PieceType
      <4>2. r \in S /\ r \in Members(s)
        BY <2>1 DEF Members
      <4>3. one = <<r>>
        <5>1. n + 1 \in 1..Len(s)
          BY <2>1
        <5>2. QED
          BY <5>1, PieceOne
      <4>1. a \in Seq(S) /\ Len(a) = n /\ one \in Seq(S)
        <5> HIDE DEF a, one, r
        <5>1. QED
          BY <4>a, <4>2, <4>3
      <4>4. Members(a) \subseteq Members(s)
        BY <2>1 DEF Piece, Members
      <4>5. QED
        BY <4>1, <4>2, <4>3, <4>4
    <3>2. s = Cat(a, one)
      <4>1. Cat(Piece(s, 1, n), Piece(s, n + 1, n + 1)) = Piece(s, 1, n + 1)
        BY <2>1, PieceCat
      <4>2. Piece(s, 1, n + 1) = s
        BY <2>1, PieceWhole
      <4>3. QED
        BY <4>1, <4>2
    <3> DEFINE fa == Filtered(a, keep)
               fo == Filtered(one, keep)
    <3>3. Filtered(s, keep) = Cat(fa, fo)
      <4> HIDE DEF a, one
      <4>1. Filtered(Cat(a, one), keep) = Cat(fa, fo)
        <5>1. a \in Seq(S) /\ one \in Seq(S)
          BY <3>1
        <5>2. QED
          BY <5>1, FilteredCat
      <4>2. QED
        BY <3>2, <4>1
    <3>4. fo = IF r \in keep THEN <<r>> ELSE <<>>
      <4> HIDE DEF r, one
      <4>1. QED
        BY <3>1, FilteredOne
    <3>5. fa \in Seq(S) /\ fo \in Seq(S)
      BY <3>1, FilteredType
    <3>6. G(a)
      BY <1>2, <3>1
    <3> HIDE DEF a, r, one
    <3>7. Len(fa) <= n /\ (Members(s) \subseteq keep => fa = a)
      BY <3>1, <3>6
    <3> HIDE DEF fa
    <3> HIDE DEF fo
    <3>8. Len(fo) <= 1 /\ (Members(s) \subseteq keep => fo = one)
      <4>1. CASE r \in keep
        BY <3>1, <3>4, <4>1
      <4>2. CASE r \notin keep
        BY <3>1, <3>4, <4>2
      <4>3. QED
        BY <4>1, <4>2
    <3>9. Len(Filtered(s, keep)) <= n + 1
      <4>1. Len(Cat(fa, fo)) = Len(fa) + Len(fo)
        BY <3>5, CatType
      <4>2. Len(fa) \in Nat /\ Len(fo) \in Nat
        BY <3>5
      <4>3. QED
        BY <3>3, <3>7, <3>8, <4>1, <4>2
    <3>10. Members(s) \subseteq keep => Filtered(s, keep) = s
      BY <3>2, <3>3, <3>7, <3>8
    <3>11. QED
      BY <2>1, <3>9, <3>10
  <2> HIDE DEF G
  <2>2. QED
    BY <2>1
<1> HIDE DEF T, G
<1>3. \A n \in Nat : n \in T
  BY <1>1, <1>2, CountingUp
<1>4. Len(rows) \in T
  BY <1>3
<1>5. G(rows)
  BY <1>4 DEF T
<1>6. QED
  BY <1>5 DEF G

LEMMA FilteredPut ==
    ASSUME NEW S, NEW a \in Seq(S), NEW e \in S, NEW keep
    PROVE  Filtered(Put(a, e), keep) =
              IF e \in keep THEN Put(Filtered(a, keep), e) ELSE Filtered(a, keep)
<1>1. <<e>> \in Seq(S) /\ Put(a, e) = Cat(a, <<e>>)
  BY AppendIsConcat DEF Put, Cat
<1>2. Filtered(Put(a, e), keep) = Cat(Filtered(a, keep), Filtered(<<e>>, keep))
  <2> DEFINE one == <<e>>
  <2> HIDE DEF one
  <2>1. one \in Seq(S) /\ Put(a, e) = Cat(a, one)
    BY <1>1 DEF one
  <2>2. Filtered(Cat(a, one), keep) = Cat(Filtered(a, keep), Filtered(one, keep))
    BY <2>1, FilteredCat
  <2>3. QED
    BY <2>1, <2>2 DEF one
<1>3. Filtered(<<e>>, keep) = IF e \in keep THEN <<e>> ELSE <<>>
  BY FilteredOne
<1> DEFINE f == Filtered(a, keep)
<1> HIDE DEF f
<1>4. f \in Seq(S)
  BY FilteredType DEF f
<1>5. Cat(f, <<e>>) = Put(f, e)
  BY <1>4, AppendIsConcat DEF Put, Cat
<1>6. Cat(f, <<>>) = f
  BY <1>4, CatEmpty
<1>7. QED
  BY <1>2, <1>3, <1>5, <1>6 DEF f

LEMMA PutMembers ==
    ASSUME NEW S, NEW a \in Seq(S), NEW e \in S
    PROVE  Members(Put(a, e)) = Members(a) \cup {e}
<1>1. DOMAIN Put(a, e) = 1..(Len(a) + 1) /\ DOMAIN a = 1..Len(a) /\ Len(a) \in Nat
  BY DEF Put
<1>2. /\ \A i \in 1..Len(a) : Put(a, e)[i] = a[i]
      /\ Put(a, e)[Len(a) + 1] = e
  BY DEF Put
<1>3. \A i \in 1..(Len(a) + 1) : i \in 1..Len(a) \/ i = Len(a) + 1
  BY <1>1
<1>4. \A i \in 1..Len(a) : i \in 1..(Len(a) + 1)
  BY <1>1
<1>5. Len(a) + 1 \in 1..(Len(a) + 1)
  BY <1>1
<1> DEFINE b == Put(a, e)
           n == Len(a) + 1
<1> HIDE DEF b, n
<1>6. QED
  BY <1>1, <1>2, <1>3, <1>4, <1>5 DEF Members, b, n

LEMMA FilteredMembers ==
    ASSUME NEW S, NEW a \in Seq(S), NEW keep
    PROVE  Members(Filtered(a, keep)) = Members(a) \cap keep
<1> DEFINE T == {s \in Seq(S) : Members(Filtered(s, keep)) = Members(s) \cap keep}
<1>1. <<>> \in T
  <2>1. Members(<<>>) = {} /\ <<>> \in Seq(S)
    BY EmptySeq DEF Members
  <2>2. QED
    BY <2>1, FilteredEmpty
<1>2. ASSUME NEW s \in Seq(S), NEW e \in S, s \in T PROVE Put(s, e) \in T
  <2>1. Members(Filtered(s, keep)) = Members(s) \cap keep
    BY <1>2
  <2>2. Members(Put(s, e)) = Members(s) \cup {e} /\ Put(s, e) \in Seq(S)
    BY PutMembers, PutType
  <2>3. Filtered(s, keep) \in Seq(S)
    BY FilteredType
  <2>4. Members(Put(Filtered(s, keep), e)) = Members(Filtered(s, keep)) \cup {e}
    BY <2>3, PutMembers
  <2>5. Members(Filtered(Put(s, e), keep)) = Members(Put(s, e)) \cap keep
    BY <2>1, <2>2, <2>4, FilteredPut
  <2>6. QED
    BY <2>2, <2>5
<1> HIDE DEF T
<1>3. a \in T
  BY <1>1, <1>2, ListsGrow
<1>4. QED
  BY <1>3 DEF T

(* A filter asks only what the rows are asked.                             *)
LEMMA FilteredSame ==
    ASSUME NEW S, NEW a \in Seq(S), NEW keep, NEW other,
           \A x \in Members(a) : x \in keep <=> x \in other
    PROVE  Filtered(a, keep) = Filtered(a, other)
<1>1. \A i \in DOMAIN a : (IF a[i] \in keep THEN <<a[i]>> ELSE <<>>) =
                          (IF a[i] \in other THEN <<a[i]>> ELSE <<>>)
  BY DEF Members
<1>2. KeptOf(a, keep) = KeptOf(a, other)
  BY <1>1 DEF KeptOf
<1>3. QED
  BY <1>2, KeptOfType

(* The positions of what a filter keeps, in their order.                   *)
Places(n) == [i \in 1..n |-> i]

LEMMA PlacesGrow ==
    ASSUME NEW n \in Nat
    PROVE  /\ Places(n) \in Seq(1..n) /\ Len(Places(n)) = n /\ Members(Places(n)) = 1..n
           /\ Places(n + 1) = Put(Places(n), n + 1)
<1>1. Places(n) \in Seq(Int) /\ Len(Places(n)) = n /\ Places(n) \in Seq(1..n) /\ Members(Places(n)) = 1..n
  BY DEF Places, Members
<1>2. Put(Places(n), n + 1) \in Seq(Int) /\ Len(Put(Places(n), n + 1)) = n + 1
  BY <1>1 DEF Put
<1>3. \A i \in 1..(n + 1) : Put(Places(n), n + 1)[i] = i
  <2>1. \A i \in 1..n : Put(Places(n), n + 1)[i] = Places(n)[i]
    BY <1>1 DEF Put
  <2>2. Put(Places(n), n + 1)[n + 1] = n + 1
    BY <1>1 DEF Put
  <2>3. \A i \in 1..n : Places(n)[i] = i
    BY DEF Places
  <2>4. QED
    BY <2>1, <2>2, <2>3
<1>4. Places(n + 1) \in Seq(Int) /\ Len(Places(n + 1)) = n + 1 /\ \A i \in 1..(n + 1) : Places(n + 1)[i] = i
  BY DEF Places
<1>5. Places(n + 1) = Put(Places(n), n + 1)
  BY <1>2, <1>3, <1>4, SeqEqual
<1>6. QED
  BY <1>1, <1>5

LEMMA PlacesKept ==
    ASSUME NEW n \in Nat, NEW keep
    PROVE  LET f == Filtered(Places(n), keep)
           IN  /\ f \in Seq(1..n)
               /\ Members(f) = (1..n) \cap keep
               /\ \A i, j \in 1..Len(f) : i < j => f[i] < f[j]
<1> DEFINE F(m) == Filtered(Places(m), keep)
           T == {m \in Nat : \A i, j \in 1..Len(F(m)) : i < j => F(m)[i] < F(m)[j]}
<1>1. 0 \in T
  <2>1. Places(0) = <<>>
    BY PlacesGrow, EmptySeq
  <2>2. F(0) = <<>> /\ Len(<<>>) = 0
    BY <2>1, FilteredEmpty, EmptySeq
  <2>3. QED
    BY <2>2
<1>2. ASSUME NEW m \in Nat, m \in T PROVE m + 1 \in T
  <2> DEFINE f == F(m)
  <2>1. Places(m) \in Seq(Int) /\ m + 1 \in Int
    BY PlacesGrow DEF Places
  <2>2. F(m + 1) = IF m + 1 \in keep THEN Put(f, m + 1) ELSE f
    <3>1. Places(m + 1) = Put(Places(m), m + 1)
      BY PlacesGrow
    <3>2. Filtered(Put(Places(m), m + 1), keep) =
             IF m + 1 \in keep THEN Put(Filtered(Places(m), keep), m + 1) ELSE Filtered(Places(m), keep)
      BY <2>1, FilteredPut
    <3>3. QED
      BY <3>1, <3>2
  <2>3. f \in Seq(1..m)
    BY PlacesGrow, FilteredType
  <2>4. \A i, j \in 1..Len(f) : i < j => f[i] < f[j]
    BY <1>2
  <2> HIDE DEF F, f
  <2>5. \A i, j \in 1..Len(Put(f, m + 1)) : i < j => Put(f, m + 1)[i] < Put(f, m + 1)[j]
    <3> TAKE i, j \in 1..Len(Put(f, m + 1))
    <3> HAVE i < j
    <3>1. Len(Put(f, m + 1)) = Len(f) + 1 /\ Len(f) \in Nat
      BY <2>3 DEF Put
    <3>2. i \in 1..Len(f) /\ Put(f, m + 1)[i] = f[i] /\ f[i] \in 1..m
      BY <2>3, <3>1 DEF Put
    <3>3. CASE j = Len(f) + 1
      <4>1. Put(f, m + 1)[j] = m + 1
        BY <2>3, <3>3 DEF Put
      <4>2. QED
        BY <3>2, <4>1
    <3>4. CASE j # Len(f) + 1
      <4>1. j \in 1..Len(f)
        BY <3>1, <3>4
      <4>2. Put(f, m + 1)[j] = f[j]
        BY <2>3, <4>1 DEF Put
      <4>3. f[i] < f[j]
        BY <2>4, <3>2, <4>1
      <4>4. QED
        BY <3>2, <4>2, <4>3
    <3>5. QED
      BY <3>3, <3>4
  <2>6. \A i, j \in 1..Len(F(m + 1)) : i < j => F(m + 1)[i] < F(m + 1)[j]
    BY <2>2, <2>4, <2>5
  <2>7. QED
    BY <2>6
<1> HIDE DEF T
<1>3. n \in T
  BY <1>1, <1>2, CountingUp
<1>4. Filtered(Places(n), keep) \in Seq(1..n)
  BY PlacesGrow, FilteredType
<1>5. Members(Filtered(Places(n), keep)) = (1..n) \cap keep
  BY PlacesGrow, FilteredMembers
<1>6. QED
  BY <1>3, <1>4, <1>5 DEF T

(* Filtering elements and filtering their positions is the same.           *)
LEMMA PlacesOfKept ==
    ASSUME NEW S, NEW a \in Seq(S), NEW keep, NEW at,
           \A i \in 1..Len(a) : i \in at <=> a[i] \in keep
    PROVE  LET f == Filtered(Places(Len(a)), at)
           IN  Filtered(a, keep) = [i \in 1..Len(f) |-> a[f[i]]]
<1> DEFINE F(m) == Filtered(Places(m), at)
           G(m) == Filtered(Piece(a, 1, m), keep)
           T == {m \in Nat : m <= Len(a) =>
                    /\ Len(G(m)) = Len(F(m))
                    /\ \A i \in 1..Len(F(m)) : G(m)[i] = a[F(m)[i]]}
<1>0. Len(a) \in Nat
  OBVIOUS
<1>1. 0 \in T
  <2>1. Places(0) = <<>> /\ Piece(a, 1, 0) = <<>> /\ Len(<<>>) = 0
    BY PlacesGrow, EmptySeq, PieceType
  <2>2. F(0) = <<>> /\ G(0) = <<>>
    BY <2>1, FilteredEmpty
  <2>3. QED
    BY <2>1, <2>2
<1>2. ASSUME NEW m \in Nat, m \in T PROVE m + 1 \in T
  <2> SUFFICES ASSUME m + 1 <= Len(a)
               PROVE  /\ Len(G(m + 1)) = Len(F(m + 1))
                      /\ \A i \in 1..Len(F(m + 1)) : G(m + 1)[i] = a[F(m + 1)[i]]
    OBVIOUS
  <2> DEFINE f == F(m)
             g == G(m)
             e == a[m + 1]
             p == Piece(a, 1, m)
  <2>1. Places(m) \in Seq(Int) /\ m + 1 \in Int
    BY PlacesGrow DEF Places
  <2>2. F(m + 1) = IF m + 1 \in at THEN Put(f, m + 1) ELSE f
    <3>1. Places(m + 1) = Put(Places(m), m + 1)
      BY PlacesGrow
    <3>2. Filtered(Put(Places(m), m + 1), at) =
             IF m + 1 \in at THEN Put(Filtered(Places(m), at), m + 1) ELSE Filtered(Places(m), at)
      BY <2>1, FilteredPut
    <3>3. QED
      BY <3>1, <3>2
  <2>3. f \in Seq(1..m) /\ f \in Seq(Int)
    BY <2>1, PlacesGrow, FilteredType
  <2>4. p \in Seq(S) /\ Len(p) = m /\ e \in S
    BY <1>0, PieceType
  <2>5. Piece(a, 1, m + 1) = Put(p, e)
    <3>1. Piece(a, 1, m + 1) = Cat(p, Piece(a, m + 1, m + 1))
      BY <1>0, PieceCat
    <3>2. Piece(a, m + 1, m + 1) = <<e>>
      BY <1>0, PieceOne
    <3>3. Cat(p, <<e>>) = Put(p, e)
      BY <2>4, AppendIsConcat DEF Put, Cat
    <3>4. QED
      BY <3>1, <3>2, <3>3
  <2>6. G(m + 1) = IF e \in keep THEN Put(g, e) ELSE g
    BY <2>4, <2>5, FilteredPut
  <2>7. g \in Seq(S)
    BY <2>4, FilteredType
  <2>8. Len(g) = Len(f) /\ \A i \in 1..Len(f) : g[i] = a[f[i]]
    BY <1>0, <1>2
  <2>9. (m + 1 \in at <=> e \in keep) /\ e \in S
    BY <1>0
  <2> HIDE DEF F, G, f, g, e
  <2>10. CASE e \notin keep
    BY <2>2, <2>6, <2>8, <2>9, <2>10
  <2>11. CASE e \in keep
    <3>1. G(m + 1) = Put(g, e) /\ F(m + 1) = Put(f, m + 1)
      BY <2>2, <2>6, <2>9, <2>11
    <3>2. Len(Put(g, e)) = Len(Put(f, m + 1)) /\ Len(f) \in Nat /\ Len(Put(f, m + 1)) = Len(f) + 1
      <4>1. Len(Put(g, e)) = Len(g) + 1
        BY <2>7, <2>9, PutType
      <4>2. Len(Put(f, m + 1)) = Len(f) + 1 /\ Len(f) \in Nat
        BY <2>1, <2>3 DEF Put
      <4>3. QED
        BY <2>8, <4>1, <4>2
    <3>3. \A i \in 1..(Len(f) + 1) : Put(g, e)[i] = a[Put(f, m + 1)[i]]
      <4> TAKE i \in 1..(Len(f) + 1)
      <4>1. CASE i = Len(f) + 1
        <5>1. Put(g, e)[i] = e
          BY <2>7, <2>8, <4>1 DEF Put
        <5>2. Put(f, m + 1)[i] = m + 1
          BY <2>3, <4>1 DEF Put
        <5>3. QED
          BY <5>1, <5>2 DEF e
      <4>2. CASE i # Len(f) + 1
        <5>1. i \in 1..Len(f)
          BY <3>2, <4>2
        <5>2. Put(g, e)[i] = g[i]
          BY <2>7, <2>8, <5>1 DEF Put
        <5>3. Put(f, m + 1)[i] = f[i]
          BY <2>3, <5>1 DEF Put
        <5>4. QED
          BY <2>8, <5>1, <5>2, <5>3
      <4>3. QED
        BY <4>1, <4>2
    <3>4. QED
      BY <3>1, <3>2, <3>3
  <2>12. QED
    BY <2>10, <2>11
<1> HIDE DEF T
<1>3. Len(a) \in T /\ Len(a) <= Len(a)
  BY <1>0, <1>1, <1>2, CountingUp
<1>4. Piece(a, 1, Len(a)) = a
  BY PieceWhole
<1> DEFINE f == F(Len(a))
           g == Filtered(a, keep)
<1>5. Len(g) = Len(f) /\ \A i \in 1..Len(f) : g[i] = a[f[i]]
  BY <1>3, <1>4 DEF T
<1>6. g \in Seq(S)
  BY FilteredType
<1> HIDE DEF g, f, F
<1>7. g = [i \in 1..Len(f) |-> a[f[i]]]
  <2>1. DOMAIN g = 1..Len(g) /\ g = [i \in 1..Len(g) |-> g[i]]
    BY <1>6
  <2>2. QED
    BY <1>5, <2>1
<1>8. QED
  BY <1>7 DEF f, g, F

-----------------------------------------------------------------------------
(* Granules *)

(* Any part of a sequence is a sequence over the same set. *)
LEMMA SubSeqType ==
    ASSUME NEW S, NEW s \in Seq(S), NEW m \in Int, NEW n \in Int,
           m >= 1, n <= Len(s)
    PROVE  SubSeq(s, m, n) \in Seq(S)
OBVIOUS

(* A part with rows has a first mark, and its last granule is not empty. *)
LEMMA MarkCountType ==
    ASSUME NEW S, NEW rows \in Seq(S), Len(rows) > 0
    PROVE  /\ MarkCount(rows) \in Nat \ {0}
           /\ (MarkCount(rows) * Granularity) - Granularity < Len(rows)
           /\ (MarkCount(rows) * Granularity) >= Len(rows)
<1> DEFINE x == Len(rows) + Granularity - 1
           q == x \div Granularity
<1>1. Granularity \in Nat /\ Granularity > 0 /\ x \in Nat /\ x >= Granularity
  BY GranularityAssumption
<1>2. q \in Int /\ Granularity * q <= x /\ x < Granularity * q + Granularity
  BY <1>1
<1>3. QED
  BY <1>1, <1>2, GranularityAssumption DEF MarkCount

(* Granules that exist are sequences of rows, and not empty. *)
LEMMA GranuleType ==
    ASSUME NEW S, NEW rows \in Seq(S), Len(rows) > 0,
           NEW k \in {1, MarkCount(rows)}
    PROVE  Granule(rows, k) \in Seq(S) /\ Granule(rows, k) # <<>>
<1> DEFINE m == k * Granularity - Granularity + 1
           n == IF k * Granularity <= Len(rows) THEN k * Granularity ELSE Len(rows)
<1>1. Granularity \in Nat \ {0} /\ k \in Nat \ {0}
  BY GranularityAssumption, MarkCountType
<1>2. k * Granularity \in Nat
  BY <1>1
<1>3. m <= Len(rows)
  <2>1. CASE k = 1
    BY <2>1, <1>1
  <2>2. CASE k = MarkCount(rows)
    BY <2>2, <1>1, <1>2, MarkCountType
  <2>3. QED
    BY <2>1, <2>2
<1>4. k * Granularity >= Granularity
  BY <1>1
<1>5. m \in Int /\ n \in Int /\ m >= 1 /\ n <= Len(rows) /\ m <= n
  BY <1>1, <1>2, <1>3, <1>4
<1>6. Granule(rows, k) = SubSeq(rows, m, n)
  BY DEF Granule
<1> HIDE DEF m, n
<1>7. SubSeq(rows, m, n) \in Seq(S) /\ Len(SubSeq(rows, m, n)) > 0
  BY <1>5, SubSeqProperties
<1>8. QED
  BY <1>6, <1>7, EmptySeq

(* What a merge loads from a part is a non-empty sequence of rows. *)
LEMMA MergeReadType ==
    ASSUME NEW S, NEW P, NEW list \in Seq(P), NEW rowsOf \in [P -> Seq(S)],
           NEW p \in P, Len(rowsOf[p]) > 0,
           \A q \in After(list, p) : Len(rowsOf[q]) > 0
    PROVE  MergeRead(list, rowsOf, p) \in Seq(S)
           /\ MergeRead(list, rowsOf, p) # <<>>
<1> DEFINE a == SubSeq(rowsOf[p], Granularity + 1, Len(rowsOf[p]))
           b == IF After(list, p) = {}
                THEN Granule(rowsOf[p], MarkCount(rowsOf[p]))
                ELSE Granule(rowsOf[CHOOSE q \in After(list, p) : TRUE], 1)
<1>1. a \in Seq(S)
  BY GranularityAssumption, SubSeqType
<1>2. b \in Seq(S) /\ b # <<>>
  <2>1. CASE After(list, p) = {}
    BY <2>1, GranuleType
  <2>2. CASE After(list, p) # {}
    <3> DEFINE q == CHOOSE r \in After(list, p) : TRUE
    <3>1. q \in After(list, p)
      BY <2>2
    <3>2. q \in P
      BY <3>1, AfterType, MembersType
    <3>3. Granule(rowsOf[q], 1) \in Seq(S) /\ Granule(rowsOf[q], 1) # <<>>
      BY <3>1, <3>2, GranuleType
    <3>4. QED
      BY <2>2, <3>3
  <2>3. QED
    BY <2>1, <2>2
<1>3. MergeRead(list, rowsOf, p) = a \o b
  BY DEF MergeRead
<1> HIDE DEF a, b
<1>4. a \o b \in Seq(S) /\ a \o b # <<>>
  BY <1>1, <1>2, ConcatProperties, EmptySeq
<1>5. QED
  BY <1>3, <1>4

LEMMA TimesGrows ==
    ASSUME NEW a \in Int, NEW b \in Int, NEW g \in Nat, a <= b
    PROVE  a * g <= b * g
OBVIOUS

(* Where the granules of a part end, and what they hold.                   *)
LEMMA GranuleEnds ==
    ASSUME NEW S, NEW rows \in Seq(S), Len(rows) > 0,
           NEW k \in 1..MarkCount(rows)
    PROVE  /\ (k - 1) * Granularity \in Nat /\ k * Granularity \in Nat
           /\ k * Granularity = (k - 1) * Granularity + Granularity
           /\ (k - 1) * Granularity < Len(rows)
           /\ k = MarkCount(rows) => Len(rows) <= k * Granularity
           /\ k < MarkCount(rows) => k * Granularity < Len(rows)
<1> DEFINE M == MarkCount(rows)
           G == Granularity
<1>1. /\ M \in Nat \ {0} /\ (M * G) - G < Len(rows) /\ M * G >= Len(rows)
      /\ G \in Nat \ {0} /\ Len(rows) \in Nat
  BY MarkCountType, GranularityAssumption
<1>2. k \in Nat /\ k >= 1 /\ k <= M
  BY <1>1
<1> HIDE DEF M, G
<1>3. (k - 1) * G \in Nat /\ k * G \in Nat /\ k * G = (k - 1) * G + G
  BY <1>1, <1>2
<1>4. (M - 1) * G = M * G - G
  BY <1>1
<1>5. (k - 1) * G <= (M - 1) * G
  <2>1. k - 1 \in Int /\ M - 1 \in Int /\ k - 1 <= M - 1 /\ G \in Nat
    BY <1>1, <1>2
  <2>2. QED
    BY <2>1, TimesGrows
<1>6. k < M => k * G <= (M - 1) * G
  <2>1. ASSUME k < M PROVE k * G <= (M - 1) * G
    <3>1. k \in Int /\ M - 1 \in Int /\ k <= M - 1 /\ G \in Nat
      BY <1>1, <1>2, <2>1
    <3>2. QED
      BY <3>1, TimesGrows
  <2>2. QED
    BY <2>1
<1>7. (M - 1) * G < Len(rows)
  BY <1>1, <1>4
<1>8. M * G \in Int /\ (M - 1) * G \in Int
  BY <1>1
<1> DEFINE kG == k * G
           hG == (k - 1) * G
           mG == (M - 1) * G
<1> HIDE DEF kG, hG, mG
<1>9. hG < Len(rows) /\ (k < M => kG < Len(rows))
  <2>1. hG \in Nat /\ kG \in Nat /\ mG \in Int /\ mG < Len(rows) /\ hG <= mG
        /\ (k < M => kG <= mG)
    BY <1>3, <1>5, <1>6, <1>7, <1>8 DEF kG, hG, mG
  <2>2. QED
    BY <1>1, <2>1
<1>10. QED
  BY <1>1, <1>3, <1>9 DEF kG, hG, M, G

LEMMA GranulePiece ==
    ASSUME NEW S, NEW rows \in Seq(S), Len(rows) > 0,
           NEW k \in 1..MarkCount(rows)
    PROVE  /\ Granule(rows, k) =
                 Piece(rows, (k - 1) * Granularity + 1, Least(k * Granularity, Len(rows)))
           /\ Granule(rows, k) \in Seq(S)
           /\ Len(Granule(rows, k)) \in 1..Granularity
           /\ k * Granularity <= Len(rows) => Len(Granule(rows, k)) = Granularity
           /\ Cat(Piece(rows, 1, (k - 1) * Granularity), Granule(rows, k)) =
                 Piece(rows, 1, Least(k * Granularity, Len(rows)))
<1> DEFINE a == (k - 1) * Granularity
           b == k * Granularity
           e == Least(b, Len(rows))
<1>1. a \in Nat /\ b \in Nat /\ b = a + Granularity /\ a < Len(rows)
      /\ Granularity \in Nat \ {0} /\ Len(rows) \in Nat
  BY GranuleEnds, GranularityAssumption
<1>2. Granule(rows, k) = SubSeq(rows, b - Granularity + 1, IF b <= Len(rows) THEN b ELSE Len(rows))
  BY DEF Granule
<1> HIDE DEF a, b
<1>3. b - Granularity + 1 = a + 1 /\ e = IF b <= Len(rows) THEN b ELSE Len(rows)
  BY <1>1 DEF Least
<1>4. Granule(rows, k) = Piece(rows, a + 1, e)
  BY <1>2, <1>3 DEF Piece
<1>5. e \in Nat /\ e <= Len(rows) /\ a < e /\ e <= a + Granularity
      /\ (b <= Len(rows) => e = a + Granularity)
  BY <1>1, <1>3
<1> HIDE DEF e
<1>6. Piece(rows, a + 1, e) \in Seq(S) /\ Len(Piece(rows, a + 1, e)) = e - a
  <2> DEFINE c == a + 1
  <2>1. c \in Int /\ e \in Int /\ c >= 1 /\ e <= Len(rows) /\ c <= e + 1 /\ e + 1 - c = e - a
    BY <1>1, <1>5
  <2> HIDE DEF c
  <2>2. Piece(rows, c, e) \in Seq(S)
    BY <2>1, PieceType
  <2>3. Len(Piece(rows, c, e)) = e + 1 - c
    BY <2>1, PieceType
  <2>4. QED
    BY <2>1, <2>2, <2>3 DEF c
<1>7. Cat(Piece(rows, 1, a), Piece(rows, a + 1, e)) = Piece(rows, 1, e)
  BY <1>1, <1>5, PieceCat
<1>8. e - a \in 1..Granularity /\ (b <= Len(rows) => e - a = Granularity)
  BY <1>1, <1>5
<1>9. QED
  BY <1>4, <1>6, <1>7, <1>8 DEF a, b, e

LEMMA NoMarks ==
    ASSUME NEW S, NEW rows \in Seq(S)
    PROVE  /\ MarkCount(rows) \in Nat
           /\ MarkCount(rows) = 0 <=> rows = <<>>
<1>1. CASE rows = <<>>
  <2>1. Len(rows) = 0
    BY <1>1, EmptySeq
  <2>2. MarkCount(rows) = (Granularity - 1) \div Granularity
    BY <2>1, GranularityAssumption DEF MarkCount
  <2>3. (Granularity - 1) \div Granularity = 0
    BY GranularityAssumption
  <2>4. QED
    BY <1>1, <2>2, <2>3
<1>2. CASE rows # <<>>
  <2>1. Len(rows) > 0
    BY <1>2, EmptySeq
  <2>2. QED
    BY <1>2, <2>1, MarkCountType
<1>3. QED
  BY <1>1, <1>2

=============================================================================
