--------------------------- MODULE TableScan_proofs ---------------------------
(***************************************************************************)
(* A scan answers exactly, for every granularity, every number and size of *)
(* parts and every filter, LIMIT and OFFSET.                               *)
(***************************************************************************)
EXTENDS TableScan, Granules_proofs

-----------------------------------------------------------------------------
(* The inductive invariant *)

PartRows(list, data) == [i \in DOMAIN list |-> data[list[i]]]

(* All rows up to and including the granule a scan stands on.              *)
ReadTo(list, data, s) ==
    IF s = NotOpen THEN <<>>
    ELSE Cat(FlattenSeq(Piece(PartRows(list, data), 1, Position(list, s.part) - 1)),
             Piece(data[s.part], 1, Least(s.granule * Granularity, Len(data[s.part]))))

(* What the assumption on the constants says of the chosen inputs.         *)
DataOK ==
    /\ infos \in Seq(Nat \ {0}) /\ Distinct(infos)
    /\ rowsOf \in [Members(infos) -> Seq(Row)]
    /\ \A p \in Members(infos) : Len(rowsOf[p]) > 0
    /\ WellAsked(query, infos, rowsOf)
    /\ Len(AllRows) <= OutputCap /\ Len(query.inner) <= OutputCap

(* The storage of a table stands on a granule of a listed part.            *)
StandsIn(list, data, s) ==
    s.part \in Members(list) /\ s.granule \in 1..MarkCount(data[s.part])

Scanning(kinds) == query.kind \in kinds /\ pc = "scan"

(* A scan of a table has kept what the filter keeps of all rows so far;    *)
(* the counter of the last chunk is never larger.                          *)
TableRead ==
    Scanning({"rows", "count"}) =>
        /\ stand = NotOpen \/ StandsIn(infos, rowsOf, stand)
        /\ out = Kept(ReadTo(infos, rowsOf, stand))
        /\ linesRead <= Len(out)

(* No granule of the inner rows before the k-th ends a scan.               *)
NoneEnds(k) ==
    \A i \in 1..(k - 1) : Len(Kept(Granule(query.inner, i))) < LinesToRead

(* So has a scan of inner rows the first time round; once it started over, *)
(* no granule has enough rows to end it.                                   *)
NestedRead ==
    Scanning({"nested"}) =>
        /\ stand.part = 0 /\ stand.granule \in 0..MarkCount(query.inner)
        /\ stand.granule * Granularity <= Len(query.inner)
        /\ linesRead = IF stand.granule = 0 THEN 0
                       ELSE Len(Kept(Granule(query.inner, stand.granule)))
        /\ \/ /\ out = Kept(Piece(query.inner, 1, stand.granule * Granularity))
              /\ NoneEnds(stand.granule)
           \/ stand.granule # 0 /\ NoneEnds(MarkCount(query.inner) + 1)

(* After k calls a merge stands on granule k + 1 of its part, and has the  *)
(* rows of granules 2 to k + 1; after the last call it has MergeRead.      *)
LoadSoFar ==
    Scanning({"merge"}) =>
        LET R == rowsOf[query.part]
            M == MarkCount(R)
        IN  /\ calls \in 0..M
            /\ calls < M =>
                  /\ stand = [part |-> query.part, granule |-> calls + 1]
                  /\ bytes = IF calls = 0 THEN <<>> ELSE Granule(R, calls + 1)
                  /\ out = Piece(R, Granularity + 1,
                                 Least((calls + 1) * Granularity, Len(R)))
            /\ calls = M => out = MergeRead(infos, rowsOf, query.part)

(* Over whole granules a projected literal has as many values as there are *)
(* rows, all the time.                                                     *)
LiteralFilled ==
    WholeGranules /\ StrategyFits /\ query.literal => pc # "panic" /\ fill = Len(out)

StandType == stand \in [part : Nat, granule : Nat]

RowsType == bytes \in Seq(Row) /\ out \in Seq(Row)

ScanInv ==
    /\ DataOK /\ StandType /\ RowsType /\ TypeOK
    /\ TableRead /\ NestedRead /\ LoadSoFar /\ LiteralFilled
    /\ AnswerExact /\ LoadIsMergeRead

-----------------------------------------------------------------------------
(* Granules, one after the other *)

-----------------------------------------------------------------------------
(* Parts, one after the other *)

RowsBefore(list, data, i) == FlattenSeq(Piece(PartRows(list, data), 1, i))

LEMMA PartRowsType ==
    ASSUME NEW S, NEW P, NEW list \in Seq(P),
           NEW data \in [Members(list) -> Seq(S)]
    PROVE  /\ PartRows(list, data) \in Seq(Seq(S))
           /\ Len(PartRows(list, data)) = Len(list)
           /\ \A i \in 1..Len(list) : PartRows(list, data)[i] = data[list[i]]
           /\ \A i \in 1..Len(list) : data[list[i]] \in Seq(S)
<1> DEFINE Q == Seq(S)
           c == PartRows(list, data)
<1>1. Len(list) \in Nat /\ DOMAIN list = 1..Len(list)
      /\ \A i \in 1..Len(list) : list[i] \in Members(list)
  BY DEF Members
<1> HIDE DEF Q
<1>2. data \in [Members(list) -> Q]
  BY DEF Q
<1>3. c = [i \in 1..Len(list) |-> data[list[i]]]
      /\ \A i \in 1..Len(list) : data[list[i]] \in Q
  BY <1>1, <1>2 DEF PartRows
<1> DEFINE E(i) == data[list[i]]
<1> HIDE DEF E
<1>4. c = [i \in 1..Len(list) |-> E(i)] /\ \A i \in 1..Len(list) : E(i) \in Q
  BY <1>3 DEF E
<1> HIDE DEF c
<1>5. c \in Seq(Q) /\ Len(c) = Len(list) /\ \A i \in 1..Len(list) : c[i] = E(i)
  BY <1>1, <1>4
<1>6. QED
  BY <1>3, <1>5 DEF Q, c, E

LEMMA RowsBeforeSteps ==
    ASSUME NEW S, NEW P, NEW list \in Seq(P),
           NEW data \in [Members(list) -> Seq(S)]
    PROVE  /\ \A i \in 0..Len(list) : RowsBefore(list, data, i) \in Seq(S)
           /\ RowsBefore(list, data, 0) = <<>>
           /\ RowsBefore(list, data, Len(list)) = RowsIn(list, data)
           /\ \A i \in 1..Len(list) :
                 RowsBefore(list, data, i) = Cat(RowsBefore(list, data, i - 1), data[list[i]])
<1> DEFINE Q == Seq(S)
           c == PartRows(list, data)
           N == Len(list)
<1>1. c \in Seq(Q) /\ Len(c) = N /\ N \in Nat
      /\ \A i \in 1..N : c[i] = data[list[i]] /\ c[i] \in Q
  <2> HIDE DEF c
  <2>1. c \in Seq(Q) /\ Len(c) = N
    BY PartRowsType DEF c
  <2>2. \A i \in 1..N : c[i] = data[list[i]]
    <3>1. c = [i \in 1..N |-> data[list[i]]]
      BY DEF PartRows, c
    <3>2. QED
      BY <3>1
  <2>3. \A i \in 1..N : data[list[i]] \in Q
    BY DEF Members
  <2>4. QED
    BY <2>1, <2>2, <2>3
<1>r. RowsIn(list, data) = FlattenSeq(c)
  BY DEF RowsIn, PartRows
<1>t. \A x \in Seq(Q) : FlattenSeq(x) \in Q
  BY FlatType
<1>f. \A x, y \in Seq(Q) : FlattenSeq(Cat(x, y)) = Cat(FlattenSeq(x), FlattenSeq(y))
  BY FlatCat
<1>o. \A x \in Q : FlattenSeq(<<x>>) = x
  BY FlatOne
<1> HIDE DEF Q, c, N
<1>2. ASSUME NEW i \in 0..N PROVE Piece(c, 1, i) \in Seq(Q)
  BY <1>1, PieceType
<1>3. \A i \in 0..N : RowsBefore(list, data, i) \in Q
  BY <1>2, <1>t DEF RowsBefore, c
<1>4. RowsBefore(list, data, 0) = <<>>
  <2>1. Piece(c, 1, 0) = <<>>
    BY <1>1, PieceType
  <2>2. QED
    BY <2>1, FlatEmpty DEF RowsBefore, c
<1>5. RowsBefore(list, data, N) = RowsIn(list, data)
  <2>1. Piece(c, 1, Len(c)) = c
    BY <1>1, PieceWhole
  <2>2. QED
    BY <1>1, <1>r, <2>1 DEF RowsBefore, c
<1>6. ASSUME NEW i \in 1..N
      PROVE  RowsBefore(list, data, i) = Cat(RowsBefore(list, data, i - 1), data[list[i]])
  <2> DEFINE j == i - 1
             x == Piece(c, 1, j)
             y == Piece(c, i, i)
  <2>1. j \in 0..N /\ j + 1 = i /\ i \in 1..Len(c) /\ j \in Int /\ i \in Int
    BY <1>1
  <2>2. x \in Seq(Q)
    BY <1>2, <2>1
  <2>3. y = <<c[i]>>
    BY <1>1, <2>1, PieceOne
  <2>4. y \in Seq(Q)
    <3>1. c[i] \in Q
      BY <1>1
    <3> HIDE DEF y
    <3>2. QED
      BY <2>3, <3>1
  <2>5. Cat(x, y) = Piece(c, 1, i)
    <3>1. Cat(Piece(c, 1, j), Piece(c, j + 1, i)) = Piece(c, 1, i)
      <4>1. 1 >= 1 /\ 1 <= j + 1 /\ j <= i /\ i <= Len(c)
        BY <1>1, <2>1
      <4> HIDE DEF j
      <4>2. QED
        BY <1>1, <2>1, <4>1, PieceCat
    <3>2. QED
      BY <2>1, <3>1
  <2>6. FlattenSeq(Cat(x, y)) = Cat(FlattenSeq(x), FlattenSeq(y))
    <3> HIDE DEF x, y
    <3>1. QED
      BY <1>f, <2>2, <2>4
  <2>7. FlattenSeq(y) = c[i]
    BY <1>1, <1>o, <2>3
  <2>8. c[i] = data[list[i]]
    BY <1>1
  <2>9. FlattenSeq(Piece(c, 1, i)) = Cat(FlattenSeq(Piece(c, 1, i - 1)), data[list[i]])
    BY <2>5, <2>6, <2>7, <2>8
  <2>10. QED
    BY <2>9 DEF RowsBefore, c
<1>7. QED
  BY <1>3, <1>4, <1>5, <1>6 DEF Q, N

(* The rows of the first parts are the beginning of all rows.              *)
LEMMA RowsBeforePrefix ==
    ASSUME NEW S, NEW P, NEW list \in Seq(P),
           NEW data \in [Members(list) -> Seq(S)], NEW n \in 0..Len(list)
    PROVE  \E rest \in Seq(S) : RowsIn(list, data) = Cat(RowsBefore(list, data, n), rest)
<1> DEFINE u(i) == RowsBefore(list, data, i)
           N == Len(list)
           Q == Seq(S)
           T == {k \in Nat : n + k <= N => \E rest \in Q : u(n + k) = Cat(u(n), rest)}
<1>0. /\ \A i \in 0..N : u(i) \in Q
      /\ \A i \in 1..N : u(i) = Cat(u(i - 1), data[list[i]])
      /\ u(N) = RowsIn(list, data)
  BY RowsBeforeSteps
<1>l. N \in Nat /\ n \in 0..N /\ <<>> \in Q /\ \A i \in 1..N : data[list[i]] \in Q
  BY EmptySeq DEF Members
<1>c. \A a, b, c \in Q : /\ Cat(a, b) \in Q /\ Cat(a, <<>>) = a
                         /\ Cat(Cat(a, b), c) = Cat(a, Cat(b, c))
  BY CatType, CatEmpty, CatAssociative
<1> HIDE DEF u, N, Q
<1>1. 0 \in T
  <2>1. u(n) = Cat(u(n), <<>>) /\ n + 0 = n
    BY <1>0, <1>l, <1>c
  <2>2. QED
    BY <1>l, <2>1
<1>2. ASSUME NEW k \in Nat, k \in T PROVE k + 1 \in T
  <2> SUFFICES ASSUME n + (k + 1) <= N
               PROVE  \E rest \in Q : u(n + (k + 1)) = Cat(u(n), rest)
    OBVIOUS
  <2>1. PICK rest \in Q : u(n + k) = Cat(u(n), rest)
    BY <1>2, <1>l
  <2> DEFINE i == n + (k + 1)
  <2>2. i \in 1..N /\ i - 1 = n + k
    BY <1>l
  <2> DEFINE a == u(n)
             d == data[list[i]]
  <2>3. u(i) = Cat(u(n + k), d) /\ a \in Q /\ d \in Q
    BY <1>0, <1>l, <2>2
  <2> HIDE DEF a, d, i
  <2>4. Cat(Cat(a, rest), d) = Cat(a, Cat(rest, d)) /\ Cat(rest, d) \in Q
    BY <1>c, <2>3
  <2>5. u(i) = Cat(a, Cat(rest, d))
    BY <2>1, <2>3, <2>4 DEF a
  <2>6. QED
    BY <2>4, <2>5 DEF i, a
<1> HIDE DEF T
<1>3. \A k \in Nat : k \in T
  BY <1>1, <1>2, CountingUp
<1>4. N - n \in Nat /\ n + (N - n) = N
  BY <1>l
<1>5. \E rest \in Q : u(N) = Cat(u(n), rest)
  <2>1. \E rest \in Q : u(n + (N - n)) = Cat(u(n), rest)
    <3>1. N - n \in T
      BY <1>3, <1>4
    <3>2. QED
      BY <1>4, <3>1 DEF T
  <2>2. QED
    BY <1>4, <2>1
<1>6. QED
  BY <1>0, <1>5 DEF u, Q

-----------------------------------------------------------------------------
(* Granule after granule through the parts *)

(* What is read up to a granule is a beginning of all rows, and all of     *)
(* them after the last granule of the last part.                           *)
LEMMA ReadToType ==
    ASSUME NEW S, NEW list \in Seq(Nat \ {0}), Distinct(list),
           NEW data \in [Members(list) -> Seq(S)],
           \A p \in Members(list) : Len(data[p]) > 0,
           NEW s, StandsIn(list, data, s)
    PROVE  LET i == Position(list, s.part)
               R == data[s.part]
               k == s.granule
           IN  /\ i \in 1..Len(list) /\ list[i] = s.part
               /\ R \in Seq(S) /\ Len(R) > 0 /\ k \in 1..MarkCount(R)
               /\ ReadTo(list, data, s) =
                     Cat(RowsBefore(list, data, i - 1), Piece(R, 1, Least(k * Granularity, Len(R))))
               /\ ReadTo(list, data, s) =
                     Cat(Cat(RowsBefore(list, data, i - 1), Piece(R, 1, (k - 1) * Granularity)),
                         Granule(R, k))
               /\ ReadTo(list, data, s) \in Seq(S)
               /\ \E rest \in Seq(S) :
                     /\ RowsIn(list, data) = Cat(ReadTo(list, data, s), rest)
                     /\ k = MarkCount(R) /\ i = Len(list) => rest = <<>>
<1> DEFINE i == Position(list, s.part)
           R == data[s.part]
           k == s.granule
           G == Granularity
           Q == Seq(S)
           N == Len(list)
           B(j) == RowsBefore(list, data, j)
           r == ReadTo(list, data, s)
           e == Least(k * G, Len(R))
           a == Piece(R, 1, (k - 1) * G)
           b == Piece(R, 1, e)
           g == Granule(R, k)
<1>1. s.part \in Members(list) /\ k \in 1..MarkCount(R)
  BY DEF StandsIn
<1>2. i \in 1..N /\ list[i] = s.part /\ N \in Nat
  <2>1. Position(list, s.part) \in 0..Len(list)
        /\ Position(list, s.part) # 0 /\ list[Position(list, s.part)] = s.part
    BY <1>1, PositionFound
  <2>2. QED
    BY <2>1
<1>3. R \in Seq(S) /\ Len(R) > 0
  BY <1>1
<1>4. s # NotOpen
  <2>1. s.part \in Nat \ {0}
    BY <1>1, MembersType
  <2>2. QED
    BY <2>1 DEF NotOpen
<1>5. r = Cat(B(i - 1), b)
  BY <1>4 DEF ReadTo, RowsBefore
<1>6. /\ (k - 1) * G \in Nat /\ (k - 1) * G < Len(R) /\ Len(R) \in Nat /\ k * G \in Nat
      /\ k = MarkCount(R) => Len(R) <= k * G
  BY <1>1, <1>3, GranuleEnds
<1>7. g \in Q /\ Cat(a, g) = b
  BY <1>1, <1>3, GranulePiece
<1>8. /\ \A j \in 0..N : B(j) \in Q
      /\ \A j \in 1..N : B(j) = Cat(B(j - 1), data[list[j]])
      /\ B(N) = RowsIn(list, data)
  BY RowsBeforeSteps
<1>9. e \in Nat /\ e <= Len(R) /\ (k = MarkCount(R) => e = Len(R))
  BY <1>6 DEF Least
<1>10. a \in Q /\ b \in Q
  <2> DEFINE h == (k - 1) * G
  <2>1. h \in Int /\ e \in Int /\ h <= Len(R) /\ 1 >= 1
    BY <1>6, <1>9
  <2> HIDE DEF h, e
  <2> HIDE DEF R
  <2>2. Piece(R, 1, h) \in Seq(S) /\ Piece(R, 1, e) \in Seq(S)
    <3>1. Piece(R, 1, h) \in Seq(S)
      BY <1>3, <2>1, PieceType
    <3>2. Piece(R, 1, e) \in Seq(S)
      BY <1>3, <1>9, <2>1, PieceType
    <3>3. QED
      BY <3>1, <3>2
  <2>3. QED
    BY <2>2 DEF h
<1>11. i - 1 \in 0..N /\ i \in 0..N
  BY <1>2
<1>12. B(i) = Cat(B(i - 1), R) /\ B(i - 1) \in Q
  BY <1>2, <1>8, <1>11
<1>c. \A x, y, z \in Q : Cat(x, y) \in Q /\ Cat(Cat(x, y), z) = Cat(x, Cat(y, z))
  BY CatType, CatAssociative
<1>13. PICK c \in Q : Cat(b, c) = R /\ (k = MarkCount(R) => c = <<>>)
  <2> DEFINE c == Piece(R, e + 1, Len(R))
  <2>1. Cat(b, c) = R
    <3> HIDE DEF R
    <3>1. Cat(Piece(R, 1, e), Piece(R, e + 1, Len(R))) = Piece(R, 1, Len(R))
      <4>1. 1 <= e + 1 /\ e \in Int /\ Len(R) \in Int
        BY <1>6, <1>9
      <4> HIDE DEF e
      <4>2. QED
        BY <1>3, <1>9, <4>1, PieceCat
    <3>2. Piece(R, 1, Len(R)) = R
      BY <1>3, PieceWhole
    <3>3. QED
      BY <3>1, <3>2
  <2>2. c \in Q /\ (e = Len(R) => c = <<>>)
    <3> DEFINE f == e + 1
               l == Len(R)
    <3>1. f \in Int /\ l \in Int /\ f >= 1 /\ l <= Len(R) /\ (e = l => f > l)
      BY <1>6, <1>9
    <3> HIDE DEF f, l
    <3>2. Piece(R, f, l) \in Seq(S)
      BY <1>3, <3>1, PieceType
    <3>3. f > l => Piece(R, f, l) = <<>>
      BY <1>3, <3>1, PieceType
    <3>4. QED
      BY <3>1, <3>2, <3>3 DEF f, l
  <2> HIDE DEF c
  <2>3. QED
    BY <1>9, <2>1, <2>2
<1>14. PICK d \in Q : RowsIn(list, data) = Cat(B(i), d)
  BY <1>11, RowsBeforePrefix
<1>15. i = N => d = <<>>
  <2>1. ASSUME i = N PROVE d = <<>>
    <3>1. Cat(B(N), d) = B(N) /\ B(N) \in Seq(S) /\ d \in Seq(S)
      BY <1>8, <1>11, <1>14, <2>1
    <3> HIDE DEF B, Q
    <3>2. QED
      BY <3>1, CatCancel
  <2>2. QED
    BY <2>1
<1> DEFINE y == B(i - 1)
<1>16. y \in Q /\ B(i) = Cat(y, R) /\ r = Cat(y, b) /\ R \in Q /\ <<>> \in Q
  BY <1>3, <1>5, <1>12, EmptySeq
<1>e. \A x \in Q : Cat(x, <<>>) = x
  BY CatEmpty
<1> HIDE DEF B, r, a, b, g, Q, y, R
<1>17. r = Cat(Cat(y, a), g) /\ r \in Q
  BY <1>7, <1>10, <1>16, <1>c
<1>18. RowsIn(list, data) = Cat(r, Cat(c, d))
  <2>1. RowsIn(list, data) = Cat(Cat(y, Cat(b, c)), d)
    BY <1>13, <1>14, <1>16
  <2>2. Cat(b, c) \in Q /\ Cat(y, b) \in Q /\ Cat(Cat(y, b), c) = Cat(y, Cat(b, c))
    BY <1>10, <1>13, <1>16, <1>c
  <2>3. Cat(Cat(Cat(y, b), c), d) = Cat(Cat(y, b), Cat(c, d))
    BY <1>13, <1>14, <1>c, <2>2
  <2>4. QED
    BY <1>16, <2>1, <2>2, <2>3
<1>19. Cat(c, d) \in Q /\ (k = MarkCount(R) /\ i = N => Cat(c, d) = <<>>)
  BY <1>13, <1>14, <1>15, <1>16, <1>c, <1>e
<1>20. \E rest \in Q : RowsIn(list, data) = Cat(r, rest)
                       /\ (k = MarkCount(R) /\ i = N => rest = <<>>)
  BY <1>18, <1>19
<1>21. QED
  BY <1>1, <1>2, <1>3, <1>16, <1>17, <1>20 DEF R, Q, r, b, a, g, y, B

LEMMA ReadToPrefix ==
    ASSUME NEW S, NEW list \in Seq(Nat \ {0}), Distinct(list),
           NEW data \in [Members(list) -> Seq(S)],
           \A p \in Members(list) : Len(data[p]) > 0,
           NEW s, StandsIn(list, data, s)
    PROVE  \E rest \in Seq(S) : RowsIn(list, data) = Cat(ReadTo(list, data, s), rest)
BY ReadToType

(* In particular it ends with the granule itself.                          *)
LEMMA ReadToSplit ==
    ASSUME NEW S, NEW list \in Seq(Nat \ {0}), Distinct(list),
           NEW data \in [Members(list) -> Seq(S)],
           \A p \in Members(list) : Len(data[p]) > 0,
           NEW s, StandsIn(list, data, s)
    PROVE  ReadTo(list, data, s) =
              Cat(Cat(RowsBefore(list, data, Position(list, s.part) - 1),
                      Piece(data[s.part], 1, (s.granule - 1) * Granularity)),
                  Granule(data[s.part], s.granule))
BY ReadToType, SMTT(30)

(* The next granule a scan of a table goes to continues what is read.      *)
LEMMA ReadToFirst ==
    ASSUME NEW S, NEW list \in Seq(Nat \ {0}), Distinct(list),
           NEW data \in [Members(list) -> Seq(S)],
           \A p \in Members(list) : Len(data[p]) > 0, Len(list) > 0,
           NEW s, s.part = list[1], s.granule = 1
    PROVE  /\ StandsIn(list, data, s)
           /\ ReadTo(list, data, s) = Cat(<<>>, Granule(data[s.part], s.granule))
<1> DEFINE R == data[s.part]
           Q == Seq(S)
<1>1. 1 \in 1..Len(list) /\ s.part \in Members(list) /\ R \in Seq(S) /\ Len(R) > 0
  BY DEF Members
<1>2. StandsIn(list, data, s)
  <2>1. MarkCount(R) \in Nat \ {0}
    BY <1>1, MarkCountType
  <2>2. 1 \in 1..MarkCount(R)
    BY <2>1
  <2>3. QED
    BY <1>1, <2>2 DEF StandsIn
<1>3. Position(list, s.part) = 1
  BY <1>1, PositionFound
<1>4. ReadTo(list, data, s) =
         Cat(Cat(RowsBefore(list, data, 1 - 1), Piece(R, 1, (1 - 1) * Granularity)),
             Granule(R, 1))
  BY <1>2, <1>3, ReadToType, SMTT(20)
<1>5. Piece(R, 1, 0) = <<>> /\ (1 - 1) * Granularity = 0 /\ 1 - 1 = 0
  BY <1>1, PieceType, GranularityAssumption
<1>6. RowsBefore(list, data, 0) = <<>>
  BY RowsBeforeSteps
<1>7. Cat(<<>>, <<>>) = <<>>
  BY EmptySeq, CatEmpty
<1>8. QED
  BY <1>2, <1>4, <1>5, <1>6, <1>7

LEMMA ReadToWithin ==
    ASSUME NEW S, NEW list \in Seq(Nat \ {0}), Distinct(list),
           NEW data \in [Members(list) -> Seq(S)],
           \A p \in Members(list) : Len(data[p]) > 0,
           NEW s, StandsIn(list, data, s), s.granule # MarkCount(data[s.part]),
           NEW t, t.part = s.part, t.granule = s.granule + 1
    PROVE  /\ StandsIn(list, data, t)
           /\ ReadTo(list, data, t) =
                 Cat(ReadTo(list, data, s), Granule(data[t.part], t.granule))
<1> DEFINE i == Position(list, s.part)
           R == data[s.part]
           k == s.granule
           G == Granularity
           B == RowsBefore(list, data, i - 1)
<1>1. /\ k \in 1..MarkCount(R) /\ R \in Seq(S) /\ Len(R) > 0
      /\ ReadTo(list, data, s) = Cat(B, Piece(R, 1, Least(k * G, Len(R))))
  BY ReadToType
<1>2. MarkCount(R) \in Nat \ {0}
  BY <1>1, MarkCountType
<1>3. k < MarkCount(R) /\ k + 1 \in 1..MarkCount(R) /\ (k + 1) - 1 = k
  <2> DEFINE m == MarkCount(R)
  <2>1. k \in 1..m /\ m \in Nat /\ k # m
    BY <1>1, <1>2
  <2> HIDE DEF m, k
  <2>2. k < m /\ k + 1 \in 1..m /\ (k + 1) - 1 = k
    BY <2>1
  <2>3. QED
    BY <2>2 DEF m
<1>4. StandsIn(list, data, t)
  BY <1>3 DEF StandsIn
<1>5. ReadTo(list, data, t) =
         Cat(Cat(RowsBefore(list, data, i - 1), Piece(R, 1, (t.granule - 1) * G)),
             Granule(R, t.granule))
  <2>1. ReadTo(list, data, t) =
           Cat(Cat(RowsBefore(list, data, Position(list, t.part) - 1),
                   Piece(data[t.part], 1, (t.granule - 1) * Granularity)),
               Granule(data[t.part], t.granule))
    BY <1>4, ReadToSplit
  <2>2. QED
    BY <2>1
<1>6. k * G < Len(R) /\ k * G \in Nat /\ Len(R) \in Nat
  BY <1>1, <1>3, GranuleEnds
<1>7. Least(k * G, Len(R)) = k * G
  BY <1>6 DEF Least
<1>8. t.granule - 1 = k
  BY <1>3
<1>9. QED
  BY <1>1, <1>4, <1>5, <1>7, <1>8

LEMMA ReadToAcross ==
    ASSUME NEW S, NEW list \in Seq(Nat \ {0}), Distinct(list),
           NEW data \in [Members(list) -> Seq(S)],
           \A p \in Members(list) : Len(data[p]) > 0,
           NEW s, StandsIn(list, data, s), s.granule = MarkCount(data[s.part]),
           NEW t, t.part \in After(list, s.part), t.granule = 1
    PROVE  /\ StandsIn(list, data, t)
           /\ ReadTo(list, data, t) =
                 Cat(ReadTo(list, data, s), Granule(data[t.part], t.granule))
<1> DEFINE i == Position(list, s.part)
           R == data[s.part]
           U == data[t.part]
           k == s.granule
           G == Granularity
           B(j) == RowsBefore(list, data, j)
<1>1. /\ k \in 1..MarkCount(R) /\ R \in Seq(S) /\ Len(R) > 0
      /\ i \in 1..Len(list) /\ list[i] = s.part
      /\ ReadTo(list, data, s) = Cat(B(i - 1), Piece(R, 1, Least(k * G, Len(R))))
  BY ReadToType
<1>2. i + 1 \in 1..Len(list) /\ t.part = list[i + 1] /\ i < Len(list)
  BY <1>1, SMTT(20) DEF After
<1>3. t.part \in Members(list) /\ U \in Seq(S) /\ Len(U) > 0
  BY <1>2 DEF Members
<1>4. StandsIn(list, data, t)
  <2>1. MarkCount(U) \in Nat \ {0}
    BY <1>3, MarkCountType
  <2>2. 1 \in 1..MarkCount(U)
    BY <2>1
  <2>3. QED
    BY <1>3, <2>2 DEF StandsIn
<1>5. Position(list, t.part) = i + 1
  BY <1>2, PositionFound
<1>6. ReadTo(list, data, t) =
         Cat(Cat(B((i + 1) - 1), Piece(U, 1, (1 - 1) * G)), Granule(U, 1))
  <2>1. ReadTo(list, data, t) =
           Cat(Cat(RowsBefore(list, data, Position(list, t.part) - 1),
                   Piece(data[t.part], 1, (t.granule - 1) * Granularity)),
               Granule(data[t.part], t.granule))
    BY <1>4, ReadToSplit
  <2>2. QED
    BY <1>5, <2>1
<1>7. Piece(U, 1, 0) = <<>> /\ (1 - 1) * G = 0 /\ (i + 1) - 1 = i
  BY <1>1, <1>3, PieceType, GranularityAssumption, SMTT(20)
<1>8. Least(k * G, Len(R)) = Len(R)
  <2>1. Len(R) <= k * G /\ k * G \in Nat /\ Len(R) \in Nat
    BY <1>1, GranuleEnds
  <2>2. QED
    BY <2>1 DEF Least
<1>9. Piece(R, 1, Len(R)) = R
  BY <1>1, PieceWhole
<1>10. B(i) = Cat(B(i - 1), R) /\ B(i) \in Seq(S)
  <2>1. i \in 0..Len(list)
    BY <1>1
  <2>2. B(i) \in Seq(S)
    BY <2>1, RowsBeforeSteps
  <2>3. B(i) = Cat(B(i - 1), data[list[i]])
    BY <1>1, RowsBeforeSteps, SMTT(20)
  <2>4. QED
    BY <1>1, <2>2, <2>3
<1> HIDE DEF B
<1>11. Cat(B(i), <<>>) = B(i)
  BY <1>10, CatEmpty
<1>12. ReadTo(list, data, s) = B(i)
  BY <1>1, <1>8, <1>9, <1>10
<1>13. ReadTo(list, data, t) = Cat(B(i), Granule(U, 1))
  BY <1>6, <1>7, <1>11
<1>14. QED
  BY <1>4, <1>12, <1>13

-----------------------------------------------------------------------------
(* When enough is read *)

(* OFFSET and LIMIT cut out a piece, which what comes later does not change. *)
LEMMA CutIsPiece ==
    ASSUME NEW S, NEW s \in Seq(S), NEW off \in Nat, NEW lim \in Nat,
           lim + off <= Len(s)
    PROVE  SubSeq(DropTo(s, off), 1, Least(Len(DropTo(s, off)), lim)) =
              Piece(s, off + 1, off + lim)
<1> DEFINE d == DropTo(s, off)
<1>1. Least(off, Len(s)) = off
  BY DEF Least
<1>2. d = SubSeq(s, off + 1, Len(s))
  BY <1>1 DEF DropTo
<1>3. d \in Seq(S) /\ Len(d) = Len(s) - off /\ \A i \in 1..Len(d) : d[i] = s[off + i]
  BY <1>2
<1> HIDE DEF d
<1>4. Least(Len(d), lim) = lim
  BY <1>3 DEF Least
<1>5. SubSeq(d, 1, lim) = Piece(s, off + 1, off + lim)
  BY <1>3 DEF Piece
<1>6. QED
  BY <1>4, <1>5 DEF d

(* The answer is exact once a beginning of the rows is read that is all of *)
(* them or has, after filtering, as many rows as Strategy asks for.        *)
LEMMA Enough ==
    ASSUME DataOK, Answering,
           query.kind = "count" => query.limit = NoLimit,
           NEW pre \in Seq(Row), NEW rest \in Seq(Row), Source = Cat(pre, rest),
           rest = <<>> \/ Len(Kept(pre)) >= LinesToRead
    PROVE  AnswerOf(Kept(pre)) = AnswerOf(Kept(Source))
<1> DEFINE k == Kept(pre)
           l == Kept(rest)
           off == query.offset
           lim == query.limit
<1>1. lim \in Nat \cup {NoLimit} /\ off \in Nat /\ query.ordered \in BOOLEAN
  BY DEF DataOK, WellAsked
<1>2. k \in Seq(Row) /\ l \in Seq(Row) /\ Len(k) <= Len(pre)
  BY FilteredType, FilteredBounds DEF Kept
<1>3. Kept(Source) = Cat(k, l)
  BY FilteredCat DEF Kept
<1>4. Len(Source) = Len(pre) + Len(rest)
  BY CatType
<1>5. CASE rest = <<>>
  <2>1. Source = pre
    BY <1>5, CatEmpty
  <2>2. QED
    BY <2>1
<1>6. CASE rest # <<>>
  <2>1. Len(k) >= LinesToRead
    BY <1>6
  <2>2. Len(rest) > 0 /\ Len(rest) \in Nat /\ Len(pre) \in Nat /\ Len(k) \in Nat
    BY <1>2, <1>6, EmptySeq
  <2> HIDE DEF k, l
  <2>3. ~query.ordered /\ lim # NoLimit
    <3>1. ASSUME query.ordered \/ lim = NoLimit PROVE FALSE
      <4>1. LinesToRead = Len(Source)
        BY <3>1 DEF LinesToRead
      <4>2. QED
        BY <1>2, <1>4, <2>1, <2>2, <4>1
    <3>2. QED
      BY <3>1
  <2>4. lim \in Nat /\ query.kind # "count"
    BY <1>1, <2>3
  <2>5. LinesToRead = Least(Len(Source), lim) + off
    BY <2>3 DEF LinesToRead
  <2>6. lim + off <= Len(k)
    <3>1. Least(Len(Source), lim) + off <= Len(k)
      BY <2>1, <2>5, <2>2, <2>4, <1>1, <1>4 DEF Least
    <3>2. QED
      BY <1>1, <1>2, <1>4, <2>2, <2>4, <3>1 DEF Least
  <2>7. \A s : Shape(s) = s
    BY <2>3, <2>4 DEF Shape
  <2>8. \A s : AnswerOf(s) = SubSeq(DropTo(s, off), 1, Least(Len(DropTo(s, off)), lim))
    BY <2>3, <2>7 DEF AnswerOf, Truncate
  <2>9. AnswerOf(k) = Piece(k, off + 1, off + lim)
    BY <1>1, <1>2, <2>4, <2>6, <2>8, CutIsPiece
  <2>10. AnswerOf(Cat(k, l)) = Piece(Cat(k, l), off + 1, off + lim)
    <3> DEFINE c == Cat(k, l)
    <3>1. c \in Seq(Row) /\ Len(c) = Len(k) + Len(l) /\ Len(l) \in Nat
      BY <1>2, CatType
    <3> HIDE DEF c
    <3>2. lim + off <= Len(c)
      BY <1>1, <2>2, <2>4, <2>6, <3>1
    <3>3. AnswerOf(c) = Piece(c, off + 1, off + lim)
      BY <1>1, <2>4, <2>8, <3>1, <3>2, CutIsPiece
    <3>4. QED
      BY <3>3 DEF c
  <2>11. Piece(Cat(k, l), off + 1, off + lim) = Piece(k, off + 1, off + lim)
    <3> DEFINE m == off + 1
               n == off + lim
    <3>1. m \in Int /\ n \in Int /\ m >= 1 /\ n <= Len(k)
      BY <1>1, <2>4, <2>6
    <3> HIDE DEF m, n
    <3>2. Piece(Cat(k, l), m, n) = Piece(k, m, n)
      BY <1>2, <3>1, PieceOfCat
    <3>3. QED
      BY <3>2 DEF m, n
  <2>12. QED
    BY <1>3, <2>9, <2>10, <2>11 DEF k
<1>7. QED
  BY <1>5, <1>6

-----------------------------------------------------------------------------
(* The storage of a table *)

LEMMA NativeStep ==
    ASSUME DataOK, StandType, stand = NotOpen \/ StandsIn(infos, rowsOf, stand),
           NEW s \in NextNative
    PROVE  /\ s \in [part : Nat, granule : Nat]
           /\ StandsIn(infos, rowsOf, s)
           /\ ReadTo(infos, rowsOf, s) =
                 Cat(ReadTo(infos, rowsOf, stand), Granule(rowsOf[s.part], s.granule))
<1>1. /\ infos \in Seq(Nat \ {0}) /\ Distinct(infos)
      /\ rowsOf \in [Members(infos) -> Seq(Row)]
      /\ \A p \in Members(infos) : Len(rowsOf[p]) > 0
  BY DEF DataOK
<1>2. \A p \in Members(infos) : p \in Nat /\ p # 0
  BY <1>1, MembersType
<1>w. \A u, v : /\ StandsIn(infos, rowsOf, u) /\ u.granule # MarkCount(rowsOf[u.part])
                /\ v.part = u.part /\ v.granule = u.granule + 1
                => /\ StandsIn(infos, rowsOf, v)
                   /\ ReadTo(infos, rowsOf, v) =
                         Cat(ReadTo(infos, rowsOf, u), Granule(rowsOf[v.part], v.granule))
  BY <1>1, ReadToWithin, SMTT(30)
<1>3. CASE stand = NotOpen
  <2>1. PICK i \in {1} \cap DOMAIN infos : s = [part |-> infos[i], granule |-> 1]
    BY <1>3 DEF NextNative
  <2>2. i = 1 /\ Len(infos) > 0 /\ infos[1] \in Members(infos)
    BY <1>1, <2>1 DEF Members
  <2>3. s.part = infos[1] /\ s.granule = 1 /\ s \in [part : Nat, granule : Nat]
    BY <1>2, <2>1, <2>2
  <2>4. /\ StandsIn(infos, rowsOf, s)
        /\ ReadTo(infos, rowsOf, s) = Cat(<<>>, Granule(rowsOf[s.part], s.granule))
    BY <1>1, <2>2, <2>3, ReadToFirst
  <2>5. ReadTo(infos, rowsOf, stand) = <<>>
    BY <1>3 DEF ReadTo
  <2>6. QED
    BY <2>3, <2>4, <2>5
<1>4. CASE StandsIn(infos, rowsOf, stand)
  <2>0. stand # NotOpen
    BY <1>2, <1>4 DEF StandsIn, NotOpen
  <2>1. CASE stand.granule = MarkCount(rowsOf[stand.part])
    <3>1. PICK p \in After(infos, stand.part) : s = [part |-> p, granule |-> 1]
      BY <2>0, <2>1 DEF NextNative
    <3>2. p \in Members(infos)
      BY <1>1, AfterType
    <3>3. s.part \in After(infos, stand.part) /\ s.granule = 1
          /\ s \in [part : Nat, granule : Nat]
      BY <1>2, <3>1, <3>2
    <3>4. QED
      BY <1>1, <1>4, <2>1, <3>3, ReadToAcross, ZenonT(40)
  <2>2. CASE stand.granule # MarkCount(rowsOf[stand.part])
    <3>1. s = [stand EXCEPT !.granule = @ + 1]
      BY <2>0, <2>2 DEF NextNative
    <3>2. s.part = stand.part /\ s.granule = stand.granule + 1
          /\ s \in [part : Nat, granule : Nat]
      BY <3>1 DEF StandType
    <3>3. QED
      BY <1>4, <1>w, <2>2, <3>2
  <2>3. QED
    BY <2>1, <2>2
<1>5. QED
  BY <1>3, <1>4

(* What is read is a beginning of all rows; when no granule is left, it is *)
(* all of them.                                                            *)
LEMMA NativePrefix ==
    ASSUME DataOK, StandType, stand = NotOpen \/ StandsIn(infos, rowsOf, stand)
    PROVE  /\ ReadTo(infos, rowsOf, stand) \in Seq(Row)
           /\ \E rest \in Seq(Row) :
                 /\ AllRows = Cat(ReadTo(infos, rowsOf, stand), rest)
                 /\ NextNative = {} => rest = <<>>
<1>1. /\ infos \in Seq(Nat \ {0}) /\ Distinct(infos)
      /\ rowsOf \in [Members(infos) -> Seq(Row)]
      /\ \A p \in Members(infos) : Len(rowsOf[p]) > 0
  BY DEF DataOK
<1>a. AllRows = RowsIn(infos, rowsOf)
  BY DEF AllRows
<1>t. AllRows \in Seq(Row) /\ <<>> \in Seq(Row)
  <2>1. Len(infos) \in 0..Len(infos)
    BY <1>1
  <2>2. RowsBefore(infos, rowsOf, Len(infos)) \in Seq(Row)
        /\ RowsBefore(infos, rowsOf, Len(infos)) = RowsIn(infos, rowsOf)
    BY <1>1, <2>1, RowsBeforeSteps
  <2>3. QED
    BY <1>a, <2>2, EmptySeq
<1>2. CASE stand = NotOpen
  <2>1. ReadTo(infos, rowsOf, stand) = <<>>
    BY <1>2 DEF ReadTo
  <2>2. AllRows = Cat(<<>>, AllRows)
    BY <1>t, CatEmpty
  <2>3. ASSUME NextNative = {} PROVE AllRows = <<>>
    <3>1. Len(infos) = 0
      <4>1. ASSUME Len(infos) # 0 PROVE FALSE
        <5>1. 1 \in {1} \cap DOMAIN infos
          BY <1>1, <4>1
        <5>2. [part |-> infos[1], granule |-> 1] \in NextNative
          BY <1>2, <5>1 DEF NextNative
        <5>3. QED
          BY <2>3, <5>2
      <4>2. QED
        BY <4>1
    <3>2. RowsBefore(infos, rowsOf, 0) = <<>>
          /\ RowsBefore(infos, rowsOf, Len(infos)) = RowsIn(infos, rowsOf)
      BY <1>1, RowsBeforeSteps
    <3>3. QED
      BY <1>a, <3>1, <3>2
  <2>4. QED
    BY <1>t, <2>1, <2>2, <2>3
<1>3. CASE StandsIn(infos, rowsOf, stand)
  <2> DEFINE i == Position(infos, stand.part)
             last == stand.granule = MarkCount(rowsOf[stand.part]) /\ i = Len(infos)
  <2>1. /\ i \in 1..Len(infos)
        /\ ReadTo(infos, rowsOf, stand) \in Seq(Row)
        /\ \E rest \in Seq(Row) :
              /\ RowsIn(infos, rowsOf) = Cat(ReadTo(infos, rowsOf, stand), rest)
              /\ last => rest = <<>>
    BY <1>1, <1>3, ReadToType
  <2>0. stand # NotOpen
    <3>1. stand.part \in Nat \ {0}
      BY <1>1, <1>3, MembersType DEF StandsIn
    <3>2. QED
      BY <3>1 DEF NotOpen
  <2>2. NextNative = {} => last
    <3>1. ASSUME stand.granule # MarkCount(rowsOf[stand.part]) PROVE NextNative # {}
      BY <2>0, <3>1 DEF NextNative
    <3>2. ASSUME stand.granule = MarkCount(rowsOf[stand.part]), i # Len(infos)
          PROVE  NextNative # {}
      <4>1. i # 0 /\ i < Len(infos)
        BY <1>1, <2>1, <3>2
      <4>2. After(infos, stand.part) = {infos[i + 1]}
        BY <4>1 DEF After
      <4>3. NextNative = {[part |-> p, granule |-> 1] : p \in After(infos, stand.part)}
        BY <2>0, <3>2 DEF NextNative
      <4>4. [part |-> infos[i + 1], granule |-> 1] \in NextNative
        BY <4>2, <4>3
      <4>5. QED
        BY <4>4
    <3>3. QED
      BY <3>1, <3>2
  <2> HIDE DEF last
  <2>3. QED
    BY <1>a, <2>1, <2>2
<1>4. QED
  BY <1>2, <1>3

(* The granules are rows of the table.                                     *)
LEMMA GranuleOfTable ==
    ASSUME DataOK, NEW s, StandsIn(infos, rowsOf, s)
    PROVE  LET g == Granule(rowsOf[s.part], s.granule)
           IN  /\ g \in Seq(Row) /\ g # <<>> /\ Len(g) \in 1..Granularity
               /\ Members(g) \subseteq Members(AllRows)
<1> DEFINE R == rowsOf[s.part]
           g == Granule(R, s.granule)
           y == Cat(RowsBefore(infos, rowsOf, Position(infos, s.part) - 1),
                    Piece(R, 1, (s.granule - 1) * Granularity))
           r == ReadTo(infos, rowsOf, s)
<1>1. /\ infos \in Seq(Nat \ {0}) /\ Distinct(infos)
      /\ rowsOf \in [Members(infos) -> Seq(Row)]
      /\ \A p \in Members(infos) : Len(rowsOf[p]) > 0
  BY DEF DataOK
<1>2. R \in Seq(Row) /\ Len(R) > 0 /\ s.granule \in 1..MarkCount(R)
  BY <1>1 DEF StandsIn
<1>3. g \in Seq(Row) /\ Len(g) \in 1..Granularity
  BY <1>2, GranulePiece
<1>4. g # <<>>
  <2> HIDE DEF g
  <2>1. Len(g) # 0
    BY <1>3, GranularityAssumption
  <2>2. QED
    BY <2>1, EmptySeq
<1>5. r = Cat(y, g)
  BY <1>1, ReadToSplit
<1>6. r \in Seq(Row) /\ \E rest \in Seq(Row) : AllRows = Cat(r, rest)
  BY <1>1, ReadToType DEF AllRows
<1>7. y \in Seq(Row)
  <2> DEFINE b == RowsBefore(infos, rowsOf, Position(infos, s.part) - 1)
             p == Piece(R, 1, (s.granule - 1) * Granularity)
  <2>1. Position(infos, s.part) \in 1..Len(infos)
    BY <1>1, ReadToType
  <2>2. Position(infos, s.part) - 1 \in 0..Len(infos)
    BY <1>1, <2>1
  <2>3. b \in Seq(Row)
    BY <1>1, <2>2, RowsBeforeSteps
  <2>4. p \in Seq(Row)
    <3> DEFINE h == (s.granule - 1) * Granularity
    <3>1. h \in Int /\ h <= Len(R)
      <4>1. h \in Nat /\ h < Len(R)
        BY <1>2, GranuleEnds
      <4>2. QED
        BY <1>2, <4>1
    <3> HIDE DEF h
    <3>2. Piece(R, 1, h) \in Seq(Row)
      BY <1>2, <3>1, PieceType
    <3>3. QED
      BY <3>2 DEF h
  <2> HIDE DEF b, p
  <2>5. Cat(b, p) \in Seq(Row)
    BY <2>3, <2>4, CatType
  <2>6. QED
    BY <2>5 DEF b, p
<1> HIDE DEF g, y, r
<1>8. Members(g) \subseteq Members(r)
  BY <1>3, <1>5, <1>7, MembersCat
<1>9. Members(r) \subseteq Members(AllRows)
  BY <1>6, MembersCat
<1>10. QED
  BY <1>3, <1>4, <1>8, <1>9 DEF g

-----------------------------------------------------------------------------
(* One chunk *)

LEMMA CapSmall ==
    ASSUME NEW S, NEW s \in Seq(S), Len(s) <= OutputCap
    PROVE  Cap(s) = s
<1>1. OutputCap \in Nat /\ Len(s) \in Nat
  BY TableScanAssumption
<1>2. (IF Len(s) < OutputCap THEN Len(s) ELSE OutputCap) = Len(s)
  BY <1>1
<1>3. Cap(s) = Piece(s, 1, Len(s))
  BY <1>2 DEF Cap, Piece
<1>4. QED
  BY <1>3, PieceWhole

LEMMA CapMembers ==
    ASSUME NEW S, NEW s \in Seq(S)
    PROVE  Cap(s) \in Seq(S) /\ Members(Cap(s)) \subseteq Members(s)
<1> DEFINE n == IF Len(s) < OutputCap THEN Len(s) ELSE OutputCap
<1>1. n \in Int /\ n <= Len(s)
  BY TableScanAssumption
<1>2. Cap(s) = Piece(s, 1, n)
  BY DEF Cap, Piece
<1> HIDE DEF n
<1>3. QED
  BY <1>1, <1>2, PieceMembers, PieceType

(* A part of whole granules has no short one.                              *)
LEMMA WholeGranule ==
    ASSUME NEW S, NEW rows \in Seq(S), Len(rows) > 0, Len(rows) % Granularity = 0,
           NEW k \in 1..MarkCount(rows)
    PROVE  k * Granularity <= Len(rows)
<1> DEFINE M == MarkCount(rows)
           G == Granularity
           q == Len(rows) \div G
<1>1. /\ M \in Nat \ {0} /\ (M * G) - G < Len(rows) /\ M * G >= Len(rows)
      /\ G \in Nat \ {0} /\ Len(rows) \in Nat
  BY MarkCountType, GranularityAssumption
<1>2. q \in Int /\ Len(rows) = q * G
  BY <1>1
<1>3. k \in Int /\ k <= M
  BY <1>1
<1> HIDE DEF q, M, G
<1>4. (M - 1) * G = M * G - G
  BY <1>1
<1>5. M <= q
  <2>1. ASSUME ~(M <= q) PROVE FALSE
    <3>1. q <= M - 1 /\ M - 1 \in Int /\ G \in Nat
      BY <1>1, <1>2, <2>1
    <3>2. q * G <= (M - 1) * G
      BY <1>2, <3>1, TimesGrows
    <3> DEFINE x == q * G
               y == (M - 1) * G
    <3>3. x \in Int /\ y \in Int /\ x <= y /\ y < Len(rows) /\ Len(rows) = x
      BY <1>1, <1>2, <1>4, <3>1, <3>2
    <3> HIDE DEF x, y
    <3>4. QED
      BY <3>3
  <2>2. QED
    BY <2>1
<1>6. k <= q /\ G \in Nat
  BY <1>1, <1>2, <1>3, <1>5
<1>7. k * G <= q * G
  BY <1>2, <1>3, <1>6, TimesGrows
<1>8. QED
  BY <1>2, <1>7 DEF G

(* A chunk of a table continues what is read, and the bound on the output  *)
(* cuts off none of it.                                                    *)
LEMMA TableChunk ==
    ASSUME DataOK, StandType, TableRead, Scanning({"rows", "count"}),
           NEW s \in NextNative
    PROVE  LET chunk == Granule(rowsOf[s.part], s.granule)
           IN  /\ Cap(out \o Kept(chunk)) = Cat(out, Kept(chunk))
               /\ Cat(out, Kept(chunk)) = Kept(ReadTo(infos, rowsOf, s))
               /\ out \in Seq(Row) /\ Kept(chunk) \in Seq(Row)
               /\ Len(Cat(out, Kept(chunk))) = Len(out) + Len(Kept(chunk))
<1> DEFINE chunk == Granule(rowsOf[s.part], s.granule)
           r == ReadTo(infos, rowsOf, stand)
           t == ReadTo(infos, rowsOf, s)
<1>1. out = Kept(r) /\ (stand = NotOpen \/ StandsIn(infos, rowsOf, stand))
  BY DEF TableRead
<1>2. StandsIn(infos, rowsOf, s) /\ t = Cat(r, chunk)
  BY <1>1, NativeStep
<1>3. chunk \in Seq(Row)
  BY <1>2, GranuleOfTable
<1>4. r \in Seq(Row)
  BY <1>1, NativePrefix
<1>5. t \in Seq(Row) /\ \E rest \in Seq(Row) : AllRows = Cat(t, rest)
  <2>1. /\ infos \in Seq(Nat \ {0}) /\ Distinct(infos)
        /\ rowsOf \in [Members(infos) -> Seq(Row)]
        /\ \A p \in Members(infos) : Len(rowsOf[p]) > 0
    BY DEF DataOK
  <2>2. QED
    <3>1. ReadTo(infos, rowsOf, s) \in Seq(Row)
      BY <1>2, <2>1, ReadToType
    <3>2. \E rest \in Seq(Row) : RowsIn(infos, rowsOf) = Cat(ReadTo(infos, rowsOf, s), rest)
      BY <1>2, <2>1, ReadToPrefix, SMTT(20)
    <3>3. QED
      BY <3>1, <3>2 DEF AllRows
<1> HIDE DEF r, t, chunk
<1>6. out \in Seq(Row) /\ Kept(chunk) \in Seq(Row) /\ Kept(t) \in Seq(Row)
      /\ Len(Kept(t)) <= Len(t)
  BY <1>1, <1>3, <1>4, <1>5, FilteredType, FilteredBounds DEF Kept
<1>7. Kept(t) = Cat(out, Kept(chunk))
  BY <1>1, <1>2, <1>3, <1>4, FilteredCat DEF Kept
<1>8. Len(t) <= Len(AllRows)
  <2>1. PICK rest \in Seq(Row) : AllRows = Cat(t, rest)
    BY <1>5
  <2>2. Len(AllRows) = Len(t) + Len(rest)
    BY <1>5, <2>1, CatType
  <2>3. QED
    BY <1>5, <2>2
<1>9. Len(Kept(t)) <= OutputCap
  <2>1. Len(AllRows) <= OutputCap /\ OutputCap \in Nat
    BY TableScanAssumption DEF DataOK
  <2>2. Len(t) \in Nat /\ Len(Kept(t)) \in Nat
    BY <1>5, <1>6
  <2>3. AllRows \in Seq(Row)
    <3>1. PICK rest \in Seq(Row) : AllRows = Cat(t, rest)
      BY <1>5
    <3>2. QED
      BY <1>5, <3>1, CatType
  <2>4. Len(AllRows) \in Nat
    BY <2>3
  <2>5. QED
    BY <1>6, <1>8, <2>1, <2>2, <2>4
<1>10. Cap(Kept(t)) = Kept(t)
  BY <1>6, <1>9, CapSmall
<1>11. out \o Kept(chunk) = Kept(t)
  BY <1>7 DEF Cat
<1>12. Len(Cat(out, Kept(chunk))) = Len(out) + Len(Kept(chunk))
  BY <1>6, CatType
<1>13. QED
  BY <1>6, <1>7, <1>10, <1>11, <1>12 DEF chunk, t

(* A nested SELECT's storage goes to the next granule, or starts over.     *)
LEMMA NestedStep ==
    ASSUME DataOK, StandType, NestedRead, Scanning({"nested"}), NEW s \in NextVirtual
    PROVE  /\ s \in [part : Nat, granule : Nat] /\ s.part = 0
           /\ Len(query.inner) > 0 /\ s.granule \in 1..MarkCount(query.inner)
           /\ \/ s.granule = stand.granule + 1
              \/ s.granule = 1 /\ stand.granule = MarkCount(query.inner)
<1> DEFINE M == MarkCount(query.inner)
<1>1. query.inner \in Seq(Row)
  BY DEF DataOK, WellAsked
<1>2. M \in Nat /\ (M = 0 <=> query.inner = <<>>)
  BY <1>1, NoMarks
<1>3. stand.part = 0 /\ stand.granule \in 0..M /\ stand \in [part : Nat, granule : Nat]
  BY DEF NestedRead, StandType
<1>4. stand = NotOpen <=> stand.granule = 0
  BY <1>3 DEF NotOpen
<1>n. Len(query.inner) > 0 <=> M # 0
  BY <1>1, <1>2, EmptySeq
<1>5. CASE stand # NotOpen /\ stand.granule < M
  <2>1. s = [stand EXCEPT !.granule = @ + 1]
    BY <1>5 DEF NextVirtual
  <2>2. s.part = 0 /\ s.granule = stand.granule + 1 /\ s \in [part : Nat, granule : Nat]
    BY <1>3, <2>1
  <2> HIDE DEF M
  <2>3. s.granule \in 1..M /\ M # 0
    BY <1>2, <1>3, <1>5, <2>2
  <2>4. QED
    BY <1>n, <2>2, <2>3 DEF M
<1>6. CASE ~(stand # NotOpen /\ stand.granule < M)
  <2>1. M # 0 /\ s = [part |-> 0, granule |-> 1]
    BY <1>6 DEF NextVirtual
  <2>2. s.part = 0 /\ s.granule = 1 /\ s \in [part : Nat, granule : Nat]
    BY <2>1
  <2> HIDE DEF M
  <2>3. stand.granule = 0 \/ stand.granule = M
    BY <1>2, <1>3, <1>4, <1>6
  <2>4. 1 \in 1..M
    BY <1>2, <2>1
  <2>5. QED
    BY <1>n, <2>1, <2>2, <2>3, <2>4 DEF M
<1>7. QED
  BY <1>5, <1>6

(* A chunk is never larger than a granule and has rows of the source only. *)
LEMMA ChunkType ==
    ASSUME ScanInv, pc = "scan", Answering, NEW s \in NextChunk
    PROVE  /\ s \in [part : Nat, granule : Nat]
           /\ ChunkAt(s) \in Seq(Row) /\ Len(ChunkAt(s)) <= Granularity
           /\ Members(ChunkAt(s)) \subseteq Members(Source)
<1> USE DEF ScanInv
<1>1. CASE query.kind = "nested"
  <2> DEFINE k == s.granule
             R == query.inner
  <2>1. /\ s \in [part : Nat, granule : Nat]
        /\ Len(R) > 0 /\ k \in 1..MarkCount(R)
    BY <1>1, NestedStep DEF NextChunk, Scanning
  <2>2. R \in Seq(Row)
    BY DEF DataOK, WellAsked
  <2>3. ChunkAt(s) = Granule(R, k) /\ Source = R
    BY <1>1 DEF ChunkAt, Source
  <2>4. Granule(R, k) \in Seq(Row) /\ Len(Granule(R, k)) \in 1..Granularity
    BY <2>1, <2>2, GranulePiece
  <2>5. Members(Granule(R, k)) \subseteq Members(R)
    <3> DEFINE m == (k - 1) * Granularity + 1
               n == Least(k * Granularity, Len(R))
    <3>1. Granule(R, k) = Piece(R, m, n)
      BY <2>1, <2>2, GranulePiece
    <3>2. m \in Int /\ n \in Int /\ m >= 1 /\ n <= Len(R)
      <4>1. (k - 1) * Granularity \in Nat /\ k * Granularity \in Nat /\ Len(R) \in Nat
        BY <2>1, <2>2, GranuleEnds
      <4>2. QED
        BY <4>1 DEF Least
    <3> HIDE DEF m, n
    <3>3. QED
      BY <2>2, <3>1, <3>2, PieceMembers
  <2>6. Len(Granule(R, k)) <= Granularity
    BY <2>4, GranularityAssumption
  <2>7. QED
    BY <2>1, <2>3, <2>4, <2>5, <2>6
<1>2. CASE query.kind # "nested"
  <2>1. stand = NotOpen \/ StandsIn(infos, rowsOf, stand)
    BY <1>2 DEF TableRead, Scanning, DataOK, WellAsked, Answering
  <2>2. s \in [part : Nat, granule : Nat] /\ StandsIn(infos, rowsOf, s)
    BY <1>2, <2>1, NativeStep DEF NextChunk
  <2> DEFINE g == Granule(rowsOf[s.part], s.granule)
  <2>3. /\ g \in Seq(Row) /\ Len(g) \in 1..Granularity
        /\ Members(g) \subseteq Members(AllRows)
    BY <2>2, GranuleOfTable
  <2>4. ChunkAt(s) = g /\ Source = AllRows
    BY <1>2 DEF ChunkAt, Source
  <2> HIDE DEF g
  <2>5. Len(g) <= Granularity
    BY <2>3, GranularityAssumption
  <2>6. QED
    BY <2>2, <2>3, <2>4, <2>5
<1>3. QED
  BY <1>1, <1>2

(* An empty list of next chunks only when everything is read, and enough   *)
(* is read when Strategy says so.                                          *)
LEMMA FinishIsExact ==
    ASSUME ScanInv, pc = "scan", Answering,
           ~ShouldReadNextChunk \/ NextChunk = {},
           query.kind = "count" => query.limit = NoLimit
    PROVE  AnswerOf(out) = AnswerOf(Kept(Source))
<1> USE DEF ScanInv
<1>0. /\ query.kind \in {"rows", "count", "nested"}
      /\ query.limit \in Nat \cup {NoLimit} /\ query.offset \in Nat
      /\ query.inner \in Seq(Row)
  BY DEF DataOK, WellAsked, Answering
<1>1. CASE query.kind # "nested"
  <2>1. /\ stand = NotOpen \/ StandsIn(infos, rowsOf, stand)
        /\ out = Kept(ReadTo(infos, rowsOf, stand))
        /\ linesRead <= Len(out)
    BY <1>0, <1>1 DEF TableRead, Scanning
  <2> DEFINE pre == ReadTo(infos, rowsOf, stand)
  <2>2. pre \in Seq(Row) /\ \E rest \in Seq(Row) :
           AllRows = Cat(pre, rest) /\ (NextNative = {} => rest = <<>>)
    BY <2>1, NativePrefix
  <2> HIDE DEF pre
  <2>3. PICK rest \in Seq(Row) : AllRows = Cat(pre, rest) /\ (NextNative = {} => rest = <<>>)
    BY <2>2
  <2>4. out = Kept(pre)
    BY <2>1 DEF pre
  <2>5. Source = Cat(pre, rest)
    BY <1>1, <2>3 DEF Source
  <2>6. rest = <<>> \/ Len(Kept(pre)) >= LinesToRead
    <3>1. CASE NextChunk = {}
      BY <1>1, <2>3, <3>1 DEF NextChunk
    <3>2. CASE ~ShouldReadNextChunk
      <4>1. ~(LinesToRead > linesRead) /\ linesRead \in Nat
        BY <3>2 DEF ShouldReadNextChunk, TypeOK
      <4>2. LinesToRead \in Int
        <5>1. Source \in Seq(Row)
          BY <2>2, <2>5, CatType
        <5>2. Len(Source) \in Nat
          BY <5>1
        <5>3. QED
          BY <1>0, <5>2 DEF LinesToRead, Least, NoLimit
      <4>3. Len(out) \in Nat
        <5>1. out \in Seq(Row)
          BY <2>2, <2>4, FilteredType DEF Kept
        <5>2. QED
          BY <5>1
      <4>4. Len(out) >= LinesToRead
        BY <2>1, <4>1, <4>2, <4>3
      <4>5. QED
        BY <2>4, <4>4
    <3>3. QED
      BY <3>1, <3>2
  <2>7. QED
    BY <2>2, <2>4, <2>5, <2>6, Enough
<1>2. CASE query.kind = "nested"
  <2> DEFINE R == query.inner
             G == Granularity
             M == MarkCount(R)
             g == stand.granule
  <2>1. /\ stand.part = 0 /\ g \in 0..M
        /\ g * G <= Len(R)
        /\ linesRead = IF g = 0 THEN 0 ELSE Len(Kept(Granule(R, g)))
        /\ \/ out = Kept(Piece(R, 1, g * G)) /\ NoneEnds(g)
           \/ g # 0 /\ NoneEnds(M + 1)
    BY <1>2 DEF NestedRead, Scanning
  <2>2. M \in Nat /\ (M = 0 <=> R = <<>>) /\ Len(R) \in Nat
    BY <1>0, NoMarks
  <2>3. Source = R /\ linesRead \in Nat
    BY <1>2 DEF Source, TypeOK
  <2>4. LinesToRead \in Int
    BY <1>0, <2>2, <2>3 DEF LinesToRead, Least, NoLimit
  <2>5. CASE ~ShouldReadNextChunk
    <3>1. linesRead >= LinesToRead
      BY <2>3, <2>4, <2>5 DEF ShouldReadNextChunk
    <3>2. ~(g # 0 /\ NoneEnds(M + 1))
      <4>1. ASSUME g # 0, NoneEnds(M + 1) PROVE FALSE
        <5>1. g \in 1..((M + 1) - 1)
          BY <2>1, <2>2, <4>1
        <5>2. Len(Kept(Granule(R, g))) < LinesToRead
          BY <4>1, <5>1 DEF NoneEnds
        <5>3. linesRead < LinesToRead
          BY <2>1, <4>1, <5>2
        <5>4. QED
          BY <2>3, <2>4, <3>1, <5>3
      <4>2. QED
        BY <4>1
    <3>3. out = Kept(Piece(R, 1, g * G))
      BY <2>1, <3>2
    <3> DEFINE e == g * G
               pre == Piece(R, 1, e)
               rest == Piece(R, e + 1, Len(R))
    <3>4. e \in Nat /\ e <= Len(R)
      BY <2>1, <2>2, GranularityAssumption
    <3>5. pre \in Seq(Row) /\ rest \in Seq(Row)
      <4> HIDE DEF e
      <4>1. Piece(R, 1, e) \in Seq(Row)
        BY <1>0, <3>4, PieceType
      <4> DEFINE f == e + 1
      <4>2. f \in Int /\ f >= 1
        BY <3>4
      <4> HIDE DEF f
      <4>3. Piece(R, f, Len(R)) \in Seq(Row)
        BY <1>0, <2>2, <4>2, PieceType
      <4>4. QED
        BY <4>1, <4>3 DEF f
    <3>6. Cat(pre, rest) = R
      <4> HIDE DEF e
      <4>1. Cat(Piece(R, 1, e), Piece(R, e + 1, Len(R))) = Piece(R, 1, Len(R))
        BY <1>0, <2>2, <3>4, PieceCat
      <4>2. QED
        BY <1>0, <4>1, PieceWhole
    <3>7. Len(Kept(pre)) >= LinesToRead
      <4>1. CASE g = 0
        <5>1. linesRead = 0
          BY <2>1, <4>1
        <5>2. Kept(pre) \in Seq(Row)
          BY <3>5, FilteredType DEF Kept
        <5> HIDE DEF pre
        <5>3. Len(Kept(pre)) \in Nat
          BY <5>2
        <5>4. QED
          BY <2>4, <3>1, <5>1, <5>3
      <4>2. CASE g # 0
        <5>1. g \in 1..M /\ Len(R) > 0
          BY <2>1, <2>2, <4>2, EmptySeq
        <5> DEFINE b == (g - 1) * G
                   first == Piece(R, 1, b)
                   chunk == Granule(R, g)
        <5>2. chunk \in Seq(Row) /\ Cat(first, chunk) = Piece(R, 1, Least(g * G, Len(R)))
          BY <1>0, <5>1, GranulePiece
        <5>3. Least(g * G, Len(R)) = e
          BY <2>2, <3>4 DEF Least
        <5>4. b \in Int /\ b <= Len(R)
          <6>1. b \in Nat /\ b < Len(R)
            BY <1>0, <5>1, GranuleEnds
          <6>2. QED
            BY <2>2, <6>1
        <5>5. first \in Seq(Row)
          <6> HIDE DEF b
          <6>1. QED
            BY <1>0, <5>4, PieceType
        <5>6. Cat(first, chunk) = pre
          BY <5>2, <5>3
        <5> HIDE DEF first, chunk, pre
        <5>7. Kept(pre) = Cat(Kept(first), Kept(chunk))
          BY <5>2, <5>5, <5>6, FilteredCat DEF Kept
        <5>8. Kept(first) \in Seq(Row) /\ Kept(chunk) \in Seq(Row)
          BY <5>2, <5>5, FilteredType DEF Kept
        <5>9. Len(Kept(pre)) = Len(Kept(first)) + Len(Kept(chunk))
          BY <5>7, <5>8, CatType
        <5>10. Len(Kept(first)) \in Nat /\ Len(Kept(chunk)) \in Nat
          BY <5>8
        <5>11. linesRead = Len(Kept(chunk))
          BY <2>1, <4>2 DEF chunk
        <5>12. QED
          BY <2>4, <3>1, <5>9, <5>10, <5>11
      <4>3. QED
        BY <4>1, <4>2
    <3> HIDE DEF pre, rest
    <3>8. out = Kept(pre)
      BY <3>3 DEF pre
    <3>9. Source = Cat(pre, rest)
      BY <2>3, <3>6
    <3>10. QED
      BY <3>5, <3>7, <3>8, <3>9, Enough
  <2>6. CASE NextChunk = {}
    <3>1. NextVirtual = {}
      BY <1>2, <2>6 DEF NextChunk
    <3>2. M = 0
      BY <3>1 DEF NextVirtual
    <3>3. R = <<>> /\ g = 0
      BY <2>1, <2>2, <3>2
    <3>4. out = Kept(Piece(R, 1, g * G))
      BY <2>1, <3>3
    <3>5. Piece(R, 1, g * G) = <<>>
      <4>1. g * G = 0
        BY <3>3, GranularityAssumption
      <4>2. Piece(R, 1, 0) = <<>>
        BY <1>0, <2>2, PieceType
      <4>3. QED
        BY <4>1, <4>2
    <3>6. QED
      BY <2>3, <3>3, <3>4, <3>5
  <2>7. QED
    BY <2>5, <2>6
<1>3. QED
  BY <1>1, <1>2

-----------------------------------------------------------------------------
(* The initial states *)

LEMMA DataHolds == Init => DataOK
<1> SUFFICES ASSUME Init PROVE DataOK
  OBVIOUS
<1>1. PICK size \in [Members(infos) -> PartSizes] : rowsOf = DataOf(size)
  BY DEF Init
<1>2. infos \in PartLists /\ query \in Queries(rowsOf)
  BY DEF Init
<1>3. /\ infos \in Seq(Nat \ {0}) /\ Distinct(infos)
      /\ \A z \in [Members(infos) -> PartSizes] :
            \A q \in Queries(DataOf(z)) :
                /\ WellAsked(q, infos, DataOf(z))
                /\ Len(RowsIn(infos, DataOf(z))) <= OutputCap
                /\ Len(q.inner) <= OutputCap
  BY <1>2, TableScanAssumption DEF Distinct
<1>4. /\ WellAsked(query, infos, rowsOf)
      /\ Len(RowsIn(infos, rowsOf)) <= OutputCap /\ Len(query.inner) <= OutputCap
  BY <1>1, <1>2, <1>3
<1>5. \A p \in Members(infos) : p \in Nat /\ size[p] \in Nat /\ size[p] > 0
  <2>1. Members(infos) \subseteq Nat \ {0}
    BY <1>3, MembersType
  <2>2. ASSUME NEW n \in PartSizes PROVE n \in Nat /\ n > 0
    BY TableScanAssumption
  <2>3. ASSUME NEW p \in Members(infos)
        PROVE  p \in Nat /\ size[p] \in Nat /\ size[p] > 0
    <3>1. size[p] \in PartSizes
      OBVIOUS
    <3>2. QED
      BY <2>1, <2>2, <3>1
  <2>4. QED
    BY <2>3
<1>6. rowsOf = [p \in Members(infos) |-> [i \in 1..size[p] |-> <<p, i>>]]
  BY <1>1 DEF DataOf
<1>7. ASSUME NEW p \in Members(infos)
      PROVE  rowsOf[p] \in Seq(Row) /\ Len(rowsOf[p]) > 0
  <2> DEFINE n == size[p]
             f == [i \in 1..n |-> <<p, i>>]
  <2>1. n \in Nat /\ n > 0 /\ p \in Nat
    BY <1>5
  <2>2. \A i \in 1..n : <<p, i>> \in Row
    BY <2>1 DEF Row
  <2>3. rowsOf[p] = f
    BY <1>6
  <2> HIDE DEF n
  <2>4. f \in Seq(Row) /\ Len(f) = n
    BY <2>1, <2>2
  <2>5. QED
    BY <2>1, <2>3, <2>4
<1>8. rowsOf \in [Members(infos) -> Seq(Row)]
  BY <1>6, <1>7
<1>9. QED
  BY <1>3, <1>4, <1>7, <1>8 DEF DataOK, AllRows

LEMMA ScanInvInit == Init => ScanInv
<1> SUFFICES ASSUME Init PROVE ScanInv
  OBVIOUS
<1>1. DataOK
  BY DataHolds
<1>2. /\ bytes = <<>> /\ calls = 0 /\ linesRead = 0 /\ out = <<>> /\ fill = 0
      /\ pc = "scan" /\ answer = <<>>
      /\ stand = IF query.kind = "merge" THEN [part |-> query.part, granule |-> 1]
                 ELSE NotOpen
  BY DEF Init
<1>3. /\ query.kind = "merge" => query.part \in Members(infos)
      /\ query.inner \in Seq(Row) /\ infos \in Seq(Nat \ {0})
      /\ \A p \in Members(infos) : rowsOf[p] \in Seq(Row) /\ Len(rowsOf[p]) > 0
  BY <1>1 DEF DataOK, WellAsked
<1>g. Granularity \in Nat \ {0}
  BY GranularityAssumption
<1>4. StandType
  <2>1. query.kind = "merge" => query.part \in Nat
    BY <1>3, MembersType
  <2>2. QED
    BY <1>2, <2>1 DEF StandType, NotOpen
<1>e. Kept(<<>>) = <<>> /\ Len(<<>>) = 0 /\ <<>> \in Seq(Row)
  BY FilteredEmpty, EmptySeq DEF Kept
<1>5. TypeOK
  <2>1. Members(<<>>) = {}
    BY DEF Members
  <2>2. stand.granule \in Nat /\ stand.part \in Nat
    BY <1>4 DEF StandType
  <2>3. 0 \in 0..Granularity
    BY <1>g
  <2>4. QED
    BY <1>2, <2>1, <2>2, <2>3 DEF TypeOK
<1>6. TableRead
  <2> SUFFICES ASSUME Scanning({"rows", "count"})
               PROVE  /\ stand = NotOpen \/ StandsIn(infos, rowsOf, stand)
                      /\ out = Kept(ReadTo(infos, rowsOf, stand))
                      /\ linesRead <= Len(out)
    BY DEF TableRead
  <2>1. stand = NotOpen
    BY <1>2 DEF Scanning
  <2>2. ReadTo(infos, rowsOf, stand) = <<>>
    BY <2>1 DEF ReadTo
  <2>3. QED
    BY <1>2, <1>e, <2>1, <2>2
<1>7. NestedRead
  <2> SUFFICES ASSUME Scanning({"nested"})
               PROVE  /\ stand.part = 0 /\ stand.granule \in 0..MarkCount(query.inner)
                      /\ stand.granule * Granularity <= Len(query.inner)
                      /\ linesRead = IF stand.granule = 0 THEN 0
                                     ELSE Len(Kept(Granule(query.inner, stand.granule)))
                      /\ out = Kept(Piece(query.inner, 1, stand.granule * Granularity))
                      /\ NoneEnds(stand.granule)
    BY DEF NestedRead
  <2>1. stand.part = 0 /\ stand.granule = 0
    BY <1>2 DEF Scanning, NotOpen
  <2>2. MarkCount(query.inner) \in Nat /\ Len(query.inner) \in Nat
    BY <1>3, NoMarks
  <2>3. 0 * Granularity = 0
    BY <1>g
  <2>4. Piece(query.inner, 1, 0) = <<>>
    BY <1>3, <2>2, PieceType
  <2>5. NoneEnds(0)
    BY DEF NoneEnds
  <2>6. QED
    BY <1>2, <1>e, <2>1, <2>2, <2>3, <2>4, <2>5
<1>8. LoadSoFar
  <2> SUFFICES ASSUME Scanning({"merge"})
               PROVE  LET R == rowsOf[query.part]
                          M == MarkCount(R)
                      IN  /\ M \in Nat /\ M # 0
                          /\ stand = [part |-> query.part, granule |-> 0 + 1]
                          /\ out = Piece(R, Granularity + 1, Least((0 + 1) * Granularity, Len(R)))
    BY <1>2 DEF LoadSoFar
  <2> DEFINE R == rowsOf[query.part]
             m == Granularity + 1
             n == Least((0 + 1) * Granularity, Len(R))
  <2>1. query.kind = "merge"
    BY DEF Scanning
  <2>2. R \in Seq(Row) /\ Len(R) > 0
    BY <1>3, <2>1
  <2>3. MarkCount(R) \in Nat \ {0}
    BY <2>2, MarkCountType
  <2>4. m \in Int /\ n \in Int /\ m >= 1 /\ n <= Len(R) /\ m > n
    BY <1>g, <2>2 DEF Least
  <2>5. stand = [part |-> query.part, granule |-> 0 + 1]
    BY <1>2, <2>1
  <2> HIDE DEF m, n, R
  <2>6. Piece(R, m, n) = <<>>
    BY <2>2, <2>4, PieceType
  <2>7. QED
    BY <1>2, <2>3, <2>5, <2>6 DEF m, n, R
<1>9. LiteralFilled
  BY <1>2, <1>e DEF LiteralFilled
<1>r. RowsType
  BY <1>2, <1>e DEF RowsType
<1>10. AnswerExact /\ LoadIsMergeRead
  BY <1>2 DEF AnswerExact, LoadIsMergeRead
<1>11. QED
  BY <1>1, <1>4, <1>5, <1>6, <1>7, <1>8, <1>9, <1>r, <1>10 DEF ScanInv

-----------------------------------------------------------------------------
(* The steps *)

(* What is asked stays as it is.                                           *)
LEMMA AskedStays ==
    ASSUME UNCHANGED parts
    PROVE  /\ DataOK => DataOK'
           /\ Source' = Source /\ LinesToRead' = LinesToRead
           /\ (StrategyFits' <=> StrategyFits) /\ (WholeGranules' <=> WholeGranules)
           /\ (Answering' <=> Answering)
           /\ infos' = infos /\ rowsOf' = rowsOf /\ query' = query
<1>1. infos' = infos /\ rowsOf' = rowsOf /\ query' = query
  BY DEF parts
<1>2. AllRows' = AllRows
  BY <1>1 DEF AllRows
<1>3. Source' = Source
  BY <1>1, <1>2 DEF Source
<1>4. LinesToRead' = LinesToRead
  BY <1>1, <1>3 DEF LinesToRead
<1>5. StrategyFits' <=> StrategyFits
  BY <1>4 DEF StrategyFits
<1>6. DataOK => DataOK'
  BY <1>1, <1>2 DEF DataOK
<1>7. QED
  BY <1>1, <1>3, <1>4, <1>5, <1>6 DEF WholeGranules, Answering

LEMMA StrategyPanicsKeeps ==
    ASSUME ScanInv, StrategyPanics
    PROVE  ScanInv'
<1> USE DEF ScanInv
<1>1. /\ pc = "scan" /\ Answering /\ ~StrategyFits /\ pc' = "panic"
      /\ UNCHANGED <<parts, stand, bytes, calls, linesRead, out, fill, answer>>
  BY DEF StrategyPanics
<1>2. /\ DataOK' /\ Source' = Source /\ (StrategyFits' <=> StrategyFits)
      /\ infos' = infos /\ rowsOf' = rowsOf /\ query' = query
  BY <1>1, AskedStays
<1>3. StandType' /\ RowsType' /\ TypeOK'
  BY <1>1, <1>2 DEF StandType, RowsType, TypeOK
<1>4. TableRead' /\ NestedRead' /\ LoadSoFar'
  BY <1>1 DEF TableRead, NestedRead, LoadSoFar, Scanning
<1>5. LiteralFilled'
  BY <1>1, <1>2 DEF LiteralFilled
<1>6. AnswerExact' /\ LoadIsMergeRead'
  BY <1>1, <1>2 DEF AnswerExact, LoadIsMergeRead, Answering
<1>7. QED
  BY <1>2, <1>3, <1>4, <1>5, <1>6

(* Over whole granules every chunk of a table is full.                     *)
LEMMA ChunksAreFull ==
    ASSUME DataOK, WholeGranules, NEW s, StandsIn(infos, rowsOf, s)
    PROVE  Len(Granule(rowsOf[s.part], s.granule)) = Granularity
<1> DEFINE R == rowsOf[s.part]
<1>1. /\ R \in Seq(Row) /\ Len(R) > 0 /\ Len(R) % Granularity = 0
      /\ s.granule \in 1..MarkCount(R)
  BY DEF DataOK, WholeGranules, StandsIn
<1> HIDE DEF R
<1>2. s.granule * Granularity <= Len(R)
  BY <1>1, WholeGranule
<1>3. Len(Granule(R, s.granule)) = Granularity
  BY <1>1, <1>2, GranulePiece
<1>4. QED
  BY <1>3 DEF R

LEMMA ReadPanicsKeeps ==
    ASSUME ScanInv, ReadPanics
    PROVE  ScanInv'
<1> USE DEF ScanInv
<1>1. /\ pc = "scan" /\ Answering /\ pc' = "panic"
      /\ UNCHANGED <<parts, bytes, calls, linesRead, out, fill, answer>>
  BY DEF ReadPanics
<1>2. PICK s \in NextChunk : (~SliceEndsInside(s) \/ MaskTooShort(s)) /\ stand' = s
  BY DEF ReadPanics
<1>3. /\ DataOK' /\ Source' = Source /\ (StrategyFits' <=> StrategyFits)
      /\ (WholeGranules' <=> WholeGranules)
      /\ infos' = infos /\ rowsOf' = rowsOf /\ query' = query
  BY <1>1, AskedStays
<1>4. s \in [part : Nat, granule : Nat]
  BY <1>1, ChunkType
<1>5. StandType' /\ RowsType' /\ TypeOK'
  <2>1. s.part \in Nat /\ s.granule \in Nat
    BY <1>4
  <2>2. QED
    BY <1>1, <1>2, <1>3, <1>4, <2>1 DEF StandType, RowsType, TypeOK
<1>6. TableRead' /\ NestedRead' /\ LoadSoFar'
  BY <1>1 DEF TableRead, NestedRead, LoadSoFar, Scanning
<1>7. ~(WholeGranules /\ query.literal)
  <2>1. ASSUME WholeGranules, query.literal PROVE FALSE
    <3>1. query.kind = "rows"
      BY <2>1 DEF DataOK, WellAsked
    <3>2. MaskTooShort(s) /\ s \in NextNative
      BY <1>2, <3>1 DEF SliceEndsInside, NextChunk
    <3>3. stand = NotOpen \/ StandsIn(infos, rowsOf, stand)
      BY <1>1, <3>1 DEF TableRead, Scanning
    <3>4. StandsIn(infos, rowsOf, s)
      BY <3>2, <3>3, NativeStep
    <3>5. Len(Granule(rowsOf[s.part], s.granule)) = Granularity
      BY <2>1, <3>4, ChunksAreFull
    <3>6. Len(ChunkAt(s)) = Granularity
      BY <3>1, <3>5 DEF ChunkAt
    <3>7. QED
      BY <3>2, <3>6, GranularityAssumption DEF MaskTooShort
  <2>2. QED
    BY <2>1
<1>8. LiteralFilled'
  BY <1>3, <1>7 DEF LiteralFilled
<1>9. AnswerExact' /\ LoadIsMergeRead'
  BY <1>1, <1>3 DEF AnswerExact, LoadIsMergeRead, Answering
<1>10. QED
  BY <1>3, <1>5, <1>6, <1>8, <1>9

LEMMA FinishKeeps ==
    ASSUME ScanInv, Finish
    PROVE  ScanInv'
<1> USE DEF ScanInv
<1>1. /\ pc = "scan" /\ Answering /\ (~ShouldReadNextChunk \/ NextChunk = {})
      /\ answer' = AnswerOf(out) /\ pc' = "done"
      /\ UNCHANGED <<parts, stand, bytes, calls, linesRead, out, fill>>
  BY DEF Finish
<1>2. /\ DataOK' /\ Source' = Source /\ (StrategyFits' <=> StrategyFits)
      /\ (WholeGranules' <=> WholeGranules)
      /\ infos' = infos /\ rowsOf' = rowsOf /\ query' = query
  BY <1>1, AskedStays
<1>3. StandType' /\ RowsType' /\ TypeOK'
  BY <1>1, <1>2 DEF StandType, RowsType, TypeOK
<1>4. TableRead' /\ NestedRead' /\ LoadSoFar'
  BY <1>1 DEF TableRead, NestedRead, LoadSoFar, Scanning
<1>5. LiteralFilled'
  BY <1>1, <1>2 DEF LiteralFilled
<1>6. AnswerExact'
  <2> SUFFICES ASSUME (query.kind = "count" => query.limit = NoLimit)'
               PROVE  answer' = AnswerOf(Kept(Source))'
    BY DEF AnswerExact
  <2>1. AnswerOf(out) = AnswerOf(Kept(Source))
    BY <1>1, <1>2, FinishIsExact
  <2>2. AnswerOf(Kept(Source))' = AnswerOf(Kept(Source))
    BY <1>2 DEF AnswerOf, Kept, Truncate, Shape
  <2>3. QED
    BY <1>1, <2>1, <2>2
<1>7. LoadIsMergeRead'
  BY <1>1, <1>2 DEF LoadIsMergeRead, Answering
<1>8. QED
  BY <1>2, <1>3, <1>4, <1>5, <1>6, <1>7

LEMMA ReadChunkKeeps ==
    ASSUME ScanInv, ReadChunk
    PROVE  ScanInv'
<1> USE DEF ScanInv
<1>1. /\ pc = "scan" /\ Answering /\ StrategyFits /\ ShouldReadNextChunk
      /\ UNCHANGED <<parts, calls, pc, answer>>
  BY DEF ReadChunk
<1>2. PICK s \in NextChunk :
         /\ SliceEndsInside(s) /\ ~MaskTooShort(s)
         /\ stand' = s /\ bytes' = ChunkAt(s)
         /\ out' = Cap(out \o Kept(ChunkAt(s)))
         /\ linesRead' = Len(Kept(ChunkAt(s)))
         /\ fill' = fill + LiteralValues(ChunkAt(s))
  BY DEF ReadChunk, Load
<1> DEFINE chunk == ChunkAt(s)
           k == Kept(chunk)
<1>3. /\ DataOK' /\ Source' = Source /\ (StrategyFits' <=> StrategyFits)
      /\ LinesToRead' = LinesToRead /\ (WholeGranules' <=> WholeGranules)
      /\ infos' = infos /\ rowsOf' = rowsOf /\ query' = query
  BY <1>1, AskedStays
<1>4. /\ s \in [part : Nat, granule : Nat]
      /\ chunk \in Seq(Row) /\ Len(chunk) <= Granularity
      /\ Members(chunk) \subseteq Members(Source)
  BY <1>1, ChunkType
<1>5. StandType'
  BY <1>2, <1>4 DEF StandType
<1>6. k \in Seq(Row) /\ Len(k) <= Len(chunk) /\ Members(k) \subseteq Members(chunk)
      /\ (Members(chunk) \subseteq query.keep => k = chunk)
  <2> HIDE DEF chunk
  <2>1. chunk \in Seq(Members(chunk))
    BY <1>4 DEF Members
  <2>2. k \in Seq(Members(chunk)) /\ k \in Seq(Row)
    BY <1>4, <2>1, FilteredType DEF Kept
  <2>3. Len(k) <= Len(chunk) /\ (Members(chunk) \subseteq query.keep => k = chunk)
    BY <1>4, FilteredBounds DEF Kept
  <2> HIDE DEF k
  <2>4. Members(k) \subseteq Members(chunk)
    BY <2>2, MembersType
  <2>5. QED
    BY <2>2, <2>3, <2>4
<1>7. /\ query.kind \in {"rows", "count", "nested"} /\ query.literal \in BOOLEAN
      /\ query.filtered \in BOOLEAN /\ query.inner \in Seq(Row)
      /\ query.literal => /\ query.kind = "rows"
                          /\ query.filtered \/ Members(AllRows) \subseteq query.keep
  BY <1>1 DEF DataOK, WellAsked, Answering, AllRows
<1>8. out \in Seq(Row) /\ Members(out) \subseteq Members(Source)
      /\ Granularity \in Nat \ {0}
  BY GranularityAssumption DEF RowsType, TypeOK
<1> HIDE DEF chunk
<1> HIDE DEF k
<1>9. RowsType' /\ Members(out') \subseteq Members(Source)
  <2> DEFINE c == Cat(out, k)
  <2>1. c \in Seq(Row) /\ Members(c) = Members(out) \cup Members(k)
    BY <1>6, <1>8, CatType, MembersCat
  <2>2. out' = Cap(c)
    BY <1>2 DEF Cat, k, chunk
  <2> HIDE DEF c
  <2>3. Cap(c) \in Seq(Row) /\ Members(Cap(c)) \subseteq Members(c)
    BY <2>1, CapMembers
  <2>4. bytes' = chunk
    BY <1>2 DEF chunk
  <2>5. Members(out') \subseteq Members(Source)
    BY <1>4, <1>6, <1>8, <2>1, <2>2, <2>3
  <2>6. QED
    BY <1>4, <2>2, <2>3, <2>4, <2>5 DEF RowsType
<1>10. linesRead' = Len(k) /\ Len(k) \in Nat /\ Len(k) <= Granularity
  <2>1. Len(k) \in Nat /\ Len(chunk) \in Nat
    BY <1>4, <1>6
  <2>2. linesRead' = Len(k)
    BY <1>2 DEF k, chunk
  <2>3. QED
    BY <1>4, <1>6, <1>8, <2>1, <2>2
<1>11. LiteralValues(chunk) \in Nat
  BY <1>8, <1>10 DEF LiteralValues, k
<1>12. TypeOK'
  <2>1. stand'.granule \in Nat /\ stand'.part \in Nat
    BY <1>2, <1>4
  <2>2. linesRead' \in 0..Granularity
    BY <1>8, <1>10
  <2>3. fill' \in Nat
    BY <1>2, <1>11 DEF TypeOK, chunk
  <2>4. bytes' = chunk
    BY <1>2 DEF chunk
  <2>5. QED
    BY <1>1, <1>3, <1>4, <1>9, <2>1, <2>2, <2>3, <2>4 DEF TypeOK
<1>13. TableRead'
  <2> SUFFICES ASSUME query.kind \in {"rows", "count"}
               PROVE  /\ StandsIn(infos, rowsOf, s)
                      /\ out' = Kept(ReadTo(infos, rowsOf, s))
                      /\ linesRead' <= Len(out')
    BY <1>2, <1>3 DEF TableRead, Scanning, Kept
  <2>1. Scanning({"rows", "count"}) /\ s \in NextNative
    BY <1>1, <1>2 DEF Scanning, NextChunk
  <2>2. stand = NotOpen \/ StandsIn(infos, rowsOf, stand)
    BY <2>1 DEF TableRead
  <2>3. StandsIn(infos, rowsOf, s)
    BY <2>1, <2>2, NativeStep
  <2>4. chunk = Granule(rowsOf[s.part], s.granule)
    BY DEF chunk, ChunkAt
  <2>5. /\ Cap(out \o k) = Cat(out, k)
        /\ Cat(out, k) = Kept(ReadTo(infos, rowsOf, s))
        /\ Len(Cat(out, k)) = Len(out) + Len(k)
    BY <2>1, <2>4, TableChunk DEF k
  <2>6. out' = Cat(out, k)
    BY <1>2, <2>5 DEF k, chunk
  <2>7. Len(out) \in Nat
    BY <1>8
  <2>8. linesRead' <= Len(out')
    BY <1>10, <2>5, <2>6, <2>7
  <2>9. QED
    BY <2>3, <2>5, <2>6, <2>8
<1>14. LiteralFilled'
  <2> SUFFICES ASSUME WholeGranules, StrategyFits, query.literal
               PROVE  pc' # "panic" /\ fill' = Len(out')
    BY <1>3 DEF LiteralFilled
  <2>0. fill = Len(out)
    BY DEF LiteralFilled
  <2>1. query.kind = "rows" /\ (query.filtered \/ Members(AllRows) \subseteq query.keep)
    BY <1>7
  <2>2. Scanning({"rows", "count"}) /\ s \in NextNative
    BY <1>1, <1>2, <2>1 DEF Scanning, NextChunk
  <2>3. stand = NotOpen \/ StandsIn(infos, rowsOf, stand)
    BY <2>2 DEF TableRead
  <2>4. StandsIn(infos, rowsOf, s)
    BY <2>2, <2>3, NativeStep
  <2>5. chunk = Granule(rowsOf[s.part], s.granule)
    BY <2>1 DEF chunk, ChunkAt
  <2>6. Len(chunk) = Granularity
    BY <2>4, <2>5, ChunksAreFull
  <2>7. LiteralValues(chunk) = Len(k)
    <3>1. CASE query.filtered
      BY <3>1 DEF LiteralValues, k
    <3>2. CASE ~query.filtered
      <4>1. Source = AllRows
        BY <2>1 DEF Source
      <4>2. k = chunk
        BY <1>4, <1>6, <2>1, <3>2, <4>1
      <4>3. QED
        BY <2>6, <3>2, <4>2 DEF LiteralValues
    <3>3. QED
      BY <3>1, <3>2
  <2>8. /\ Cap(out \o k) = Cat(out, k)
        /\ Len(Cat(out, k)) = Len(out) + Len(k)
    BY <2>2, <2>5, TableChunk DEF k
  <2>9. out' = Cat(out, k)
    BY <1>2, <2>8 DEF k, chunk
  <2>10. fill' = Len(out) + Len(k)
    BY <1>2, <2>0, <2>7 DEF chunk
  <2>11. QED
    BY <1>1, <2>8, <2>9, <2>10
<1>15. LoadSoFar' /\ AnswerExact' /\ LoadIsMergeRead'
  BY <1>1, <1>3 DEF LoadSoFar, AnswerExact, LoadIsMergeRead, Scanning, Answering
<1>16. NestedRead'
  <2> SUFFICES ASSUME query.kind = "nested"
               PROVE  NestedRead'
    BY <1>3 DEF NestedRead, Scanning
  <2> DEFINE R == query.inner
             G == Granularity
             M == MarkCount(R)
             g == stand.granule
             h == s.granule
  <2>1. Scanning({"nested"}) /\ s \in NextVirtual
    BY <1>1, <1>2 DEF Scanning, NextChunk
  <2>2. /\ s.part = 0 /\ Len(R) > 0 /\ h \in 1..M
        /\ h = g + 1 \/ (h = 1 /\ g = M)
    BY <2>1, NestedStep
  <2>3. /\ g \in 0..M /\ g * G <= Len(R)
        /\ linesRead = IF g = 0 THEN 0 ELSE Len(Kept(Granule(R, g)))
        /\ \/ out = Kept(Piece(R, 1, g * G)) /\ NoneEnds(g)
           \/ g # 0 /\ NoneEnds(M + 1)
    BY <2>1 DEF NestedRead
  <2>4. chunk = Granule(R, h) /\ h * G <= Len(R)
    BY <1>2 DEF chunk, ChunkAt, SliceEndsInside
  <2>5. linesRead' = Len(Kept(Granule(R, h))) /\ h # 0
    BY <1>10, <2>2, <2>4 DEF k
  <2>6. M \in Nat /\ g \in Nat /\ h \in Nat /\ Len(R) \in Nat
    BY <1>7, <2>2, <2>3, NoMarks
  <2>7. NoneEnds(g) => NoneEnds(g + 1)
    <3> SUFFICES ASSUME NoneEnds(g), NEW i \in 1..((g + 1) - 1)
                 PROVE  Len(Kept(Granule(R, i))) < LinesToRead
      BY DEF NoneEnds
    <3>1. CASE i = g
      <4>1. linesRead < LinesToRead
        <5>1. LinesToRead > linesRead
          BY <1>1 DEF ShouldReadNextChunk
        <5>2. QED
          BY <5>1
      <4>2. g # 0
        BY <2>6, <3>1
      <4>3. QED
        BY <2>3, <3>1, <4>1, <4>2
    <3>2. CASE i # g
      <4>1. i \in 1..(g - 1)
        BY <2>6, <3>2
      <4>2. QED
        BY <4>1 DEF NoneEnds
    <3>3. QED
      BY <3>1, <3>2
  <2>8. \/ out' = Kept(Piece(R, 1, h * G)) /\ NoneEnds(h)
        \/ NoneEnds(M + 1)
    <3>1. CASE NoneEnds(M + 1)
      BY <3>1
    <3>2. CASE ~NoneEnds(M + 1)
      <4>1. out = Kept(Piece(R, 1, g * G)) /\ NoneEnds(g)
        BY <2>3, <3>2
      <4>2. NoneEnds(g + 1)
        BY <2>7, <4>1
      <4>3. g # M
        BY <3>2, <4>2
      <4>4. h = g + 1 /\ h - 1 = g
        BY <2>2, <2>6, <4>3
      <4> DEFINE first == Piece(R, 1, g * G)
                 all == Piece(R, 1, h * G)
      <4>5. chunk \in Seq(Row) /\ Cat(Piece(R, 1, (h - 1) * G), chunk) = Piece(R, 1, Least(h * G, Len(R)))
        BY <1>7, <2>2, <2>4, GranulePiece
      <4>6. h * G \in Nat /\ g * G \in Nat
        BY <1>8, <2>6
      <4>7. Least(h * G, Len(R)) = h * G
        BY <2>4, <2>6, <4>6 DEF Least
      <4>8. Cat(first, chunk) = all
        BY <4>4, <4>5, <4>7
      <4>9. first \in Seq(Row) /\ all \in Seq(Row) /\ Len(all) <= Len(R)
        <5> DEFINE a == g * G
                   b == h * G
        <5>1. a \in Nat /\ b \in Nat /\ a <= Len(R) /\ b <= Len(R)
          BY <2>3, <2>4, <4>6
        <5> HIDE DEF a, b
        <5>2. Piece(R, 1, a) \in Seq(Row)
          BY <1>7, <5>1, PieceType
        <5>3. Piece(R, 1, b) \in Seq(Row)
          BY <1>7, <5>1, PieceType
        <5>4. Len(Piece(R, 1, b)) = b + 1 - 1
          BY <1>7, <5>1, PieceType
        <5>5. Len(Piece(R, 1, b)) <= Len(R)
          BY <5>1, <5>4
        <5>6. QED
          BY <5>2, <5>3, <5>5 DEF a, b
      <4> HIDE DEF first, all
      <4>10. Kept(all) = Cat(Kept(first), k)
        BY <4>5, <4>8, <4>9, FilteredCat DEF Kept, k
      <4>11. Kept(all) \in Seq(Row) /\ Len(Kept(all)) <= Len(all)
        BY <4>9, FilteredType, FilteredBounds DEF Kept
      <4>12. Len(Kept(all)) <= OutputCap
        <5>1. Len(R) <= OutputCap /\ OutputCap \in Nat
          BY TableScanAssumption DEF DataOK
        <5>2. Len(all) \in Nat /\ Len(Kept(all)) \in Nat
          BY <4>9, <4>11
        <5>3. QED
          BY <2>6, <4>9, <4>11, <5>1, <5>2
      <4>13. Cap(Kept(all)) = Kept(all)
        BY <4>11, <4>12, CapSmall
      <4>14. out' = Kept(all)
        <5>1. out = Kept(first)
          BY <4>1 DEF first
        <5>2. out \o k = Kept(all)
          BY <4>10, <5>1 DEF Cat
        <5>3. out' = Cap(out \o k)
          BY <1>2 DEF k, chunk
        <5>4. QED
          BY <4>13, <5>2, <5>3
      <4>15. QED
        BY <4>2, <4>4, <4>14 DEF all
    <3>3. QED
      BY <3>1, <3>2
  <2>11. QED
    BY <1>2, <1>3, <2>2, <2>4, <2>5, <2>6, <2>8 DEF NestedRead, NoneEnds, Kept
<1>17. QED
  BY <1>3, <1>5, <1>9, <1>12, <1>13, <1>14, <1>15, <1>16

LEMMA MergeCallKeeps ==
    ASSUME ScanInv, MergeCall
    PROVE  ScanInv'
<1> USE DEF ScanInv
<1> DEFINE p == query.part
           R == rowsOf[p]
           M == MarkCount(R)
           G == Granularity
<1>1. /\ pc = "scan" /\ query.kind = "merge" /\ calls < M /\ calls' = calls + 1
      /\ \/ \E s \in NextNative : stand' = s /\ bytes' = ChunkAt(s)
         \/ NextNative = {} /\ stand' = stand /\ bytes' = bytes
      /\ IF bytes' = <<>> THEN pc' = "panic" /\ out' = out
         ELSE pc' = "scan" /\ out' = out \o bytes'
      /\ UNCHANGED <<parts, linesRead, fill, answer>>
  BY DEF MergeCall, Load
<1>2. /\ DataOK' /\ Source' = Source /\ infos' = infos /\ rowsOf' = rowsOf
      /\ query' = query /\ (StrategyFits' <=> StrategyFits)
  BY <1>1, AskedStays
<1>3. /\ infos \in Seq(Nat \ {0}) /\ p \in Members(infos) /\ ~query.literal
      /\ R \in Seq(Row) /\ Len(R) > 0 /\ Len(R) \in Nat /\ p \in Nat /\ p # 0
  <2>1. infos \in Seq(Nat \ {0}) /\ p \in Members(infos) /\ ~query.literal
        /\ R \in Seq(Row) /\ Len(R) > 0
    BY <1>1 DEF DataOK, WellAsked
  <2>2. p \in Nat \ {0}
    BY <2>1, MembersType
  <2>3. QED
    BY <2>1, <2>2
<1>4. M \in Nat \ {0} /\ G \in Nat \ {0}
  BY <1>3, MarkCountType, GranularityAssumption
<1>5. /\ calls \in 0..M /\ stand = [part |-> p, granule |-> calls + 1]
      /\ bytes = IF calls = 0 THEN <<>> ELSE Granule(R, calls + 1)
      /\ out = Piece(R, G + 1, Least((calls + 1) * G, Len(R)))
  BY <1>1 DEF LoadSoFar, Scanning
<1>6. /\ calls \in Nat /\ calls + 1 \in 1..M
      /\ (calls + 1 = M \/ calls + 2 \in 1..M) /\ calls + 1 \in Nat
  <2> HIDE DEF M
  <2>1. QED
    BY <1>1, <1>4, <1>5
<1>7. stand.part = p /\ stand.granule = calls + 1 /\ StandsIn(infos, rowsOf, stand)
      /\ stand # NotOpen
  BY <1>3, <1>5, <1>6 DEF StandsIn, NotOpen
<1>8. /\ bytes' \in Seq(Row) /\ Members(bytes') \subseteq Members(AllRows) /\ StandType'
  <2>1. CASE \E s \in NextNative : stand' = s /\ bytes' = ChunkAt(s)
    <3>1. PICK s \in NextNative : stand' = s /\ bytes' = ChunkAt(s)
      BY <2>1
    <3>2. s \in [part : Nat, granule : Nat] /\ StandsIn(infos, rowsOf, s)
      BY <1>7, NativeStep
    <3>3. bytes' = Granule(rowsOf[s.part], s.granule)
      BY <1>1, <3>1 DEF ChunkAt
    <3>4. bytes' \in Seq(Row) /\ Members(bytes') \subseteq Members(AllRows)
      BY <3>2, <3>3, GranuleOfTable
    <3>5. QED
      BY <3>1, <3>2, <3>4 DEF StandType
  <2>2. CASE stand' = stand /\ bytes' = bytes
    BY <1>1, <2>2 DEF StandType, RowsType, TypeOK, Source
  <2>3. QED
    BY <1>1, <2>1, <2>2
<1>9. out \in Seq(Row) /\ Members(out) \subseteq Members(AllRows)
  BY <1>1 DEF RowsType, TypeOK, Source
<1>10. out' \in Seq(Row) /\ Members(out') \subseteq Members(AllRows)
       /\ pc' \in {"scan", "panic"}
  <2>1. CASE bytes' = <<>>
    BY <1>1, <1>9, <2>1
  <2>2. CASE bytes' # <<>>
    <3>1. out' = Cat(out, bytes') /\ pc' = "scan"
      BY <1>1, <2>2 DEF Cat
    <3>2. Cat(out, bytes') \in Seq(Row)
          /\ Members(Cat(out, bytes')) = Members(out) \cup Members(bytes')
      BY <1>8, <1>9, CatType, MembersCat
    <3>3. QED
      BY <1>8, <1>9, <3>1, <3>2
  <2>3. QED
    BY <2>1, <2>2
<1>11. RowsType' /\ TypeOK'
  <2>1. stand'.granule \in Nat /\ stand'.part \in Nat
    BY <1>8 DEF StandType
  <2>2. Source = AllRows
    BY <1>1 DEF Source
  <2>3. calls' \in Nat
    BY <1>1, <1>6
  <2>4. QED
    BY <1>1, <1>2, <1>8, <1>10, <2>1, <2>2, <2>3 DEF RowsType, TypeOK
<1>12. TableRead' /\ NestedRead' /\ LiteralFilled' /\ AnswerExact'
  <2>1. pc' # "done"
    BY <1>10
  <2>2. QED
    BY <1>1, <1>2, <1>3, <2>1 DEF TableRead, NestedRead, LiteralFilled, AnswerExact, Scanning
<1>13. LoadSoFar' /\ LoadIsMergeRead'
  <2>1. CASE calls + 1 # M
    <3> DEFINE j == calls + 2
               chunk == Granule(R, j)
    <3>1. j \in 1..M /\ j - 1 = calls + 1 /\ j \in Nat /\ j > 1
      BY <1>6, <2>1
    <3>2. NextNative = {[stand EXCEPT !.granule = @ + 1]}
      BY <1>7, <2>1 DEF NextNative
    <3>3. stand' = [part |-> p, granule |-> j] /\ bytes' = ChunkAt(stand')
      <4>1. stand' = [stand EXCEPT !.granule = @ + 1] /\ bytes' = ChunkAt(stand')
        BY <1>1, <3>2
      <4>2. [stand EXCEPT !.granule = @ + 1] = [part |-> p, granule |-> (calls + 1) + 1]
        BY <1>5
      <4>3. (calls + 1) + 1 = j
        BY <1>6
      <4>4. QED
        BY <4>1, <4>2, <4>3
    <3>4. bytes' = chunk
      BY <1>1, <3>3 DEF ChunkAt
    <3>5. /\ chunk \in Seq(Row) /\ Len(chunk) \in 1..G
          /\ chunk = Piece(R, (j - 1) * G + 1, Least(j * G, Len(R)))
      BY <1>3, <3>1, GranulePiece
    <3>6. /\ (j - 1) * G \in Nat /\ j * G \in Nat /\ j * G = (j - 1) * G + G
          /\ (j - 1) * G < Len(R)
      BY <1>3, <3>1, GranuleEnds
    <3>7. G <= (j - 1) * G
      <4>1. 1 * G <= (j - 1) * G
        <5>1. 1 \in Int /\ j - 1 \in Int /\ 1 <= j - 1 /\ G \in Nat
          BY <1>4, <3>1
        <5> HIDE DEF G, j
        <5>2. QED
          BY <5>1, TimesGrows
      <4>2. QED
        BY <1>4, <4>1
    <3>8. chunk # <<>>
      <4> HIDE DEF chunk
      <4>1. Len(chunk) # 0
        BY <1>4, <3>5
      <4>2. QED
        BY <4>1, EmptySeq
    <3>9. pc' = "scan" /\ out' = Cat(out, chunk)
      BY <1>1, <3>4, <3>8 DEF Cat
    <3>10. out = Piece(R, G + 1, (j - 1) * G)
      <4>1. Least((j - 1) * G, Len(R)) = (j - 1) * G
        BY <1>3, <3>6 DEF Least
      <4>2. QED
        BY <1>5, <3>1, <4>1
    <3>11. Cat(out, chunk) = Piece(R, G + 1, Least(j * G, Len(R)))
      <4> DEFINE a == (j - 1) * G
                 e == Least(j * G, Len(R))
                 m == G + 1
      <4>1. a \in Int /\ e \in Int /\ m \in Int /\ m >= 1 /\ m <= a + 1 /\ a <= e
            /\ e <= Len(R)
        BY <1>3, <1>4, <3>6, <3>7 DEF Least
      <4>2. out = Piece(R, m, a) /\ chunk = Piece(R, a + 1, e)
        BY <3>5, <3>10
      <4> HIDE DEF a, e, m, R, chunk
      <4>3. Cat(Piece(R, m, a), Piece(R, a + 1, e)) = Piece(R, m, e)
        BY <1>3, <4>1, PieceCat
      <4>4. QED
        BY <4>2, <4>3 DEF m, e
    <3>12. calls' = j - 1 /\ calls' \in 0..M /\ calls' < M /\ calls' # 0 /\ calls' + 1 = j
      <4>1. calls' = calls + 1
        BY <1>1
      <4> HIDE DEF M
      <4>2. QED
        BY <1>4, <1>6, <3>1, <4>1
    <3>13. LoadSoFar'
      BY <1>2, <3>3, <3>4, <3>9, <3>11, <3>12 DEF LoadSoFar, Scanning
    <3>14. LoadIsMergeRead'
      BY <3>9 DEF LoadIsMergeRead
    <3>15. QED
      BY <3>13, <3>14
  <2>2. CASE calls + 1 = M
    <3>1. NextNative = {[part |-> q, granule |-> 1] : q \in After(infos, p)}
      BY <1>7, <2>2 DEF NextNative
    <3> DEFINE tail == Piece(R, G + 1, Len(R))
    <3>2. out = tail
      <4>1. Len(R) <= M * G /\ M * G \in Nat
        BY <1>3, <1>4, MarkCountType
      <4>2. Least(M * G, Len(R)) = Len(R)
        BY <1>3, <4>1 DEF Least
      <4>3. QED
        BY <1>5, <2>2, <4>2
    <3>3. calls' = M /\ ~(calls' < M)
      <4> HIDE DEF M
      <4>1. QED
        BY <1>1, <1>4, <2>2
    <3>4. pc' = "scan" => out' = Cat(out, bytes')
      BY <1>1 DEF Cat
    <3>5. CASE After(infos, p) = {}
      <4>1. NextNative = {}
        BY <3>1, <3>5
      <4>2. bytes' = bytes
        BY <1>1, <4>1
      <4>3. pc' = "panic" => MergeReadPanics(infos, rowsOf, p)
        <5> SUFFICES ASSUME pc' = "panic" PROVE MarkCount(R) = 1
          BY <3>5 DEF MergeReadPanics
        <5>1. bytes = <<>>
          BY <1>1, <4>2
        <5>2. CASE calls = 0
          BY <2>2, <5>2
        <5>3. CASE calls # 0
          <6>1. Granule(R, M) = <<>>
            BY <1>5, <2>2, <5>1, <5>3
          <6>2. Granule(R, M) # <<>>
            BY <1>3, GranuleType
          <6>3. QED
            BY <6>1, <6>2
        <5>4. QED
          BY <5>2, <5>3
      <4>4. pc' = "scan" => out' = MergeRead(infos, rowsOf, p)
        <5> SUFFICES ASSUME pc' = "scan" PROVE out' = MergeRead(infos, rowsOf, p)
          OBVIOUS
        <5>1. calls # 0
          BY <1>1, <1>5, <4>2
        <5>2. bytes' = Granule(R, M)
          BY <1>5, <2>2, <4>2, <5>1
        <5>3. MergeRead(infos, rowsOf, p) = Cat(tail, Granule(R, M))
          BY <3>5 DEF MergeRead, Cat, Piece
        <5>4. QED
          BY <3>2, <3>4, <5>2, <5>3
      <4>5. QED
        BY <1>2, <1>10, <3>3, <4>3, <4>4, <1>4 DEF LoadSoFar, LoadIsMergeRead, Scanning
    <3>6. CASE After(infos, p) # {}
      <4> DEFINE q == CHOOSE r \in After(infos, p) : TRUE
      <4>1. q \in After(infos, p) /\ \A r \in After(infos, p) : r = q
        BY <1>3, <3>6, AfterType
      <4>2. stand' = [part |-> q, granule |-> 1] /\ bytes' = ChunkAt(stand')
        <5>1. NextNative # {}
          BY <3>1, <3>6
        <5>2. PICK s \in NextNative : stand' = s /\ bytes' = ChunkAt(s)
          BY <1>1, <5>1
        <5>3. PICK r \in After(infos, p) : s = [part |-> r, granule |-> 1]
          BY <3>1, <5>2
        <5>4. r = q
          BY <4>1
        <5>5. QED
          BY <5>2, <5>3, <5>4
      <4>3. bytes' = Granule(rowsOf[q], 1)
        BY <1>1, <4>2 DEF ChunkAt
      <4>4. bytes' # <<>>
        <5>1. q \in Members(infos)
          BY <1>3, <4>1, AfterType
        <5>2. rowsOf[q] \in Seq(Row) /\ Len(rowsOf[q]) > 0
          BY <5>1 DEF DataOK
        <5>3. QED
          BY <4>3, <5>2, GranuleType
      <4>5. pc' = "scan"
        BY <1>1, <4>4
      <4>6. MergeRead(infos, rowsOf, p) = Cat(tail, Granule(rowsOf[q], 1))
        BY <3>6 DEF MergeRead, Cat, Piece
      <4>7. out' = MergeRead(infos, rowsOf, p)
        BY <3>2, <3>4, <4>3, <4>5, <4>6
      <4>8. QED
        BY <1>2, <3>3, <4>5, <4>7, <1>4 DEF LoadSoFar, LoadIsMergeRead, Scanning
    <3>7. QED
      BY <3>5, <3>6
  <2>3. QED
    BY <2>1, <2>2
<1>14. QED
  BY <1>2, <1>8, <1>11, <1>12, <1>13

LEMMA MergeReturnKeeps ==
    ASSUME ScanInv, MergeReturn
    PROVE  ScanInv'
<1> USE DEF ScanInv
<1>1. /\ pc = "scan" /\ query.kind = "merge" /\ calls = MarkCount(rowsOf[query.part])
      /\ pc' = "done" /\ answer' = out
      /\ UNCHANGED <<parts, stand, bytes, calls, linesRead, out, fill>>
  BY DEF MergeReturn
<1>2. /\ DataOK' /\ Source' = Source /\ infos' = infos /\ rowsOf' = rowsOf
      /\ query' = query
  BY <1>1, AskedStays
<1>3. ~query.literal
  BY <1>1 DEF DataOK, WellAsked
<1>4. StandType' /\ RowsType' /\ TypeOK'
  BY <1>1, <1>2 DEF StandType, RowsType, TypeOK
<1>5. TableRead' /\ NestedRead' /\ LoadSoFar' /\ LiteralFilled' /\ AnswerExact'
  BY <1>1, <1>2, <1>3
     DEF TableRead, NestedRead, LoadSoFar, LiteralFilled, AnswerExact, Scanning, Answering
<1>6. out = MergeRead(infos, rowsOf, query.part)
  BY <1>1 DEF LoadSoFar, Scanning
<1>7. LoadIsMergeRead'
  BY <1>1, <1>2, <1>6 DEF LoadIsMergeRead
<1>8. QED
  BY <1>2, <1>4, <1>5, <1>7

LEMMA StutterKeeps ==
    ASSUME ScanInv, UNCHANGED vars
    PROVE  ScanInv'
<1> USE DEF ScanInv
<1>1. UNCHANGED <<parts, stand, bytes, calls, linesRead, out, fill, pc, answer>>
  BY DEF vars
<1>2. /\ DataOK' /\ Source' = Source /\ (StrategyFits' <=> StrategyFits)
      /\ LinesToRead' = LinesToRead /\ (WholeGranules' <=> WholeGranules)
      /\ infos' = infos /\ rowsOf' = rowsOf /\ query' = query
  BY <1>1, AskedStays
<1>3. StandType' /\ RowsType' /\ TypeOK'
  BY <1>1, <1>2 DEF StandType, RowsType, TypeOK
<1>4. TableRead' /\ LoadSoFar' /\ LiteralFilled' /\ LoadIsMergeRead'
  BY <1>1, <1>2 DEF TableRead, LoadSoFar, LiteralFilled, LoadIsMergeRead, Scanning, Kept
<1>5. NestedRead'
  BY <1>1, <1>2 DEF NestedRead, NoneEnds, Scanning, Kept
<1>6. AnswerExact'
  BY <1>1, <1>2 DEF AnswerExact, Answering, AnswerOf, Kept, Truncate, Shape
<1>7. QED
  BY <1>2, <1>3, <1>4, <1>5, <1>6

(* ScanInv is an invariant of the specification.                           *)
THEOREM ScanInvariance == Spec => []ScanInv
<1>1. ASSUME ScanInv, [Next]_vars PROVE ScanInv'
  <2>1. CASE StrategyPanics BY <1>1, <2>1, StrategyPanicsKeeps
  <2>2. CASE ReadChunk BY <1>1, <2>2, ReadChunkKeeps
  <2>3. CASE ReadPanics BY <1>1, <2>3, ReadPanicsKeeps
  <2>4. CASE Finish BY <1>1, <2>4, FinishKeeps
  <2>5. CASE MergeCall BY <1>1, <2>5, MergeCallKeeps
  <2>6. CASE MergeReturn BY <1>1, <2>6, MergeReturnKeeps
  <2>7. CASE UNCHANGED vars BY <1>1, <2>7, StutterKeeps
  <2>8. QED
    BY <1>1, <2>1, <2>2, <2>3, <2>4, <2>5, <2>6, <2>7 DEF Next
<1>2. QED
  BY <1>1, ScanInvInit, PTL DEF Spec

(* The variables keep their types, and only rows of the source are loaded  *)
(* and put out, however many parts there are and however large they are.   *)
THEOREM ScanTypes == Spec => []TypeOK
<1>1. ScanInv => TypeOK
  BY DEF ScanInv
<1>2. QED
  BY <1>1, ScanInvariance, PTL

(* A SELECT that ends returns exactly the rows asked for, for every table, *)
(* filter, LIMIT and OFFSET and every granularity (scan_from_storage).     *)
THEOREM AnswersAreExact == Spec => []AnswerExact
<1>1. ScanInv => AnswerExact
  BY DEF ScanInv
<1>2. QED
  BY <1>1, ScanInvariance, PTL

(* A merge loads MergeRead of each part, or panics exactly when            *)
(* MergeReadPanics says so: the closed form PartStore uses is what the     *)
(* calls of load_part_cols come to.                                        *)
THEOREM LoadsAreMergeRead == Spec => []LoadIsMergeRead
<1>1. ScanInv => LoadIsMergeRead
  BY DEF ScanInv
<1>2. QED
  BY <1>1, ScanInvariance, PTL

(* Over whole granules a projected literal has one value for each row of   *)
(* the answer (access_chunk_column).                                       *)
THEOREM LiteralsAreAligned == Spec => []LiteralAligned
<1>1. ScanInv => LiteralAligned
  BY DEF ScanInv, LiteralFilled, LiteralAligned, ColumnsAligned
<1>2. QED
  BY <1>1, ScanInvariance, PTL

=============================================================================
