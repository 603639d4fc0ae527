----------------------------- MODULE Lists_proofs -----------------------------
(***************************************************************************)
(* What the other proofs need of sequences, of FlattenSeq and of counting, *)
(* for all sequences: nothing here is about the server.                    *)
(***************************************************************************)
EXTENDS Scans, TLAPS, FiniteSetTheorems, SequenceTheorems

Distinct(s) == \A i, j \in DOMAIN s : s[i] = s[j] => i = j

-----------------------------------------------------------------------------
(* Sequences.  The provers unfold a concatenation, an Append or a SubSeq   *)
(* element by element wherever they meet one; the proofs below work with   *)
(* names for them and with what these lemmas say.                          *)

Cat(a, b) == a \o b
Put(a, e) == Append(a, e)
Piece(s, m, n) == SubSeq(s, m, n)

LEMMA CatType ==
    ASSUME NEW S, NEW a \in Seq(S), NEW b \in Seq(S)
    PROVE  /\ Cat(a, b) \in Seq(S)
           /\ Len(Cat(a, b)) = Len(a) + Len(b)
           /\ \A i \in 1..Len(a) : Cat(a, b)[i] = a[i]
           /\ \A i \in 1..Len(b) : Cat(a, b)[Len(a) + i] = b[i]
BY ConcatProperties DEF Cat

LEMMA CatAssociative ==
    ASSUME NEW S, NEW a \in Seq(S), NEW b \in Seq(S), NEW c \in Seq(S)
    PROVE  Cat(Cat(a, b), c) = Cat(a, Cat(b, c))
BY ConcatAssociative DEF Cat

LEMMA CatEmpty ==
    ASSUME NEW S, NEW a \in Seq(S)
    PROVE  Cat(a, <<>>) = a /\ Cat(<<>>, a) = a
BY ConcatEmptySeq DEF Cat

LEMMA CatCancel ==
    ASSUME NEW S, NEW a \in Seq(S), NEW b \in Seq(S), Cat(a, b) = a
    PROVE  b = <<>>
BY CatType, EmptySeq

LEMMA PutType ==
    ASSUME NEW S, NEW a \in Seq(S), NEW e \in S
    PROVE  Put(a, e) \in Seq(S) /\ Len(Put(a, e)) = Len(a) + 1
BY DEF Put

LEMMA PutCat ==
    ASSUME NEW S, NEW a \in Seq(S), NEW b \in Seq(S), NEW e \in S
    PROVE  Cat(a, Put(b, e)) = Put(Cat(a, b), e)
BY DEF Put, Cat

LEMMA PieceType ==
    ASSUME NEW S, NEW s \in Seq(S), NEW m \in Int, NEW n \in Int,
           m >= 1, n <= Len(s)
    PROVE  /\ Piece(s, m, n) \in Seq(S)
           /\ m <= n + 1 => Len(Piece(s, m, n)) = n + 1 - m
           /\ m > n => Piece(s, m, n) = <<>>
BY DEF Piece

LEMMA PieceWhole ==
    ASSUME NEW S, NEW s \in Seq(S)
    PROVE  Piece(s, 1, Len(s)) = s
BY DEF Piece

LEMMA PieceOne ==
    ASSUME NEW S, NEW s \in Seq(S), NEW k \in 1..Len(s)
    PROVE  Piece(s, k, k) = <<s[k]>>
<1>1. Piece(s, k, k) \in Seq(S) /\ Len(Piece(s, k, k)) = 1
  BY DEF Piece
<1>2. Piece(s, k, k)[1] = s[k]
  BY DEF Piece
<1>3. QED
  BY <1>1, <1>2

(* Adjacent pieces make one.                                               *)
LEMMA PieceCat ==
    ASSUME NEW S, NEW s \in Seq(S), NEW m \in Int, NEW k \in Int, NEW n \in Int,
           m >= 1, m <= k + 1, k <= n, n <= Len(s)
    PROVE  Cat(Piece(s, m, k), Piece(s, k + 1, n)) = Piece(s, m, n)
BY DEF Piece, Cat

LEMMA PieceOfCat ==
    ASSUME NEW S, NEW a \in Seq(S), NEW b \in Seq(S),
           NEW m \in Int, NEW n \in Int, m >= 1, n <= Len(a)
    PROVE  Piece(Cat(a, b), m, n) = Piece(a, m, n)
<1>1. Cat(a, b) \in Seq(S) /\ Len(Cat(a, b)) = Len(a) + Len(b)
  BY CatType
<1>2. \A i \in 1..Len(a) : Cat(a, b)[i] = a[i]
  BY CatType
<1> DEFINE c == Cat(a, b)
<1> HIDE DEF c
<1>3. c \in Seq(S) /\ n <= Len(c) /\ \A i \in 1..Len(a) : c[i] = a[i]
  BY <1>1, <1>2 DEF c
<1>4. SubSeq(c, m, n) = SubSeq(a, m, n)
  BY <1>3
<1>5. QED
  BY <1>4 DEF Piece, c

-----------------------------------------------------------------------------
(* Counting *)

(* Induction, stated with a set: the provers cannot instantiate the        *)
(* library's theorem, which has an operator for a parameter.  If a number  *)
(* were missing, taking predecessors would map the missing numbers up to   *)
(* it into themselves one to one, and so onto, and something would come    *)
(* before the last.                                                        *)
LEMMA CountingUp ==
    ASSUME NEW S, 0 \in S, \A n \in Nat : n \in S => n + 1 \in S
    PROVE  \A n \in Nat : n \in S
<1>1. ASSUME NEW n \in Nat, n \notin S PROVE FALSE
  <2> DEFINE T == {m \in 0..n : m \notin S}
             f == [m \in T |-> m - 1]
  <2>1. IsFiniteSet(T)
    <3>1. IsFiniteSet(0..n) /\ T \in SUBSET (0..n)
      BY FS_Interval
    <3>2. QED
      BY <3>1, FS_Subset
  <2>2. ASSUME NEW m \in T PROVE m - 1 \in T
    <3>1. m \in Nat /\ m # 0 /\ m <= n
      BY <2>2
    <3>2. m - 1 \in Nat /\ (m - 1) + 1 = m
      BY <3>1
    <3>3. m - 1 \notin S
      BY <2>2, <3>2
    <3>4. QED
      BY <3>1, <3>2, <3>3
  <2>3. f \in Injection(T, T)
    BY <2>2 DEF Injection, IsInjective
  <2>4. f \in Surjection(T, T)
    BY <2>1, <2>3, FS_Injection
  <2>5. n \in T
    BY <1>1
  <2>6. PICK m \in T : m - 1 = n
    BY <2>4, <2>5 DEF Surjection
  <2>7. QED
    BY <2>6
<1>2. QED
  BY <1>1

(* The same for sequences, which grow by one element at a time.            *)
LEMMA ListsGrow ==
    ASSUME NEW S, NEW T, <<>> \in T,
           \A a \in Seq(S), e \in S : a \in T => Put(a, e) \in T
    PROVE  \A a \in Seq(S) : a \in T
<1> DEFINE Q == Seq(S)
           U == {n \in Nat : \A a \in Q : Len(a) = n => a \in T}
<1>1. 0 \in U
  BY EmptySeq
<1>2. ASSUME NEW n \in Nat, n \in U PROVE n + 1 \in U
  <2>1. ASSUME NEW a \in Q, Len(a) = n + 1 PROVE a \in T
    <3> DEFINE b == Piece(a, 1, n)
               e == a[n + 1]
    <3>1. b \in Seq(S) /\ Len(b) = n
      BY <2>1, PieceType
    <3>2. e \in S
      BY <2>1
    <3>3. a = Put(b, e)
      <4>1. \A i \in 1..n : b[i] = a[i]
        BY <2>1 DEF Piece
      <4> HIDE DEF b, e
      <4>2. Put(b, e) \in Seq(S) /\ Len(Put(b, e)) = n + 1
        BY <3>1, <3>2, PutType
      <4>3. \A i \in 1..n : Put(b, e)[i] = b[i]
        BY <3>1 DEF Put
      <4>4. Put(b, e)[n + 1] = e
        BY <3>1 DEF Put
      <4>5. \A i \in 1..(n + 1) : Put(b, e)[i] = a[i]
        <5> TAKE i \in 1..(n + 1)
        <5>1. i \in 1..n \/ i = n + 1
          OBVIOUS
        <5>2. QED
          BY <4>1, <4>3, <4>4, <5>1 DEF e
      <4>6. QED
        BY <2>1, <4>2, <4>5, SeqEqual
    <3> HIDE DEF b, e
    <3>4. b \in T
      BY <1>2, <3>1
    <3>5. QED
      BY <3>1, <3>2, <3>3, <3>4
  <2>2. QED
    BY <2>1
<1>3. \A n \in Nat : n \in U
  <2> HIDE DEF U
  <2>1. QED
    BY <1>1, <1>2, CountingUp
<1>4. ASSUME NEW a \in Seq(S) PROVE a \in T
  <2>1. Len(a) \in Nat /\ Len(a) \in U
    BY <1>3
  <2>2. QED
    BY <2>1
<1>5. QED
  BY <1>4

(* A function defined by recursion on 0..N exists.                         *)
Recurses(f, V, N, a, F) ==
    /\ f \in [0..N -> V] /\ f[0] = a
    /\ \A i \in 1..N : f[i] = F[<<i, f[i - 1]>>]

LEMMA RecursionExists ==
    ASSUME NEW V, NEW N \in Nat, NEW a \in V, NEW F \in [(1..N) \X V -> V]
    PROVE  \E f : Recurses(f, V, N, a, F)
<1> DEFINE S == {n \in Nat : n <= N =>
                    \E f \in [0..n -> V] :
                        f[0] = a /\ \A i \in 1..n : f[i] = F[<<i, f[i - 1]>>]}
<1>1. 0 \in S
  <2> DEFINE f == [i \in 0..0 |-> a]
  <2>1. f \in [0..0 -> V] /\ f[0] = a /\ 1..0 = {}
    OBVIOUS
  <2>2. QED
    BY <2>1
<1>2. ASSUME NEW n \in Nat, n \in S PROVE n + 1 \in S
  <2> SUFFICES ASSUME n + 1 <= N
               PROVE  \E g \in [0..(n + 1) -> V] :
                         g[0] = a /\ \A i \in 1..(n + 1) : g[i] = F[<<i, g[i - 1]>>]
    OBVIOUS
  <2>1. PICK f \in [0..n -> V] :
           f[0] = a /\ \A i \in 1..n : f[i] = F[<<i, f[i - 1]>>]
    BY <1>2
  <2> DEFINE g == [i \in 0..(n + 1) |-> IF i = n + 1 THEN F[<<n + 1, f[n]>>] ELSE f[i]]
  <2>2. F[<<n + 1, f[n]>>] \in V
    OBVIOUS
  <2>3. g \in [0..(n + 1) -> V] /\ g[0] = a /\ g[n + 1] = F[<<n + 1, f[n]>>]
        /\ \A i \in 0..n : g[i] = f[i]
    BY <2>1, <2>2
  <2> HIDE DEF g
  <2>4. ASSUME NEW i \in 1..(n + 1) PROVE g[i] = F[<<i, g[i - 1]>>]
    <3>1. CASE i = n + 1
      <4>1. i - 1 = n /\ n \in 0..n
        BY <3>1
      <4>2. QED
        BY <2>3, <3>1, <4>1
    <3>2. CASE i # n + 1
      <4>1. i \in 1..n /\ i - 1 \in 0..n /\ i \in 0..n
        BY <3>2
      <4>2. QED
        BY <2>1, <2>3, <4>1
    <3>3. QED
      BY <3>1, <3>2
  <2>5. QED
    BY <2>3, <2>4
<1> HIDE DEF S
<1>3. \A n \in Nat : n \in S => n + 1 \in S
  BY <1>2
<1>4. \A n \in Nat : n \in S
  BY <1>1, <1>3, CountingUp
<1>5. N \in S
  BY <1>4
<1>6. \E f \in [0..N -> V] : f[0] = a /\ \A i \in 1..N : f[i] = F[<<i, f[i - 1]>>]
  BY <1>5 DEF S
<1>7. QED
  BY <1>6 DEF Recurses

-----------------------------------------------------------------------------
(* FlattenSeq *)

(* f[i] is what the first i pieces make.                                   *)
Runs(f, pieces, S) ==
    /\ f \in [0..Len(pieces) -> Seq(S)] /\ f[0] = <<>>
    /\ \A i \in 1..Len(pieces) : f[i] = Cat(f[i - 1], pieces[i])

LEMMA RunsExist ==
    ASSUME NEW S, NEW pieces \in Seq(Seq(S))
    PROVE  \E f : Runs(f, pieces, S)
<1> DEFINE N == Len(pieces)
           Q == Seq(S)
           F == [x \in (1..N) \X Q |-> Cat(x[2], pieces[x[1]])]
<1>0. N \in Nat /\ \A n \in 1..N : pieces[n] \in Q
  OBVIOUS
<1>1. <<>> \in Q /\ \A a, b \in Q : Cat(a, b) \in Q
  BY CatType, EmptySeq
<1> HIDE DEF N, Q
<1>2. F \in [(1..N) \X Q -> Q]
  BY <1>0, <1>1
<1>3. PICK f : Recurses(f, Q, N, <<>>, F)
  <2> HIDE DEF F
  <2>1. QED
    BY <1>0, <1>1, <1>2, RecursionExists
<1>4. f \in [0..N -> Q] /\ f[0] = <<>> /\ \A n \in 1..N : f[n] = F[<<n, f[n - 1]>>]
  BY <1>3 DEF Recurses
<1>5. ASSUME NEW n \in 1..N PROVE f[n] = Cat(f[n - 1], pieces[n])
  <2>1. n - 1 \in 0..N
    BY <1>0
  <2>2. <<n, f[n - 1]>> \in (1..N) \X Q
    BY <1>4, <2>1
  <2>3. QED
    BY <1>4, <2>2
<1>6. Runs(f, pieces, S)
  BY <1>4, <1>5 DEF Runs, N, Q
<1>7. QED
  BY <1>6

LEMMA RunsFlatten ==
    ASSUME NEW S, NEW pieces \in Seq(Seq(S)), NEW f, Runs(f, pieces, S)
    PROVE  FlattenSeq(pieces) = f[Len(pieces)]
<1> DEFINE N == Len(pieces)
           Q == Seq(S)
           D(g) == [i \in 1..N |-> IF i = 1 THEN pieces[i] ELSE Cat(g[i - 1], pieces[i])]
           u == CHOOSE g : g = D(g)
<1>0. N \in Nat /\ \A n \in 1..N : pieces[n] \in Q
  OBVIOUS
<1>1. \A a \in Q : Cat(<<>>, a) = a
  BY CatEmpty
<1>2. f \in [0..N -> Q] /\ f[0] = <<>> /\ \A n \in 1..N : f[n] = Cat(f[n - 1], pieces[n])
  BY DEF Runs
<1>3. N = 0 => FlattenSeq(pieces) = <<>>
  BY EmptySeq DEF FlattenSeq
<1>4. N # 0 => FlattenSeq(pieces) = u[N]
  BY DEF FlattenSeq, Cat
<1> HIDE DEF N, Q
<1>5. CASE N = 0
  BY <1>2, <1>3, <1>5 DEF N
<1>6. CASE N # 0
  <2> DEFINE h == [i \in 1..N |-> f[i]]
  <2>1. h = D(h)
    <3>1. ASSUME NEW i \in 1..N PROVE h[i] = D(h)[i]
      <4>1. CASE i = 1
        <5>1. f[1] = Cat(f[0], pieces[1]) /\ pieces[1] \in Q /\ i \in 1..N
          BY <1>0, <1>2, <4>1
        <5>2. QED
          BY <1>1, <1>2, <4>1, <5>1
      <4>2. CASE i # 1
        <5>1. i - 1 \in 1..N
          BY <1>0, <4>2
        <5>2. h[i - 1] = f[i - 1] /\ f[i] = Cat(f[i - 1], pieces[i])
          BY <1>2, <5>1
        <5>3. QED
          BY <4>2, <5>2
      <4>3. QED
        BY <4>1, <4>2
    <3>2. QED
      BY <3>1
  <2>2. u = D(u)
    <3> HIDE DEF h, D
    <3>1. QED
      BY <2>1
  <2> HIDE DEF u
  <2>3. \A i \in 1..N : u[i] = IF i = 1 THEN pieces[i] ELSE Cat(u[i - 1], pieces[i])
    BY <2>2
  <2> DEFINE T == {n \in Nat : n + 1 <= N => u[n + 1] = f[n + 1]}
  <2>4. 0 \in T
    <3>1. f[1] = Cat(f[0], pieces[1]) /\ pieces[1] \in Q /\ 1 \in 1..N
      BY <1>0, <1>2, <1>6
    <3>2. f[1] = pieces[1] /\ u[1] = pieces[1]
      BY <1>1, <1>2, <2>3, <3>1
    <3>3. QED
      BY <3>2
  <2>5. ASSUME NEW n \in Nat, n \in T PROVE n + 1 \in T
    <3> SUFFICES ASSUME (n + 1) + 1 <= N PROVE u[(n + 1) + 1] = f[(n + 1) + 1]
      OBVIOUS
    <3> DEFINE i == (n + 1) + 1
    <3>1. i \in 1..N /\ i # 1 /\ i - 1 = n + 1 /\ n + 1 <= N
      BY <1>0
    <3>2. u[n + 1] = f[n + 1]
      BY <2>5, <3>1
    <3>3. QED
      BY <1>2, <2>3, <3>1, <3>2
  <2> HIDE DEF T
  <2>6. \A n \in Nat : n \in T
    BY <2>4, <2>5, CountingUp
  <2>7. N - 1 \in Nat /\ (N - 1) + 1 = N
    BY <1>0, <1>6
  <2>8. N - 1 \in T
    BY <2>6, <2>7
  <2>9. u[N] = f[N]
    BY <2>7, <2>8 DEF T
  <2>10. QED
    BY <1>4, <1>6, <2>9 DEF N
<1>7. QED
  BY <1>5, <1>6

LEMMA FlatType ==
    ASSUME NEW S, NEW pieces \in Seq(Seq(S))
    PROVE  FlattenSeq(pieces) \in Seq(S)
<1>1. PICK f : Runs(f, pieces, S)
  BY RunsExist
<1>2. FlattenSeq(pieces) = f[Len(pieces)]
  BY <1>1, RunsFlatten
<1>3. Len(pieces) \in 0..Len(pieces) /\ f \in [0..Len(pieces) -> Seq(S)]
  BY <1>1 DEF Runs
<1> DEFINE Q == Seq(S)
<1> HIDE DEF Q
<1>4. f[Len(pieces)] \in Q
  BY <1>3 DEF Q
<1>5. QED
  BY <1>2, <1>4 DEF Q

LEMMA FlatEmpty == FlattenSeq(<<>>) = <<>>
BY EmptySeq DEF FlattenSeq

(* One piece is what it makes.                                             *)
LEMMA FlatOne ==
    ASSUME NEW S, NEW a \in Seq(S)
    PROVE  FlattenSeq(<<a>>) = a
<1> DEFINE f == [i \in 0..1 |-> IF i = 0 THEN <<>> ELSE a]
           p == <<a>>
<1>1. p \in Seq(Seq(S)) /\ Len(p) = 1 /\ p[1] = a
  OBVIOUS
<1>2. <<>> \in Seq(S) /\ Cat(<<>>, a) = a
  BY EmptySeq, CatEmpty
<1>3. f \in [0..1 -> Seq(S)] /\ f[0] = <<>> /\ f[1] = a
  BY <1>2
<1> HIDE DEF f, p
<1>4. Runs(f, p, S)
  <2>1. ASSUME NEW i \in 1..1 PROVE f[i] = Cat(f[i - 1], p[i])
    <3>1. i = 1 /\ i - 1 = 0
      OBVIOUS
    <3>2. QED
      BY <1>1, <1>2, <1>3, <3>1
  <2>2. QED
    BY <1>1, <1>3, <2>1 DEF Runs
<1>5. FlattenSeq(p) = f[1]
  BY <1>1, <1>4, RunsFlatten
<1>6. QED
  BY <1>3, <1>5 DEF p

(* Flattening goes piece by piece.                                         *)
LEMMA FlatCat ==
    ASSUME NEW S, NEW p \in Seq(Seq(S)), NEW q \in Seq(Seq(S))
    PROVE  FlattenSeq(Cat(p, q)) = Cat(FlattenSeq(p), FlattenSeq(q))
<1> DEFINE m == Len(p)
           n == Len(q)
           pq == Cat(p, q)
           Q == Seq(S)
<1>1. PICK f : Runs(f, p, S)
  BY RunsExist
<1>2. PICK g : Runs(g, q, S)
  BY RunsExist
<1>3. /\ f \in [0..m -> Q] /\ f[0] = <<>>
      /\ \A i \in 1..m : f[i] = Cat(f[i - 1], p[i])
  BY <1>1 DEF Runs
<1>4. /\ g \in [0..n -> Q] /\ g[0] = <<>>
      /\ \A i \in 1..n : g[i] = Cat(g[i - 1], q[i])
  BY <1>2 DEF Runs
<1>5. /\ pq \in Seq(Seq(S)) /\ Len(pq) = m + n /\ m \in Nat /\ n \in Nat
      /\ \A i \in 1..m : pq[i] = p[i]
      /\ \A i \in 1..n : pq[m + i] = q[i]
      /\ \A i \in 1..n : q[i] \in Q
  <2> HIDE DEF Q
  <2>1. p \in Seq(Q) /\ q \in Seq(Q)
    BY DEF Q
  <2>2. /\ pq \in Seq(Q) /\ Len(pq) = m + n
        /\ \A i \in 1..m : pq[i] = p[i]
        /\ \A i \in 1..n : pq[m + i] = q[i]
    <3>1. pq \in Seq(Q)
      BY <2>1, CatType
    <3>2. Len(pq) = m + n
      BY <2>1, CatType
    <3>3. \A i \in 1..m : pq[i] = p[i]
      BY <2>1, CatType
    <3>4. \A i \in 1..n : pq[m + i] = q[i]
      BY <2>1, CatType
    <3>5. QED
      BY <3>1, <3>2, <3>3, <3>4
  <2>3. m \in Nat /\ n \in Nat /\ \A i \in 1..n : q[i] \in Q
    BY <2>1
  <2>4. QED
    BY <2>2, <2>3 DEF Q
<1>6. \A a, b, c \in Q : /\ Cat(a, b) \in Q /\ Cat(a, <<>>) = a
                         /\ Cat(Cat(a, b), c) = Cat(a, Cat(b, c))
  BY CatType, CatEmpty, CatAssociative
<1>7. FlattenSeq(p) = f[m] /\ FlattenSeq(q) = g[n]
  BY <1>1, <1>2, RunsFlatten
<1> DEFINE h == [i \in 0..(m + n) |-> IF i <= m THEN f[i] ELSE Cat(f[m], g[i - m])]
<1> HIDE DEF m, n, pq, Q
<1>8. /\ \A i \in 0..m : h[i] = f[i]
      /\ \A i \in 0..n : h[m + i] = Cat(f[m], g[i])
  <2>1. ASSUME NEW i \in 0..m PROVE h[i] = f[i]
    BY <1>5
  <2>2. ASSUME NEW i \in 0..n PROVE h[m + i] = Cat(f[m], g[i])
    <3>1. m + i \in 0..(m + n) /\ (m + i) - m = i /\ (m + i <= m => i = 0)
      BY <1>5
    <3>2. f[m] \in Q
      BY <1>3, <1>5
    <3>3. CASE i = 0
      BY <1>4, <1>5, <1>6, <3>1, <3>2, <3>3
    <3>4. CASE i # 0
      BY <1>5, <3>1, <3>4
    <3>5. QED
      BY <3>3, <3>4
  <2>3. QED
    BY <2>1, <2>2
<1>9. h \in [0..(m + n) -> Q]
  <2>1. ASSUME NEW i \in 0..(m + n) PROVE (IF i <= m THEN f[i] ELSE Cat(f[m], g[i - m])) \in Q
    <3>1. CASE i <= m
      BY <1>3, <1>5, <3>1
    <3>2. CASE ~(i <= m)
      <4>1. i - m \in 0..n /\ m \in 0..m
        BY <1>5, <3>2
      <4>2. f[m] \in Q /\ g[i - m] \in Q
        BY <1>3, <1>4, <4>1
      <4>3. QED
        BY <1>6, <3>2, <4>2
    <3>3. QED
      BY <3>1, <3>2
  <2>2. QED
    BY <2>1
<1> HIDE DEF h
<1>10. ASSUME NEW i \in 1..(m + n) PROVE h[i] = Cat(h[i - 1], pq[i])
  <2>1. CASE i <= m
    <3>1. i \in 1..m /\ i \in 0..m /\ i - 1 \in 0..m
      BY <1>5, <2>1
    <3>2. QED
      BY <1>3, <1>5, <1>8, <3>1
  <2>2. CASE ~(i <= m)
    <3> DEFINE j == i - m
    <3>1. j \in 1..n /\ j \in 0..n /\ j - 1 \in 0..n /\ m + j = i /\ m + (j - 1) = i - 1 /\ m \in 0..m
      BY <1>5, <2>2
    <3> DEFINE a == f[m]
               b == g[j - 1]
               c == q[j]
    <3>2. a \in Q /\ b \in Q /\ c \in Q
      BY <1>3, <1>4, <1>5, <3>1
    <3>3. h[i] = Cat(a, g[j]) /\ h[i - 1] = Cat(a, b) /\ g[j] = Cat(b, c) /\ pq[i] = c
      BY <1>4, <1>5, <1>8, <3>1
    <3> HIDE DEF a, b, c, j
    <3>4. Cat(Cat(a, b), c) = Cat(a, Cat(b, c))
      BY <1>6, <3>2
    <3>5. QED
      BY <3>3, <3>4
  <2>3. QED
    BY <2>1, <2>2
<1>11. h[0] = <<>> /\ h[m + n] = Cat(f[m], g[n])
  <2>1. 0 \in 0..m /\ n \in 0..n
    BY <1>5
  <2>2. QED
    BY <1>3, <1>8, <2>1
<1>12. Runs(h, pq, S)
  BY <1>5, <1>9, <1>10, <1>11 DEF Runs, Q
<1>13. FlattenSeq(pq) = h[m + n]
  BY <1>5, <1>12, RunsFlatten
<1>14. QED
  BY <1>7, <1>11, <1>13 DEF pq

(* What the members of s make, each by E.                                  *)
Spells(E, S, T) == E \in [S -> Seq(T)]

Spread(s, E) == FlattenSeq([i \in 1..Len(s) |-> E[s[i]]])

LEMMA SpreadPieces ==
    ASSUME NEW S, NEW T, NEW E, Spells(E, S, T), NEW s \in Seq(S)
    PROVE  \E p \in Seq(Seq(T)) :
              /\ Len(p) = Len(s) /\ \A i \in 1..Len(s) : p[i] = E[s[i]]
              /\ Spread(s, E) = FlattenSeq(p)
<1> DEFINE Q == Seq(T)
           p == [i \in 1..Len(s) |-> E[s[i]]]
<1>1. Len(s) \in Nat /\ \A i \in 1..Len(s) : s[i] \in S
  OBVIOUS
<1>2. Spread(s, E) = FlattenSeq(p)
  BY DEF Spread
<1>3. E \in [S -> Q]
  BY DEF Spells
<1> HIDE DEF Q
<1>4. \A i \in 1..Len(s) : E[s[i]] \in Q
  BY <1>1, <1>3
<1>5. p \in Seq(Q) /\ Len(p) = Len(s) /\ \A i \in 1..Len(s) : p[i] = E[s[i]]
  BY <1>1, <1>4
<1> HIDE DEF p
<1>6. QED
  BY <1>2, <1>5 DEF Q

LEMMA SpreadType ==
    ASSUME NEW S, NEW T, NEW E, Spells(E, S, T), NEW s \in Seq(S)
    PROVE  Spread(s, E) \in Seq(T)
<1>2. PICK p \in Seq(Seq(T)) : Spread(s, E) = FlattenSeq(p)
  BY SpreadPieces
<1>3. QED
  BY <1>2, FlatType

LEMMA SpreadEmpty ==
    ASSUME NEW S, NEW T, NEW E, Spells(E, S, T)
    PROVE  Spread(<<>>, E) = <<>>
<1>2. <<>> \in Seq(S) /\ Len(<<>>) = 0
  BY EmptySeq
<1> DEFINE s == <<>>
<1> HIDE DEF s
<1>3. PICK p \in Seq(Seq(T)) : Len(p) = 0 /\ Spread(s, E) = FlattenSeq(p)
  <2>1. s \in Seq(S) /\ Len(s) = 0
    BY <1>2 DEF s
  <2>2. s \in Seq(S)
    BY <2>1
  <2>3. PICK p \in Seq(Seq(T)) : Len(p) = Len(s) /\ Spread(s, E) = FlattenSeq(p)
    BY <2>2, SpreadPieces
  <2>4. QED
    BY <2>1, <2>3
<1>4. p = <<>>
  BY <1>3, EmptySeq
<1>5. QED
  BY <1>3, <1>4, FlatEmpty DEF s

LEMMA SpreadOne ==
    ASSUME NEW S, NEW T, NEW E, Spells(E, S, T), NEW x \in S
    PROVE  Spread(<<x>>, E) = E[x]
<1> DEFINE s == <<x>>
<1>1. s \in Seq(S) /\ Len(s) = 1 /\ s[1] = x /\ E[x] \in Seq(T)
  BY DEF Spells
<1> HIDE DEF s
<1>3. PICK p \in Seq(Seq(T)) :
         /\ Len(p) = Len(s) /\ \A i \in 1..Len(s) : p[i] = E[s[i]]
         /\ Spread(s, E) = FlattenSeq(p)
  BY <1>1, SpreadPieces
<1>4. p = <<E[x]>>
  BY <1>1, <1>3
<1>5. FlattenSeq(<<E[x]>>) = E[x]
  BY <1>1, FlatOne
<1>6. QED
  BY <1>3, <1>4, <1>5 DEF s

LEMMA SpreadCat ==
    ASSUME NEW S, NEW T, NEW E, Spells(E, S, T), NEW a \in Seq(S), NEW b \in Seq(S)
    PROVE  Spread(Cat(a, b), E) = Cat(Spread(a, E), Spread(b, E))
<1> DEFINE Q == Seq(T)
           ab == Cat(a, b)
<1>1. ab \in Seq(S) /\ Len(ab) = Len(a) + Len(b)
  BY CatType
<1>2. \A i \in 1..Len(a) : ab[i] = a[i]
  BY CatType
<1>3. \A i \in 1..Len(b) : ab[Len(a) + i] = b[i]
  BY CatType
<1>4. Len(a) \in Nat /\ Len(b) \in Nat
  OBVIOUS
<1> HIDE DEF ab
<1>8. PICK p \in Seq(Q) :
         /\ Len(p) = Len(a) /\ \A i \in 1..Len(a) : p[i] = E[a[i]]
         /\ Spread(a, E) = FlattenSeq(p)
  BY <1>1, SpreadPieces
<1>9. PICK q \in Seq(Q) :
         /\ Len(q) = Len(b) /\ \A i \in 1..Len(b) : q[i] = E[b[i]]
         /\ Spread(b, E) = FlattenSeq(q)
  BY <1>1, SpreadPieces
<1>10. PICK c \in Seq(Q) :
         /\ Len(c) = Len(ab) /\ \A i \in 1..Len(ab) : c[i] = E[ab[i]]
         /\ Spread(ab, E) = FlattenSeq(c)
  <2>1. ab \in Seq(S)
    BY <1>1
  <2>2. QED
    BY <2>1, SpreadPieces
<1>11. FlattenSeq(Cat(p, q)) = Cat(FlattenSeq(p), FlattenSeq(q))
  BY <1>8, <1>9, FlatCat
<1> DEFINE pq == Cat(p, q)
<1> HIDE DEF Q
<1>t. p \in Seq(Q) /\ q \in Seq(Q)
  OBVIOUS
<1>12. pq \in Seq(Q) /\ Len(pq) = Len(p) + Len(q)
  BY <1>t, CatType
<1>13. \A i \in 1..Len(p) : pq[i] = p[i]
  BY <1>t, CatType
<1>14. \A i \in 1..Len(q) : pq[Len(p) + i] = q[i]
  BY <1>t, CatType
<1> HIDE DEF pq
<1>15. ASSUME NEW i \in 1..Len(ab) PROVE c[i] = pq[i]
  <2>1. CASE i <= Len(a)
    <3>1. i \in 1..Len(a)
      BY <1>1, <1>4, <2>1
    <3>2. c[i] = E[a[i]]
      BY <1>2, <1>10, <3>1
    <3>3. QED
      BY <1>8, <1>13, <3>1, <3>2
  <2>2. CASE ~(i <= Len(a))
    <3>1. PICK k \in 1..Len(b) : i = Len(a) + k
      <4>1. /\ i - Len(a) \in 1..Len(b)
            /\ i = Len(a) + (i - Len(a))
        BY <1>1, <1>4, <2>2
      <4>2. QED
        BY <4>1
    <3>2. ab[i] = b[k]
      BY <1>3, <3>1
    <3>3. pq[i] = q[k]
      BY <1>8, <1>9, <1>14, <3>1
    <3>4. c[i] = E[b[k]] /\ q[k] = E[b[k]]
      BY <1>9, <1>10, <3>1, <3>2
    <3>5. QED
      BY <3>3, <3>4
  <2>3. QED
    BY <2>1, <2>2
<1>16. c = pq
  <2>1. Len(c) = Len(pq) /\ Len(c) = Len(ab)
    BY <1>1, <1>8, <1>9, <1>10, <1>12
  <2>2. QED
    BY <1>10, <1>12, <1>15, <2>1, SeqEqual
<1>17. QED
  BY <1>8, <1>9, <1>10, <1>11, <1>16 DEF pq, ab
=============================================================================
