--------------------------- MODULE PartStore_proofs ---------------------------
(***************************************************************************)
(* PartStore keeps its safety properties for every number of clients,      *)
(* INSERTs, failing calls and crashes, and every choice of failing calls.  *)
(***************************************************************************)
EXTENDS PartStoreInvariant, PartStoreRefinement, Granules_proofs

-----------------------------------------------------------------------------
(* Lists of parts *)

(* Forget yields a list with no new member. *)
LEMMA ForgetType ==
    ASSUME NEW S, NEW s \in Seq(S), NEW p
    PROVE  /\ Forget(s, p) \in Seq(S)
           /\ Members(Forget(s, p)) \subseteq Members(s)
<1> DEFINE i == Position(s, p)
<1>1. i \in 0..Len(s)
  BY PositionType
<1>2. CASE i = 0
  BY <1>2 DEF Forget
<1>3. CASE i # 0
  <2>1. Forget(s, p) = SubSeq(s, 1, i - 1) \o SubSeq(s, i + 1, Len(s))
    BY <1>3 DEF Forget
  <2> DEFINE a == SubSeq(s, 1, i - 1)
             b == SubSeq(s, i + 1, Len(s))
  <2>2. a \in Seq(S) /\ Len(a) = i - 1 /\ \A j \in 1..(i - 1) : a[j] = s[j]
    BY <1>1, <1>3
  <2>3. b \in Seq(S) /\ Len(b) = Len(s) - i
        /\ \A j \in 1..(Len(s) - i) : b[j] = s[i + j]
    BY <1>1, <1>3
  <2> HIDE DEF a, b
  <2>4. /\ a \o b \in Seq(S)
        /\ Len(a \o b) = Len(a) + Len(b)
        /\ \A j \in 1..(Len(a) + Len(b)) :
              (a \o b)[j] = IF j <= Len(a) THEN a[j] ELSE b[j - Len(a)]
    BY <2>2, <2>3, ConcatProperties
  <2>5. \A j \in 1..Len(a \o b) : (a \o b)[j] \in Members(s)
    <3> TAKE j \in 1..Len(a \o b)
    <3>1. CASE j <= i - 1
      BY <3>1, <2>2, <2>3, <2>4, <1>1 DEF Members
    <3>2. CASE j > i - 1
      <4>1. PICK k \in 1..Len(b) : j = Len(a) + k
        <5> DEFINE la == Len(a)
                   lb == Len(b)
        <5>a. la \in Nat /\ lb \in Nat /\ la = i - 1 /\ i \in Nat
          BY <1>1, <2>2, <2>3
        <5>b. j \in 1..(la + lb)
          BY <2>4
        <5> HIDE DEF la, lb
        <5>c. j \in Int /\ j > la /\ j <= la + lb
          BY <3>2, <5>a, <5>b
        <5>d. j - la \in 1..lb /\ j = la + (j - la)
          BY <5>a, <5>c, SMTT(20)
        <5>1. j - Len(a) \in 1..Len(b) /\ j = Len(a) + (j - Len(a))
          BY <5>d DEF la, lb
        <5>2. QED
          BY <5>1
      <4>2. (a \o b)[j] = b[k]
        BY <2>2, <2>3, <2>4, <3>2, <4>1
      <4>3. b[k] = s[i + k] /\ i + k \in 1..Len(s)
        BY <1>1, <1>3, <2>3, <4>1
      <4>4. QED
        BY <4>2, <4>3 DEF Members
    <3>3. QED
      BY <3>1, <3>2, <2>2, <2>3, <2>4, <1>1, SMTT(20)
  <2>6. Forget(s, p) = a \o b
    BY <2>1 DEF a, b
  <2>7. QED
    BY <2>4, <2>5, <2>6 DEF Members
<1>4. QED
  BY <1>2, <1>3

-----------------------------------------------------------------------------
(* One lemma per action: it preserves the invariant. *)

(* What the steps use of the assumptions on the constants. *)
LEMMA Bounds ==
    /\ MaxInserts \in Nat /\ MaxFaults \in Nat /\ MaxCrashes \in Nat
    /\ NoOne \notin Client /\ Merger \notin Client /\ NoOne # Merger
BY PartStoreAssumption

(* A list with one more part has that part as its one more member. *)
LEMMA AppendMembers ==
    ASSUME NEW S, NEW s \in Seq(S), NEW n \in S
    PROVE  Append(s, n) \in Seq(S) /\ Members(Append(s, n)) = Members(s) \cup {n}
<1>1. Append(s, n) \in Seq(S) /\ Len(Append(s, n)) = Len(s) + 1
      /\ \A i \in 1..Len(s) : Append(s, n)[i] = s[i]
      /\ Append(s, n)[Len(s) + 1] = n
  BY AppendProperties
<1>2. QED
  BY <1>1 DEF Members

(* No directory, and the directory a new INSERT writes. *)
LEMMA AbsentType == Absent \in PartDir
BY EmptySeq DEF Absent, PartDir

LEMMA FreshType ==
    ASSUME NEW n \in Part
    PROVE  /\ Fresh(n) \in PartDir
           /\ Fresh(n).covers = {n}
           /\ Fresh(n).rows # <<>>
<1> DEFINE r == [i \in 1..RowCount[n] |-> <<n, i>>]
<1>1. RowCount[n] \in Nat /\ RowCount[n] > 0
  BY PartStoreAssumption
<1>2. r \in Seq(Row)
  <2>1. \A i \in 1..RowCount[n] : <<n, i>> \in Row
    BY <1>1 DEF Row
  <2>2. QED
    BY <1>1, <2>1
<1>3. Len(r) = RowCount[n]
  BY <1>1, <1>2
<1> HIDE DEF r
<1>4. r # <<>>
  BY <1>1, <1>3, EmptySeq
<1>5. Fresh(n) = [covers |-> {n}, rows |-> r]
  BY DEF Fresh, r
<1>6. QED
  BY <1>2, <1>4, <1>5 DEF PartDir

(* A client sends an INSERT: nothing the invariant speaks of changes. *)
LEMMA InsertIssueInv ==
    ASSUME IInv, NEW c \in Client, InsertIssue(c)
    PROVE  IInv'
<1> USE DEF IInv, InsertIssue, memory, disk, clients, merge, Goto
<1>1. TypeOK'
  BY Bounds DEF TypeOK, ClientPC, MergePC, PartDir, Absent
<1>2. LockInv'
  BY Bounds DEF LockInv, Writing, Moving, TypeOK
<1>3. NameInv'
  BY Bounds DEF NameInv, TypeOK
<1>4. FreshInv'
  BY Bounds DEF FreshInv, Writing, LockInv, NameInv, TypeOK, Moving
<1>5. MergeInv'
  BY Bounds DEF MergeInv, Chosen, Moving, LockInv, FreshInv, Writing, TypeOK
<1>6. ApartInv'
  BY Bounds DEF ApartInv, LockInv, Moving, Writing, MergeInv, EachInsertOnce, Chosen, TypeOK
<1>7. PromiseInv'
  BY Bounds DEF PromiseInv, Stands, TypeOK
<1>8. EachInsertOnce'
  BY Bounds DEF EachInsertOnce, ApartInv, MergeInv, Chosen, TypeOK
<1>9. QED
  BY <1>1, <1>2, <1>3, <1>4, <1>5, <1>6, <1>7, <1>8

(* An INSERT takes the lock and the next name, which nothing knows yet. *)
LEMMA InsertLockInv ==
    ASSUME IInv, NEW c \in Client, InsertLock(c)
    PROVE  IInv'
<1> USE DEF IInv, InsertLock, memory, disk, clients, merge, Goto
<1>0. next \in Part /\ next \in Nat /\ next' = next + 1
      /\ next' \in 1..(MaxInserts + 1)
  BY Bounds DEF TypeOK, Part
<1>00. /\ normal' = normal /\ old' = old /\ oldDirs' = oldDirs /\ infos' = infos
       /\ 1..(next - 1) \subseteq 1..(next' - 1)
       /\ \A n \in Part : n < next => n < next'
  BY <1>0 DEF Part
<1>1. TypeOK'
  BY <1>0, Bounds DEF TypeOK, ClientPC
<1>2. LockInv'
  BY Bounds DEF LockInv, Writing, Moving, TypeOK
<1>3. NameInv'
  BY <1>00 DEF NameInv
<1>4. FreshInv'
  BY Bounds DEF FreshInv, Writing, LockInv, NameInv, MergeInv, TypeOK, Moving, Part
<1>5. MergeInv'
  BY Bounds DEF MergeInv, Chosen, Moving, TypeOK, Part
<1>6. ApartInv'
  BY Bounds DEF ApartInv, LockInv, Moving, Writing, MergeInv, EachInsertOnce, Chosen, TypeOK
<1>7. PromiseInv'
  BY Bounds DEF PromiseInv, Stands, TypeOK
<1>8. EachInsertOnce'
  BY Bounds DEF EachInsertOnce, ApartInv, MergeInv, Chosen, TypeOK
<1>9. QED
  BY <1>1, <1>2, <1>3, <1>4, <1>5, <1>6, <1>7, <1>8

(* An INSERT completes raw/<n>, a name no merge has chosen. *)
LEMMA InsertSaveInv ==
    ASSUME IInv, NEW c \in Client, InsertSave(c)
    PROVE  IInv'
<1> USE DEF IInv, InsertSave, memory, disk, clients, merge, Goto, Fresh, NoFail
<1>0. cur[c] \in Part /\ Fresh(cur[c]) \in PartDir
  BY FreshType DEF FreshInv, Writing
<1>1. TypeOK'
  BY <1>0, Bounds DEF TypeOK, ClientPC
<1>2. LockInv'
  BY Bounds DEF LockInv, Writing, Moving, TypeOK
<1>3. NameInv'
  BY Bounds DEF NameInv, TypeOK
<1>4. FreshInv'
  BY Bounds DEF FreshInv, Writing, LockInv, NameInv, TypeOK, Moving
<1>5. MergeInv'
  BY Bounds DEF MergeInv, Chosen, Moving, LockInv, FreshInv, Writing, TypeOK
<1>6. ApartInv'
  BY Bounds DEF ApartInv, LockInv, Moving, Writing, MergeInv, EachInsertOnce, Chosen, TypeOK
<1>7. PromiseInv'
  BY Bounds DEF PromiseInv, Stands, TypeOK
<1>8. EachInsertOnce'
  BY Bounds DEF EachInsertOnce, ApartInv, MergeInv, Chosen, TypeOK
<1>9. QED
  BY <1>1, <1>2, <1>3, <1>4, <1>5, <1>6, <1>7, <1>8

(* An INSERT that cannot be saved lets the lock go. *)
LEMMA InsertSaveFailsInv ==
    ASSUME IInv, NEW c \in Client, InsertSaveFails(c)
    PROVE  IInv'
<1> USE DEF IInv, InsertSaveFails, memory, disk, clients, merge, Goto, Fail
<1>0. cur[c] \in Part
  BY DEF FreshInv, Writing
<1>1. TypeOK'
  BY <1>0, Bounds DEF TypeOK, ClientPC
<1>2. LockInv'
  BY Bounds DEF LockInv, Writing, Moving, TypeOK
<1>3. NameInv'
  BY Bounds DEF NameInv, TypeOK
<1>4. FreshInv'
  BY Bounds DEF FreshInv, Writing, LockInv, NameInv, TypeOK, Moving
<1>5. MergeInv'
  BY Bounds DEF MergeInv, Chosen, Moving, LockInv, FreshInv, Writing, TypeOK
<1>6. ApartInv'
  BY Bounds DEF ApartInv, LockInv, Moving, Writing, MergeInv, EachInsertOnce, Chosen, TypeOK
<1>7. PromiseInv'
  BY Bounds DEF PromiseInv, Stands, TypeOK
<1>8. EachInsertOnce'
  BY Bounds DEF EachInsertOnce, ApartInv, MergeInv, Chosen, TypeOK
<1>9. QED
  BY <1>1, <1>2, <1>3, <1>4, <1>5, <1>6, <1>7, <1>8

(* An INSERT gives its directory a name that was free: nothing is lost. *)
LEMMA InsertPublishInv ==
    ASSUME IInv, NEW c \in Client, InsertPublish(c)
    PROVE  IInv'
<1> USE DEF IInv, InsertPublish, memory, disk, clients, merge, Goto
<1> DEFINE n == cur[c]
<1>a. n \in Part /\ n \in 1..(next - 1) /\ raw[n] = Fresh(n) /\ normal[n] = Absent
      /\ \A m \in Part : n \notin normal[m].covers \cup old[m].covers
  BY DEF FreshInv, Writing
<1>b. Fresh(n) \in PartDir /\ Fresh(n).covers = {n} /\ Fresh(n).rows # <<>>
  BY <1>a, FreshType
<1>c. normal' = [normal EXCEPT ![n] = Fresh(n)] /\ old' = old
  BY <1>a
<1>d. Members(infos') = Members(infos) \cup {n} /\ infos' \in Seq(Part)
  BY <1>a, AppendMembers DEF TypeOK
<1>e. \A m \in Part : normal'[m] = IF m = n THEN Fresh(n) ELSE normal[m]
  BY <1>a, <1>c DEF TypeOK
<1>f. \A m \in Part :
         /\ normal'[m].covers = IF m = n THEN {n} ELSE normal[m].covers
         /\ normal[m].covers \subseteq normal'[m].covers
  <2>1. normal[n].covers = {}
    BY <1>a DEF Absent
  <2> HIDE DEF n
  <2>2. TAKE m \in Part
  <2>3. CASE m = n
    <3>1. normal'[m] = Fresh(n)
      BY <1>e, <2>3
    <3>2. QED
      BY <1>b, <2>1, <2>3, <3>1
  <2>4. CASE m # n
    <3>1. normal'[m] = normal[m]
      BY <1>e, <2>4
    <3>2. QED
      BY <2>4, <3>1
  <2>5. QED
    BY <2>3, <2>4
<1>g. next' = next /\ oldDirs' = oldDirs /\ n < next
  BY <1>a, Bounds DEF TypeOK
<1>1. TypeOK'
  BY <1>a, <1>b, <1>d, Bounds, AbsentType DEF TypeOK, ClientPC
<1>2. LockInv'
  BY Bounds DEF LockInv, Writing, Moving, TypeOK
<1>3. NameInv'
  <2>1. \A m \in Part : normal'[m] # Absent => m < next /\ normal'[m].rows # <<>>
    BY <1>b, <1>e, <1>g DEF NameInv
  <2>2. \A m \in Part : normal'[m].covers \subseteq 1..(next - 1)
    BY <1>a, <1>f DEF NameInv
  <2>3. \A m \in Part : normal'[m].covers = {} => normal'[m] = Absent
    BY <1>b, <1>e DEF NameInv
  <2>4. QED
    BY <1>a, <1>c, <1>d, <1>g, <2>1, <2>2, <2>3, SMTT(20) DEF NameInv
<1>4. FreshInv'
  BY Bounds DEF FreshInv, Writing, LockInv, NameInv, TypeOK, Moving
<1>5. MergeInv'
  BY Bounds DEF MergeInv, Chosen, Moving, LockInv, FreshInv, Writing, TypeOK
<1>6. ApartInv'
  BY Bounds DEF ApartInv, LockInv, Moving, Writing, MergeInv, EachInsertOnce, Chosen, TypeOK
<1>7. PromiseInv'
  <2>1. \A m : Stands(m) => Stands(m)'
    BY <1>c, <1>f DEF Stands
  <2>2. Stands(n)'
    BY <1>a, <1>f DEF Stands
  <2>3. QED
    BY <2>1, <2>2 DEF PromiseInv, TypeOK
<1>8. EachInsertOnce'
  BY <1>a, <1>f DEF EachInsertOnce
<1>9. QED
  BY <1>1, <1>2, <1>3, <1>4, <1>5, <1>6, <1>7, <1>8

(* An INSERT whose rename fails leaves memory and disk as they were. *)
LEMMA InsertPublishFailsInv ==
    ASSUME IInv, NEW c \in Client, InsertPublishFails(c)
    PROVE  IInv'
<1> USE DEF IInv, InsertPublishFails, memory, disk, clients, merge, Goto, Fail
<1>0. cur[c] \in Part
  BY DEF FreshInv, Writing
<1>1. TypeOK'
  BY <1>0, Bounds DEF TypeOK, ClientPC
<1>2. LockInv'
  BY Bounds DEF LockInv, Writing, Moving, TypeOK
<1>3. NameInv'
  BY Bounds DEF NameInv, TypeOK
<1>4. FreshInv'
  BY Bounds DEF FreshInv, Writing, LockInv, NameInv, TypeOK, Moving
<1>5. MergeInv'
  BY Bounds DEF MergeInv, Chosen, Moving, LockInv, FreshInv, Writing, TypeOK
<1>6. ApartInv'
  BY Bounds DEF ApartInv, LockInv, Moving, Writing, MergeInv, EachInsertOnce, Chosen, TypeOK
<1>7. PromiseInv'
  BY Bounds DEF PromiseInv, Stands, TypeOK
<1>8. EachInsertOnce'
  BY Bounds DEF EachInsertOnce, ApartInv, MergeInv, Chosen, TypeOK
<1>9. QED
  BY <1>1, <1>2, <1>3, <1>4, <1>5, <1>6, <1>7, <1>8

(* The answer is sent for a part that has a directory. *)
LEMMA InsertAckInv ==
    ASSUME IInv, NEW c \in Client, InsertAck(c)
    PROVE  IInv'
<1> USE DEF IInv, InsertAck, memory, disk, clients, merge, Goto
<1>0. cur[c] \in Part
  BY DEF PromiseInv, Stands, TypeOK, PartDir
<1>1. TypeOK'
  BY <1>0, Bounds DEF TypeOK, ClientPC
<1>2. LockInv'
  BY Bounds DEF LockInv, Writing, Moving, TypeOK
<1>3. NameInv'
  BY Bounds DEF NameInv, TypeOK
<1>4. FreshInv'
  BY Bounds DEF FreshInv, Writing, LockInv, NameInv, TypeOK, Moving
<1>5. MergeInv'
  BY Bounds DEF MergeInv, Chosen, Moving, LockInv, FreshInv, Writing, TypeOK
<1>6. ApartInv'
  BY Bounds DEF ApartInv, LockInv, Moving, Writing, MergeInv, EachInsertOnce, Chosen, TypeOK
<1>7. PromiseInv'
  BY Bounds DEF PromiseInv, Stands, TypeOK
<1>8. EachInsertOnce'
  BY Bounds DEF EachInsertOnce, ApartInv, MergeInv, Chosen, TypeOK
<1>9. QED
  BY <1>1, <1>2, <1>3, <1>4, <1>5, <1>6, <1>7, <1>8

(* A client sends a SELECT. *)
LEMMA SelectIssueInv ==
    ASSUME IInv, NEW c \in Client, SelectIssue(c)
    PROVE  IInv'
<1> USE DEF IInv, SelectIssue, memory, disk, clients, merge, Goto
<1>1. TypeOK'
  BY Bounds DEF TypeOK, ClientPC, MergePC, PartDir, Absent
<1>2. LockInv'
  BY Bounds DEF LockInv, Writing, Moving, TypeOK
<1>3. NameInv'
  BY Bounds DEF NameInv, TypeOK
<1>4. FreshInv'
  BY Bounds DEF FreshInv, Writing, LockInv, NameInv, TypeOK, Moving
<1>5. MergeInv'
  BY Bounds DEF MergeInv, Chosen, Moving, LockInv, FreshInv, Writing, TypeOK
<1>6. ApartInv'
  BY Bounds DEF ApartInv, LockInv, Moving, Writing, MergeInv, EachInsertOnce, Chosen, TypeOK
<1>7. PromiseInv'
  BY Bounds DEF PromiseInv, Stands, TypeOK
<1>8. EachInsertOnce'
  BY Bounds DEF EachInsertOnce, ApartInv, MergeInv, Chosen, TypeOK
<1>9. QED
  BY <1>1, <1>2, <1>3, <1>4, <1>5, <1>6, <1>7, <1>8

(* A SELECT takes the read lock. *)
LEMMA SelectLockInv ==
    ASSUME IInv, NEW c \in Client, SelectLock(c)
    PROVE  IInv'
<1> USE DEF IInv, SelectLock, memory, disk, clients, merge, Goto
<1>1. TypeOK'
  BY Bounds DEF TypeOK, ClientPC, MergePC, PartDir, Absent
<1>2. LockInv'
  BY Bounds DEF LockInv, Writing, Moving, TypeOK
<1>3. NameInv'
  BY Bounds DEF NameInv, TypeOK
<1>4. FreshInv'
  BY Bounds DEF FreshInv, Writing, LockInv, NameInv, TypeOK, Moving
<1>5. MergeInv'
  BY Bounds DEF MergeInv, Chosen, Moving, LockInv, FreshInv, Writing, TypeOK
<1>6. ApartInv'
  BY Bounds DEF ApartInv, LockInv, Moving, Writing, MergeInv, EachInsertOnce, Chosen, TypeOK
<1>7. PromiseInv'
  BY Bounds DEF PromiseInv, Stands, TypeOK
<1>8. EachInsertOnce'
  BY Bounds DEF EachInsertOnce, ApartInv, MergeInv, Chosen, TypeOK
<1>9. QED
  BY <1>1, <1>2, <1>3, <1>4, <1>5, <1>6, <1>7, <1>8

(* A SELECT reads the next part. *)
LEMMA SelectReadInv ==
    ASSUME IInv, NEW c \in Client, SelectRead(c)
    PROVE  IInv'
<1> USE DEF IInv, SelectRead, memory, disk, clients, merge, Goto
<1>1. TypeOK'
  BY Bounds DEF TypeOK, Live
<1>2. LockInv'
  BY Bounds DEF LockInv, Writing, Moving, TypeOK
<1>3. NameInv'
  BY Bounds DEF NameInv, TypeOK
<1>4. FreshInv'
  BY Bounds DEF FreshInv, Writing, LockInv, NameInv, TypeOK, Moving
<1>5. MergeInv'
  BY Bounds DEF MergeInv, Chosen, Moving, LockInv, FreshInv, Writing, TypeOK
<1>6. ApartInv'
  BY Bounds DEF ApartInv, LockInv, Moving, Writing, MergeInv, EachInsertOnce, Chosen, TypeOK
<1>7. PromiseInv'
  BY Bounds DEF PromiseInv, Stands, TypeOK
<1>8. EachInsertOnce'
  BY Bounds DEF EachInsertOnce, ApartInv, MergeInv, Chosen, TypeOK
<1>9. QED
  BY <1>1, <1>2, <1>3, <1>4, <1>5, <1>6, <1>7, <1>8

(* A SELECT ends. *)
LEMMA SelectEndInv ==
    ASSUME IInv, NEW c \in Client, SelectEnd(c)
    PROVE  IInv'
<1> USE DEF IInv, SelectEnd, memory, disk, clients, merge, Goto, SelectLeave
<1>1. TypeOK'
  BY Bounds DEF TypeOK, ClientPC, MergePC, PartDir, Absent
<1>2. LockInv'
  BY Bounds DEF LockInv, Writing, Moving, TypeOK
<1>3. NameInv'
  BY Bounds DEF NameInv, TypeOK
<1>4. FreshInv'
  BY Bounds DEF FreshInv, Writing, LockInv, NameInv, TypeOK, Moving
<1>5. MergeInv'
  BY Bounds DEF MergeInv, Chosen, Moving, LockInv, FreshInv, Writing, TypeOK
<1>6. ApartInv'
  BY Bounds DEF ApartInv, LockInv, Moving, Writing, MergeInv, EachInsertOnce, Chosen, TypeOK
<1>7. PromiseInv'
  BY Bounds DEF PromiseInv, Stands, TypeOK
<1>8. EachInsertOnce'
  BY Bounds DEF EachInsertOnce, ApartInv, MergeInv, Chosen, TypeOK
<1>9. QED
  BY <1>1, <1>2, <1>3, <1>4, <1>5, <1>6, <1>7, <1>8

(* A SELECT gives up. *)
LEMMA SelectReadFailsInv ==
    ASSUME IInv, NEW c \in Client, SelectReadFails(c)
    PROVE  IInv'
<1> USE DEF IInv, SelectReadFails, memory, disk, clients, merge, Goto, SelectLeave, Fail, NoFail
<1>1. TypeOK'
  BY Bounds DEF TypeOK, ClientPC, MergePC, PartDir, Absent
<1>2. LockInv'
  BY Bounds DEF LockInv, Writing, Moving, TypeOK
<1>3. NameInv'
  BY Bounds DEF NameInv, TypeOK
<1>4. FreshInv'
  BY Bounds DEF FreshInv, Writing, LockInv, NameInv, TypeOK, Moving
<1>5. MergeInv'
  BY Bounds DEF MergeInv, Chosen, Moving, LockInv, FreshInv, Writing, TypeOK
<1>6. ApartInv'
  BY Bounds DEF ApartInv, LockInv, Moving, Writing, MergeInv, EachInsertOnce, Chosen, TypeOK
<1>7. PromiseInv'
  BY Bounds DEF PromiseInv, Stands, TypeOK
<1>8. EachInsertOnce'
  BY Bounds DEF EachInsertOnce, ApartInv, MergeInv, Chosen, TypeOK
<1>9. QED
  BY <1>1, <1>2, <1>3, <1>4, <1>5, <1>6, <1>7, <1>8

(* The merge thread passes the load gate. *)
LEMMA MergeGateInv ==
    ASSUME IInv, MergeGate
    PROVE  IInv'
<1> USE DEF IInv, MergeGate, memory, disk, clients, merge, MergeGoto
<1>1. TypeOK'
  BY Bounds DEF TypeOK, ClientPC, MergePC, PartDir, Absent
<1>2. LockInv'
  BY Bounds DEF LockInv, Writing, Moving, TypeOK
<1>3. NameInv'
  BY Bounds DEF NameInv, TypeOK
<1>4. FreshInv'
  BY Bounds DEF FreshInv, Writing, LockInv, NameInv, TypeOK, Moving
<1>5. MergeInv'
  BY Bounds DEF MergeInv, Chosen, Moving, LockInv, FreshInv, Writing, TypeOK
<1>6. ApartInv'
  BY Bounds DEF ApartInv, LockInv, Moving, Writing, MergeInv, EachInsertOnce, Chosen, TypeOK
<1>7. PromiseInv'
  BY Bounds DEF PromiseInv, Stands, TypeOK
<1>8. EachInsertOnce'
  BY Bounds DEF EachInsertOnce, ApartInv, MergeInv, Chosen, TypeOK
<1>9. QED
  BY <1>1, <1>2, <1>3, <1>4, <1>5, <1>6, <1>7, <1>8

(* The two parts chosen are listed, hence have names in use. *)
LEMMA MergeFindInv ==
    ASSUME IInv, MergeFind
    PROVE  IInv'
<1> USE DEF IInv, MergeFind, memory, disk, clients, merge, MergeGoto, Oldest
<1>1. TypeOK'
  BY Bounds DEF TypeOK, ClientPC, MergePC, PartDir, Absent
<1>2. LockInv'
  BY Bounds DEF LockInv, Writing, Moving, TypeOK
<1>3. NameInv'
  BY Bounds DEF NameInv, TypeOK
<1>4. FreshInv'
  BY Bounds DEF FreshInv, Writing, LockInv, NameInv, TypeOK, Moving
<1>5. MergeInv'
  <2>1. CASE Len(infos) > 1
    <3>1. p1' \in Part /\ p2' \in Part /\ p1' # p2' /\ p1' < next /\ p2' < next
      BY <2>1 DEF NameInv, TypeOK
    <3>2. QED
      BY <2>1, <3>1 DEF MergeInv, Chosen, Moving
  <2>2. CASE ~(Len(infos) > 1)
    BY <2>2 DEF MergeInv, Chosen, Moving
  <2>3. QED
    BY <2>1, <2>2
<1>6. ApartInv'
  BY Bounds DEF ApartInv, LockInv, Moving, Writing, MergeInv, EachInsertOnce, Chosen, TypeOK
<1>7. PromiseInv'
  BY Bounds DEF PromiseInv, Stands, TypeOK
<1>8. EachInsertOnce'
  BY Bounds DEF EachInsertOnce, ApartInv, MergeInv, Chosen, TypeOK
<1>9. QED
  BY <1>1, <1>2, <1>3, <1>4, <1>5, <1>6, <1>7, <1>8

(* What is loaded stands for what its source stands for, and is not empty. *)
LEMMA MergeLoadInv ==
    ASSUME IInv, MergeLoad
    PROVE  IInv'
<1> USE DEF IInv, MergeLoad, memory, disk, clients, merge, MergeGoto, Source, Opened, Live, RowsOf
<1>a. Source \in Part /\ normal[Source] \in PartDir
      /\ normal[Source].covers # {} /\ normal[Source].rows # <<>>
  BY DEF MergeInv, Chosen, Moving, TypeOK, NameInv
<1>b. MergeRead(infos, RowsOf, Source) \in Seq(Row)
      /\ MergeRead(infos, RowsOf, Source) # <<>>
  <2>1. RowsOf \in [Part -> Seq(Row)]
    BY DEF TypeOK, PartDir
  <2>2. \A q \in Opened : q \in Part /\ Len(RowsOf[q]) > 0
    BY <2>1, EmptySeq DEF NameInv
  <2>3. infos \in Seq(Part)
    BY DEF TypeOK
  <2> HIDE DEF RowsOf, Source
  <2>4. QED
    BY <1>a, <2>1, <2>2, <2>3, MergeReadType
<1>c. merged \in PartDir
  BY DEF TypeOK
<1>d. merged' \in PartDir /\ merged'.rows # <<>>
      /\ merged'.covers = merged.covers \cup normal[Source].covers
  <2> HIDE DEF RowsOf, Source
  <2>1. merged.rows \o MergeRead(infos, RowsOf, Source) \in Seq(Row)
        /\ merged.rows \o MergeRead(infos, RowsOf, Source) # <<>>
    BY <1>b, <1>c, ConcatProperties, EmptySeq DEF PartDir
  <2>2. QED
    BY <1>a, <1>c, <2>1 DEF PartDir
<1>1. TypeOK'
  BY <1>d, Bounds DEF TypeOK, MergePC
<1>2. LockInv'
  BY Bounds DEF LockInv, Writing, Moving, TypeOK
<1>3. NameInv'
  BY Bounds DEF NameInv, TypeOK
<1>4. FreshInv'
  BY Bounds DEF FreshInv, Writing, LockInv, NameInv, TypeOK, Moving
<1>5. MergeInv'
  BY <1>a, <1>d DEF MergeInv, Chosen, Moving, Absent
<1>6. ApartInv'
  BY Bounds DEF ApartInv, LockInv, Moving, Writing, MergeInv, EachInsertOnce, Chosen, TypeOK
<1>7. PromiseInv'
  BY Bounds DEF PromiseInv, Stands, TypeOK
<1>8. EachInsertOnce'
  BY Bounds DEF EachInsertOnce, ApartInv, MergeInv, Chosen, TypeOK
<1>9. QED
  BY <1>1, <1>2, <1>3, <1>4, <1>5, <1>6, <1>7, <1>8

(* A merge that cannot load starts over. *)
LEMMA MergeLoadFailsInv ==
    ASSUME IInv, MergeLoadFails
    PROVE  IInv'
<1> USE DEF IInv, MergeLoadFails, memory, disk, clients, merge, MergeGoto, MergeRestart, Fail, NoFail
<1>1. TypeOK'
  BY Bounds DEF TypeOK, ClientPC, MergePC, PartDir, Absent
<1>2. LockInv'
  BY Bounds DEF LockInv, Writing, Moving, TypeOK
<1>3. NameInv'
  BY Bounds DEF NameInv, TypeOK
<1>4. FreshInv'
  BY Bounds DEF FreshInv, Writing, LockInv, NameInv, TypeOK, Moving
<1>5. MergeInv'
  BY Bounds DEF MergeInv, Chosen, Moving, LockInv, FreshInv, Writing, TypeOK
<1>6. ApartInv'
  BY Bounds DEF ApartInv, LockInv, Moving, Writing, MergeInv, EachInsertOnce, Chosen, TypeOK
<1>7. PromiseInv'
  BY Bounds DEF PromiseInv, Stands, TypeOK
<1>8. EachInsertOnce'
  BY Bounds DEF EachInsertOnce, ApartInv, MergeInv, Chosen, TypeOK
<1>9. QED
  BY <1>1, <1>2, <1>3, <1>4, <1>5, <1>6, <1>7, <1>8

(* A panic takes the thread away, with no lock held. *)
LEMMA MergeLoadPanicsInv ==
    ASSUME IInv, MergeLoadPanics
    PROVE  IInv'
<1> USE DEF IInv, MergeLoadPanics, memory, disk, clients, merge, MergeGoto
<1>1. TypeOK'
  BY Bounds DEF TypeOK, ClientPC, MergePC, PartDir, Absent
<1>2. LockInv'
  BY Bounds DEF LockInv, Writing, Moving, TypeOK
<1>3. NameInv'
  BY Bounds DEF NameInv, TypeOK
<1>4. FreshInv'
  BY Bounds DEF FreshInv, Writing, LockInv, NameInv, TypeOK, Moving
<1>5. MergeInv'
  BY Bounds DEF MergeInv, Chosen, Moving, LockInv, FreshInv, Writing, TypeOK
<1>6. ApartInv'
  BY Bounds DEF ApartInv, LockInv, Moving, Writing, MergeInv, EachInsertOnce, Chosen, TypeOK
<1>7. PromiseInv'
  BY Bounds DEF PromiseInv, Stands, TypeOK
<1>8. EachInsertOnce'
  BY Bounds DEF EachInsertOnce, ApartInv, MergeInv, Chosen, TypeOK
<1>9. QED
  BY <1>1, <1>2, <1>3, <1>4, <1>5, <1>6, <1>7, <1>8

(* The merged part is complete in raw/<p2> before anything is renamed. *)
LEMMA MergeSaveInv ==
    ASSUME IInv, MergeSave
    PROVE  IInv'
<1> USE DEF IInv, MergeSave, memory, disk, clients, merge, MergeGoto, MergeRestart, Fail, NoFail
<1>1. TypeOK'
  BY Bounds, AbsentType DEF TypeOK, MergePC, MergeInv, Chosen
<1>2. LockInv'
  BY Bounds DEF LockInv, Writing, Moving, TypeOK
<1>3. NameInv'
  BY Bounds DEF NameInv, TypeOK
<1>4. FreshInv'
  BY Bounds DEF FreshInv, Writing, LockInv, NameInv, TypeOK, Moving
<1>5. MergeInv'
  BY Bounds DEF MergeInv, Chosen, Moving, LockInv, FreshInv, Writing, TypeOK
<1>6. ApartInv'
  BY Bounds DEF ApartInv, LockInv, Moving, Writing, MergeInv, EachInsertOnce, Chosen, TypeOK
<1>7. PromiseInv'
  BY Bounds DEF PromiseInv, Stands, TypeOK
<1>8. EachInsertOnce'
  BY Bounds DEF EachInsertOnce, ApartInv, MergeInv, Chosen, TypeOK
<1>9. QED
  BY <1>1, <1>2, <1>3, <1>4, <1>5, <1>6, <1>7, <1>8

(* The merge thread takes the write lock. *)
LEMMA MergeLockInv ==
    ASSUME IInv, MergeLock
    PROVE  IInv'
<1> USE DEF IInv, MergeLock, memory, disk, clients, merge, MergeGoto
<1>1. TypeOK'
  BY Bounds DEF TypeOK, ClientPC, MergePC, PartDir, Absent
<1>2. LockInv'
  BY Bounds DEF LockInv, Writing, Moving, TypeOK
<1>3. NameInv'
  BY Bounds DEF NameInv, TypeOK
<1>4. FreshInv'
  BY Bounds DEF FreshInv, Writing, LockInv, NameInv, TypeOK, Moving
<1>5. MergeInv'
  BY Bounds DEF MergeInv, Chosen, Moving, LockInv, FreshInv, Writing, TypeOK
<1>6. ApartInv'
  BY Bounds DEF ApartInv, LockInv, Moving, Writing, MergeInv, EachInsertOnce, Chosen, TypeOK
<1>7. PromiseInv'
  BY Bounds DEF PromiseInv, Stands, TypeOK
<1>8. EachInsertOnce'
  BY Bounds DEF EachInsertOnce, ApartInv, MergeInv, Chosen, TypeOK
<1>9. QED
  BY <1>1, <1>2, <1>3, <1>4, <1>5, <1>6, <1>7, <1>8

(* Part 1 moves to a `.old` directory that was empty. *)
LEMMA MergeRename1Inv ==
    ASSUME IInv, MergeRename1
    PROVE  IInv'
<1> USE DEF IInv, MergeRename1, memory, disk, clients, merge, MergeGoto, CanShelve, Shelve, Live
<1>a. p1 \in Part /\ p2 \in Part /\ p1 # p2 /\ old[p1] = Absent
  BY DEF MergeInv, Chosen, Moving, NameInv
<1>b. \A n \in Part :
         /\ normal'[n] = IF n = p1 THEN Absent ELSE normal[n]
         /\ old'[n] = IF n = p1 THEN normal[p1] ELSE old[n]
  BY <1>a DEF TypeOK
<1>c. Absent.covers = {}
  BY DEF Absent
<1>1. TypeOK'
  BY Bounds DEF TypeOK, ClientPC, MergePC, PartDir, Absent
<1>2. LockInv'
  BY Bounds DEF LockInv, Writing, Moving, TypeOK
<1>3. NameInv'
  BY Bounds DEF NameInv, TypeOK
<1>4. FreshInv'
  BY Bounds DEF FreshInv, Writing, LockInv, NameInv, TypeOK, Moving
<1>5. MergeInv'
  BY Bounds DEF MergeInv, Chosen, Moving, LockInv, FreshInv, Writing, TypeOK
<1>6. ApartInv'
  BY <1>a, <1>b, <1>c DEF ApartInv, EachInsertOnce, Moving
<1>7. PromiseInv'
  <2>1. \A n : Stands(n) => Stands(n)'
    BY <1>a, <1>b, <1>c DEF Stands
  <2>2. QED
    BY <2>1 DEF PromiseInv
<1>8. EachInsertOnce'
  BY <1>b, <1>c DEF EachInsertOnce
<1>9. QED
  BY <1>1, <1>2, <1>3, <1>4, <1>5, <1>6, <1>7, <1>8

(* The first rename fails: the merge is given up. *)
LEMMA MergeRename1FailsInv ==
    ASSUME IInv, MergeRename1Fails
    PROVE  IInv'
<1> USE DEF IInv, MergeRename1Fails, memory, disk, clients, merge, MergeGoto, Fail, NoFail, MergeRestart
<1>1. TypeOK'
  BY Bounds DEF TypeOK, ClientPC, MergePC, PartDir, Absent
<1>2. LockInv'
  BY Bounds DEF LockInv, Writing, Moving, TypeOK
<1>3. NameInv'
  BY Bounds DEF NameInv, TypeOK
<1>4. FreshInv'
  BY Bounds DEF FreshInv, Writing, LockInv, NameInv, TypeOK, Moving
<1>5. MergeInv'
  BY Bounds DEF MergeInv, Chosen, Moving, LockInv, FreshInv, Writing, TypeOK
<1>6. ApartInv'
  BY Bounds DEF ApartInv, LockInv, Moving, Writing, MergeInv, EachInsertOnce, Chosen, TypeOK
<1>7. PromiseInv'
  BY Bounds DEF PromiseInv, Stands, TypeOK
<1>8. EachInsertOnce'
  BY Bounds DEF EachInsertOnce, ApartInv, MergeInv, Chosen, TypeOK
<1>9. QED
  BY <1>1, <1>2, <1>3, <1>4, <1>5, <1>6, <1>7, <1>8

(* Part 2 moves to a `.old` directory that was empty. *)
LEMMA MergeRename2Inv ==
    ASSUME IInv, MergeRename2
    PROVE  IInv'
<1> USE DEF IInv, MergeRename2, memory, disk, clients, merge, MergeGoto, CanShelve, Shelve, Live
<1>a. p2 \in Part /\ p1 \in Part /\ p1 # p2 /\ old[p2] = Absent
  BY DEF MergeInv, Chosen, Moving, NameInv
<1>b. \A n \in Part :
         /\ normal'[n] = IF n = p2 THEN Absent ELSE normal[n]
         /\ old'[n] = IF n = p2 THEN normal[p2] ELSE old[n]
  BY <1>a DEF TypeOK
<1>c. Absent.covers = {}
  BY DEF Absent
<1>1. TypeOK'
  BY Bounds DEF TypeOK, ClientPC, MergePC, PartDir, Absent
<1>2. LockInv'
  BY Bounds DEF LockInv, Writing, Moving, TypeOK
<1>3. NameInv'
  BY Bounds DEF NameInv, TypeOK
<1>4. FreshInv'
  BY Bounds DEF FreshInv, Writing, LockInv, NameInv, TypeOK, Moving
<1>5. MergeInv'
  BY Bounds DEF MergeInv, Chosen, Moving, LockInv, FreshInv, Writing, TypeOK
<1>6. ApartInv'
  BY Bounds DEF ApartInv, LockInv, Moving, Writing, MergeInv, EachInsertOnce, Chosen, TypeOK
<1>7. PromiseInv'
  <2>1. \A n : Stands(n) => Stands(n)'
    BY <1>a, <1>b, <1>c DEF Stands
  <2>2. QED
    BY <2>1 DEF PromiseInv
<1>8. EachInsertOnce'
  BY <1>b, <1>c DEF EachInsertOnce
<1>9. QED
  BY <1>1, <1>2, <1>3, <1>4, <1>5, <1>6, <1>7, <1>8

(* The second rename fails: the first is to be undone. *)
LEMMA MergeRename2FailsInv ==
    ASSUME IInv, MergeRename2Fails
    PROVE  IInv'
<1> USE DEF IInv, MergeRename2Fails, memory, disk, clients, merge, MergeGoto, Fail, NoFail
<1>1. TypeOK'
  BY Bounds DEF TypeOK, ClientPC, MergePC, PartDir, Absent
<1>2. LockInv'
  BY Bounds DEF LockInv, Writing, Moving, TypeOK
<1>3. NameInv'
  BY Bounds DEF NameInv, TypeOK
<1>4. FreshInv'
  BY Bounds DEF FreshInv, Writing, LockInv, NameInv, TypeOK, Moving
<1>5. MergeInv'
  BY Bounds DEF MergeInv, Chosen, Moving, LockInv, FreshInv, Writing, TypeOK
<1>6. ApartInv'
  BY Bounds DEF ApartInv, LockInv, Moving, Writing, MergeInv, EachInsertOnce, Chosen, TypeOK
<1>7. PromiseInv'
  BY Bounds DEF PromiseInv, Stands, TypeOK
<1>8. EachInsertOnce'
  BY Bounds DEF EachInsertOnce, ApartInv, MergeInv, Chosen, TypeOK
<1>9. QED
  BY <1>1, <1>2, <1>3, <1>4, <1>5, <1>6, <1>7, <1>8

(* Part 1 comes back, or stays shelved. *)
LEMMA MergeUndoInv ==
    ASSUME IInv, MergeUndo
    PROVE  IInv'
<1> USE DEF IInv, MergeUndo, memory, disk, clients, merge, MergeGoto, Fail, NoFail, MergeRestart
<1>a. p1 \in Part /\ normal[p1] = Absent /\ old[p1] \in PartDir
      /\ old[p1] # Absent
  BY DEF MergeInv, Chosen, Moving, TypeOK
<1>b. \/ normal' = normal /\ old' = old /\ oldDirs' = oldDirs
      \/ /\ oldDirs' = oldDirs \ {p1}
         /\ \A n \in Part :
              /\ normal'[n] = IF n = p1 THEN old[p1] ELSE normal[n]
              /\ old'[n] = IF n = p1 THEN Absent ELSE old[n]
  BY <1>a DEF TypeOK
<1>c. Absent.covers = {}
  BY DEF Absent
<1>1. TypeOK'
  BY <1>a, Bounds, AbsentType, SMTT(20) DEF TypeOK, MergePC
<1>2. LockInv'
  BY Bounds DEF LockInv, Writing, Moving, TypeOK
<1>3. NameInv'
  BY <1>a, <1>b, <1>c DEF NameInv
<1>4. FreshInv'
  BY Bounds DEF FreshInv, Writing, LockInv, NameInv, TypeOK, Moving
<1>5. MergeInv'
  BY Bounds DEF MergeInv, Chosen, Moving, LockInv, FreshInv, Writing, TypeOK
<1>6. ApartInv'
  BY Bounds DEF ApartInv, LockInv, Moving, Writing, MergeInv, EachInsertOnce, Chosen, TypeOK
<1>7. PromiseInv'
  <2>1. \A n : Stands(n) => Stands(n)'
    BY <1>a, <1>b, <1>c DEF Stands
  <2>2. QED
    BY <2>1 DEF PromiseInv
<1>8. EachInsertOnce'
  BY Bounds DEF EachInsertOnce, ApartInv, MergeInv, Chosen, TypeOK
<1>9. QED
  BY <1>1, <1>2, <1>3, <1>4, <1>5, <1>6, <1>7, <1>8

(* The merged part stands for both shelved parts, which share nothing with the rest. *)
LEMMA MergePublishInv ==
    ASSUME IInv, MergePublish
    PROVE  IInv'
<1> USE DEF IInv, MergePublish, memory, disk, clients, merge, MergeGoto
<1>a. infos \in Seq(Part) /\ p1 \in Part /\ p2 \in Part /\ p1 # p2
      /\ p2 \in 1..(next - 1)
  BY Bounds DEF TypeOK, MergeInv, Chosen, Moving, Part
<1>b. Forget(infos, p1) \in Seq(Part)
      /\ Members(Forget(infos, p1)) \subseteq Members(infos)
  BY <1>a, ForgetType
<1>c. Forget(Forget(infos, p1), p2) \in Seq(Part)
      /\ Members(Forget(Forget(infos, p1), p2)) \subseteq Members(infos)
  BY <1>a, <1>b, ForgetType
<1>d. infos' \in Seq(Part) /\ Members(infos') \subseteq Members(infos) \cup {p2}
  BY <1>a, <1>c, AppendMembers
<1>e. raw[p2] \in PartDir /\ raw[p2].covers = old[p1].covers \cup old[p2].covers
      /\ raw[p2].rows # <<>> /\ raw[p2].covers # {}
      /\ normal[p1] = Absent /\ normal[p2] = Absent
  BY <1>a DEF MergeInv, TypeOK
<1>f. \A n \in Part : normal'[n] = IF n = p2 THEN raw[p2] ELSE normal[n]
  BY <1>a DEF TypeOK
<1>g. old' = old /\ Absent.covers = {}
  BY DEF Absent
<1>1. TypeOK'
  BY <1>a, <1>d, <1>e, Bounds, AbsentType DEF TypeOK, MergePC
<1>2. LockInv'
  BY Bounds DEF LockInv, Writing, Moving, TypeOK
<1>3. NameInv'
  <2>1. raw[p2].covers \subseteq 1..(next - 1) /\ p2 < next
    BY <1>a, <1>e DEF NameInv, MergeInv
  <2>2. next' = next /\ oldDirs' = oldDirs
    OBVIOUS
  <2>3. \A n \in Part : normal'[n] # Absent => n < next /\ normal'[n].rows # <<>>
    BY <1>e, <1>f, <2>1 DEF NameInv
  <2>4. \A n \in Part : normal'[n].covers \cup old[n].covers \subseteq 1..(next - 1)
    BY <1>f, <2>1 DEF NameInv
  <2>5. \A n \in Part : normal'[n].covers = {} => normal'[n] = Absent
    BY <1>e, <1>f DEF NameInv
  <2>6. Members(infos') \subseteq 1..(next - 1)
    BY <1>a, <1>d DEF NameInv
  <2>7. QED
    BY <1>g, <2>2, <2>3, <2>4, <2>5, <2>6 DEF NameInv
<1>4. FreshInv'
  BY Bounds DEF FreshInv, Writing, LockInv, NameInv, TypeOK, Moving
<1>5. MergeInv'
  BY Bounds DEF MergeInv, Chosen, Moving, LockInv, FreshInv, Writing, TypeOK
<1>6. ApartInv'
  BY Bounds DEF ApartInv, LockInv, Moving, Writing, MergeInv, EachInsertOnce, Chosen, TypeOK
<1>7. PromiseInv'
  <2>1. \A n : Stands(n) => Stands(n)'
    BY <1>a, <1>e, <1>f, <1>g DEF Stands
  <2>2. QED
    BY <2>1 DEF PromiseInv
<1>8. EachInsertOnce'
  BY Bounds DEF EachInsertOnce, ApartInv, MergeInv, Chosen, TypeOK
<1>9. QED
  BY <1>1, <1>2, <1>3, <1>4, <1>5, <1>6, <1>7, <1>8

(* The publication fails: directories stay as they are. *)
LEMMA MergePublishFailsInv ==
    ASSUME IInv, MergePublishFails
    PROVE  IInv'
<1> USE DEF IInv, MergePublishFails, memory, disk, clients, merge, MergeGoto, Fail
<1>a. infos \in Seq(Part) /\ p1 \in Part /\ p2 \in Part /\ p1 # p2
      /\ p2 \in 1..(next - 1)
  BY Bounds DEF TypeOK, MergeInv, Chosen, Moving, Part
<1>b. Forget(infos, p1) \in Seq(Part)
      /\ Members(Forget(infos, p1)) \subseteq Members(infos)
  BY <1>a, ForgetType
<1>c. Forget(Forget(infos, p1), p2) \in Seq(Part)
      /\ Members(Forget(Forget(infos, p1), p2)) \subseteq Members(infos)
  BY <1>a, <1>b, ForgetType
<1>1. TypeOK'
  BY <1>c, Bounds DEF TypeOK, MergePC
<1>2. LockInv'
  BY Bounds DEF LockInv, Writing, Moving, TypeOK
<1>3. NameInv'
  BY <1>c DEF NameInv
<1>4. FreshInv'
  BY Bounds DEF FreshInv, Writing, LockInv, NameInv, TypeOK, Moving
<1>5. MergeInv'
  BY Bounds DEF MergeInv, Chosen, Moving, LockInv, FreshInv, Writing, TypeOK
<1>6. ApartInv'
  BY Bounds DEF ApartInv, LockInv, Moving, Writing, MergeInv, EachInsertOnce, Chosen, TypeOK
<1>7. PromiseInv'
  BY Bounds DEF PromiseInv, Stands, TypeOK
<1>8. EachInsertOnce'
  BY Bounds DEF EachInsertOnce, ApartInv, MergeInv, Chosen, TypeOK
<1>9. QED
  BY <1>1, <1>2, <1>3, <1>4, <1>5, <1>6, <1>7, <1>8

(* What is removed is covered by the merged part. *)
LEMMA MergeRemove1Inv ==
    ASSUME IInv, MergeRemove1
    PROVE  IInv'
<1> USE DEF IInv, MergeRemove1, memory, disk, clients, merge, MergeGoto, RemoveOld, Fail, NoFail
<1>a. p2 \in Part /\ p1 \in Part /\ old[p1].covers \subseteq normal[p2].covers
  BY DEF MergeInv, Chosen, Moving
<1>b. \/ old' = old
      \/ \A n \in Part : old'[n] = IF n = p1 THEN Absent ELSE old[n]
  BY <1>a DEF TypeOK
<1>c. Absent.covers = {} /\ normal' = normal
  BY DEF Absent
<1>d. oldDirs' = oldDirs \/ (oldDirs' = oldDirs \ {p1} /\ old'[p1] = Absent)
  BY <1>a DEF TypeOK
<1>1. TypeOK'
  BY <1>a, Bounds, AbsentType DEF TypeOK, MergePC
<1>2. LockInv'
  BY Bounds DEF LockInv, Writing, Moving, TypeOK
<1>3. NameInv'
  BY <1>a, <1>b, <1>c, <1>d DEF NameInv
<1>4. FreshInv'
  BY Bounds DEF FreshInv, Writing, LockInv, NameInv, TypeOK, Moving
<1>5. MergeInv'
  BY Bounds DEF MergeInv, Chosen, Moving, LockInv, FreshInv, Writing, TypeOK
<1>6. ApartInv'
  BY Bounds DEF ApartInv, LockInv, Moving, Writing, MergeInv, EachInsertOnce, Chosen, TypeOK
<1>7. PromiseInv'
  <2>1. \A n : Stands(n) => Stands(n)'
    BY <1>a, <1>b, <1>c DEF Stands
  <2>2. QED
    BY <2>1 DEF PromiseInv
<1>8. EachInsertOnce'
  BY Bounds DEF EachInsertOnce, ApartInv, MergeInv, Chosen, TypeOK
<1>9. QED
  BY <1>1, <1>2, <1>3, <1>4, <1>5, <1>6, <1>7, <1>8

(* What is removed is covered by the merged part. *)
LEMMA MergeRemove2Inv ==
    ASSUME IInv, MergeRemove2
    PROVE  IInv'
<1> USE DEF IInv, MergeRemove2, memory, disk, clients, merge, MergeGoto, RemoveOld, Fail, NoFail, MergeRestart
<1>a. p2 \in Part /\ p2 \in Part /\ old[p2].covers \subseteq normal[p2].covers
  BY DEF MergeInv, Chosen, Moving
<1>b. \/ old' = old
      \/ \A n \in Part : old'[n] = IF n = p2 THEN Absent ELSE old[n]
  BY <1>a DEF TypeOK
<1>c. Absent.covers = {} /\ normal' = normal
  BY DEF Absent
<1>d. oldDirs' = oldDirs \/ (oldDirs' = oldDirs \ {p2} /\ old'[p2] = Absent)
  BY <1>a DEF TypeOK
<1>1. TypeOK'
  BY <1>a, Bounds, AbsentType DEF TypeOK, MergePC
<1>2. LockInv'
  BY Bounds DEF LockInv, Writing, Moving, TypeOK
<1>3. NameInv'
  BY <1>a, <1>b, <1>c, <1>d DEF NameInv
<1>4. FreshInv'
  BY Bounds DEF FreshInv, Writing, LockInv, NameInv, TypeOK, Moving
<1>5. MergeInv'
  BY Bounds DEF MergeInv, Chosen, Moving, LockInv, FreshInv, Writing, TypeOK
<1>6. ApartInv'
  BY Bounds DEF ApartInv, LockInv, Moving, Writing, MergeInv, EachInsertOnce, Chosen, TypeOK
<1>7. PromiseInv'
  <2>1. \A n : Stands(n) => Stands(n)'
    BY <1>a, <1>b, <1>c DEF Stands
  <2>2. QED
    BY <2>1 DEF PromiseInv
<1>8. EachInsertOnce'
  BY Bounds DEF EachInsertOnce, ApartInv, MergeInv, Chosen, TypeOK
<1>9. QED
  BY <1>1, <1>2, <1>3, <1>4, <1>5, <1>6, <1>7, <1>8

(* A crash empties memory, and at most a directory that was being removed. *)
LEMMA CrashInv ==
    ASSUME IInv, Crash
    PROVE  IInv'
<1> USE DEF IInv, Crash, memory, disk, clients, merge, MergeRestart, MergeGoto
<1>a. \/ old' = old
      \/ /\ mpc = "remove1" /\ p1 \in Part /\ p2 \in Part
         /\ old[p1].covers \subseteq normal[p2].covers
         /\ \A n \in Part : old'[n] = IF n = p1 THEN Absent ELSE old[n]
      \/ /\ mpc = "remove2" /\ p2 \in Part
         /\ old[p2].covers \subseteq normal[p2].covers
         /\ \A n \in Part : old'[n] = IF n = p2 THEN Absent ELSE old[n]
  BY DEF MergeInv, Chosen, Moving, TypeOK
<1>b. Absent.covers = {} /\ normal' = normal
  BY DEF Absent
<1>c. old' \in [Part -> PartDir]
  BY AbsentType DEF TypeOK
<1>d. next \in Nat \ {0}
  BY Bounds DEF TypeOK
<1>e. /\ up' = FALSE /\ infos' = <<>> /\ writer' = NoOne /\ readers' = {}
      /\ pc' = [x \in Client |-> "idle"] /\ mpc' = "idle"
      /\ p1' = 0 /\ p2' = 0 /\ merged' = Absent
      /\ next' = next /\ oldDirs' = oldDirs /\ acked' = acked
  OBVIOUS
<1>f. /\ cur' = [x \in Client |-> 0] /\ at' = [x \in Client |-> 0]
      /\ want' = [x \in Client |-> {}] /\ seen' = [x \in Client |-> {}]
      /\ failed' = failed /\ raw' = raw /\ faults' = faults
      /\ crashes' \in 0..MaxCrashes
  BY Bounds DEF TypeOK
<1>1. TypeOK'
  <2>1. /\ up' \in BOOLEAN /\ infos' \in Seq(Part)
        /\ writer' \in Client \cup {NoOne, Merger} /\ readers' \subseteq Client
    BY <1>e, EmptySeq
  <2>2. normal' \in [Part -> PartDir] /\ raw' \in [Part -> PartDir]
        /\ oldDirs' \subseteq Part /\ next' \in 1..(MaxInserts + 1)
        /\ acked' \subseteq Part /\ failed' \subseteq Part
        /\ faults' \in 0..MaxFaults
    BY <1>b, <1>e, <1>f DEF TypeOK
  <2>3. /\ pc' \in [Client -> ClientPC] /\ cur' \in [Client -> Part \cup {0}]
        /\ want' \in [Client -> SUBSET Part] /\ seen' \in [Client -> SUBSET Part]
        /\ at' \in [Client -> Part \cup {0}]
    BY <1>e, <1>f DEF ClientPC
  <2>4. mpc' \in MergePC /\ merged' \in PartDir
        /\ p1' \in Part \cup {0} /\ p2' \in Part \cup {0}
    BY <1>e, AbsentType DEF MergePC
  <2>5. QED
    BY <1>c, <1>f, <2>1, <2>2, <2>3, <2>4 DEF TypeOK
<1>2. LockInv'
  BY <1>e, Bounds DEF LockInv, Writing, Moving
<1>3. NameInv'
  BY <1>a, <1>b, <1>d, <1>e DEF NameInv, Members
<1>4. FreshInv'
  BY Bounds DEF FreshInv, Writing, LockInv, NameInv, TypeOK, Moving
<1>5. MergeInv'
  BY <1>d, <1>e DEF MergeInv, Chosen, Moving
<1>6. ApartInv'
  BY <1>e DEF ApartInv
<1>7. PromiseInv'
  <2>1. \A n : Stands(n) => Stands(n)'
    BY <1>a, <1>b DEF Stands
  <2>2. QED
    BY <1>e, <2>1 DEF PromiseInv
<1>8. EachInsertOnce'
  BY Bounds DEF EachInsertOnce, ApartInv, MergeInv, Chosen, TypeOK
<1>9. QED
  BY <1>1, <1>2, <1>3, <1>4, <1>5, <1>6, <1>7, <1>8

(* A restart lists live directories only. *)
LEMMA RestartInv ==
    ASSUME IInv, Restart
    PROVE  IInv'
<1> USE DEF IInv, Restart, memory, disk, clients, merge, Fail, NoFail
<1>a. infos' \in Seq(Live)
  <2>1. \A S \in SUBSET Live : \A s \in Orderings(S) : s \in Seq(Live)
    <3> TAKE S \in SUBSET Live
    <3>1. Cardinality(S) \in Nat
      <4>1. IsFiniteSet(Part)
        BY Bounds, FS_Interval DEF Part
      <4>2. IsFiniteSet(S)
        BY <4>1, FS_Subset DEF Live
      <4>3. QED
        BY <4>2, FS_CardinalityType
    <3>2. QED
      BY <3>1 DEF Orderings
  <2>2. QED
    BY <2>1
<1>b. \A n \in Live : n \in Part /\ n \in 1..(next - 1)
  BY Bounds DEF Live, NameInv, TypeOK, Part
<1>c. infos' \in Seq(Part) /\ Members(infos') \subseteq 1..(next - 1)
  BY <1>a, <1>b, MembersType, SeqMonotonic
<1>1. TypeOK'
  BY <1>c, Bounds, AbsentType DEF TypeOK
<1>2. LockInv'
  BY Bounds DEF LockInv, Writing, Moving, TypeOK
<1>3. NameInv'
  BY <1>c DEF NameInv
<1>4. FreshInv'
  BY Bounds DEF FreshInv, Writing, LockInv, NameInv, TypeOK, Moving
<1>5. MergeInv'
  BY Bounds DEF MergeInv, Chosen, Moving, LockInv, FreshInv, Writing, TypeOK
<1>6. ApartInv'
  BY Bounds DEF ApartInv, LockInv, Moving, Writing, MergeInv, EachInsertOnce, Chosen, TypeOK
<1>7. PromiseInv'
  BY Bounds DEF PromiseInv, Stands, TypeOK
<1>8. EachInsertOnce'
  BY Bounds DEF EachInsertOnce, ApartInv, MergeInv, Chosen, TypeOK
<1>9. QED
  BY <1>1, <1>2, <1>3, <1>4, <1>5, <1>6, <1>7, <1>8

-----------------------------------------------------------------------------
(* The invariant *)

(* The empty table satisfies it. *)
LEMMA InitInv == Init => IInv
<1> SUFFICES ASSUME Init PROVE IInv
  OBVIOUS
<1> USE DEF Init
<1>1. TypeOK
  BY Bounds, AbsentType, EmptySeq DEF TypeOK, ClientPC, MergePC
<1>2. LockInv
  BY Bounds DEF LockInv, Writing, Moving
<1>3. NameInv
  BY DEF NameInv, Members, Absent
<1>4. FreshInv /\ PromiseInv
  BY DEF FreshInv, Writing, PromiseInv
<1>5. MergeInv /\ ApartInv
  BY DEF MergeInv, ApartInv, Chosen, Moving
<1>6. EachInsertOnce
  BY DEF EachInsertOnce, Absent
<1>7. QED
  BY <1>1, <1>2, <1>3, <1>4, <1>5, <1>6 DEF IInv

(* Every step preserves it. *)
LEMMA NextInv == IInv /\ [Next]_vars => IInv'
<1> SUFFICES ASSUME IInv, [Next]_vars PROVE IInv'
  OBVIOUS
<1>1. ASSUME NEW c \in Client, Insert(c) PROVE IInv'
  BY <1>1, InsertIssueInv, InsertLockInv, InsertSaveInv, InsertSaveFailsInv,
     InsertPublishInv, InsertPublishFailsInv, InsertAckInv DEF Insert
<1>2. ASSUME NEW c \in Client, Select(c) PROVE IInv'
  BY <1>2, SelectIssueInv, SelectLockInv, SelectReadInv, SelectEndInv,
     SelectReadFailsInv DEF Select
<1>3. ASSUME Merge PROVE IInv'
  BY <1>3, MergeGateInv, MergeFindInv, MergeLoadInv, MergeLoadFailsInv,
     MergeLoadPanicsInv, MergeSaveInv, MergeLockInv, MergeRename1Inv,
     MergeRename1FailsInv, MergeRename2Inv, MergeRename2FailsInv, MergeUndoInv,
     MergePublishInv, MergePublishFailsInv, MergeRemove1Inv, MergeRemove2Inv
     DEF Merge
<1>4. CASE UNCHANGED vars
  BY <1>4, SMTT(20) DEF vars, memory, disk, clients, merge, IInv, TypeOK, LockInv, Writing,
     NameInv, FreshInv, MergeInv, ApartInv, PromiseInv, Stands, EachInsertOnce
<1>5. QED
  BY <1>1, <1>2, <1>3, <1>4, CrashInv, RestartInv DEF Next

(* The invariant holds in every reachable state. *)
THEOREM Invariance == Spec => []IInv
BY InitInv, NextInv, PTL DEF Spec

-----------------------------------------------------------------------------
(* The results *)

(* Type correctness, for every instance. *)
THEOREM TypeCorrect == Spec => []TypeOK
<1>1. IInv => TypeOK
  BY DEF IInv
<1>2. QED
  BY <1>1, Invariance, PTL

(* An INSERT that was acknowledged keeps a complete directory on disk, as  *)
(* a part or as a `.old` part, through merges, failing calls and crashes.  *)
THEOREM AcknowledgedStaysOnDisk == Spec => []AckedCovered
<1>1. IInv => AckedCovered
  BY DEF IInv, PromiseInv, Stands, AckedCovered, Covered
<1>2. QED
  BY <1>1, Invariance, PTL

(* No two part directories ever stand for the same INSERT, whatever merge  *)
(* was cut short by a failing call or a crash.                             *)
THEOREM NoInsertTwice == Spec => []EachInsertOnce
<1>1. IInv => EachInsertOnce
  BY DEF IInv
<1>2. QED
  BY <1>1, Invariance, PTL

(* The content of a `.old` directory disappears only when a part stands    *)
(* for all of it: after the merged part is published, or renamed back.     *)
THEOREM OldKeptUntilReplaced == Spec => OldRemovedOnlyWhenReplaced
<1> DEFINE A == \A n \in Part : old[n] # Absent /\ old'[n] = Absent =>
                   old[n].covers \subseteq Covered(normal')
<1>1. IInv /\ [Next]_vars => [A]_vars
  <2> SUFFICES ASSUME IInv, Next,
                      NEW n \in Part, old[n] # Absent, old'[n] = Absent
               PROVE  old[n].covers \subseteq Covered(normal')
    OBVIOUS
  <2>1. CASE old' = old
    BY <2>1
  <2>2. CASE MergeRename1 \/ MergeRename2
    <3>1. \A m \in Part : m \in Live => normal[m] # Absent
      BY DEF Live
    <3>2. QED
      BY <2>2, <3>1 DEF MergeRename1, MergeRename2, CanShelve, Shelve, IInv,
         TypeOK, Live
  <2>3. CASE MergeUndo
    <3>1. p1 \in Part /\ old \in [Part -> PartDir] /\ normal \in [Part -> PartDir]
      BY <2>3 DEF MergeUndo, IInv, TypeOK, MergeInv, Chosen, Moving
    <3>2. n = p1 /\ normal'[n] = old[n]
      BY <2>3, <3>1 DEF MergeUndo
    <3>3. QED
      BY <3>2 DEF Covered
  <2>4. CASE MergeRemove1 \/ MergeRemove2 \/ Crash
    <3>1. /\ normal' = normal
          /\ \/ mpc = "remove1" /\ old' = [old EXCEPT ![p1] = Absent]
             \/ mpc = "remove2" /\ old' = [old EXCEPT ![p2] = Absent]
             \/ old' = old
      BY <2>4 DEF MergeRemove1, MergeRemove2, RemoveOld, Crash, disk
    <3>2. \/ p2 \in Part /\ old[n].covers \subseteq normal[p2].covers
          \/ old' = old
      BY <3>1 DEF IInv, TypeOK, MergeInv, Chosen, Moving
    <3>3. QED
      BY <3>1, <3>2 DEF Covered
  <2>5. QED
    <3>1. ASSUME NEW c \in Client, Insert(c) \/ Select(c) PROVE old' = old
      BY <3>1 DEF Insert, Select, disk, InsertIssue, InsertLock, InsertSave,
         InsertSaveFails, InsertPublish, InsertPublishFails, InsertAck,
         SelectIssue, SelectLock, SelectRead, SelectEnd, SelectReadFails
    <3>2. ASSUME Merge PROVE \/ old' = old \/ MergeRename1 \/ MergeRename2
                              \/ MergeUndo \/ MergeRemove1 \/ MergeRemove2
      BY <3>2 DEF Merge, disk, MergeGate, MergeFind, MergeLoad, MergeLoadFails,
         MergeLoadPanics, MergeSave, MergeLock, MergeRename1Fails,
         MergeRename2Fails, MergePublish, MergePublishFails
    <3>3. Restart => old' = old
      BY DEF Restart
    <3>4. QED
      BY <2>1, <2>2, <2>3, <2>4, <3>1, <3>2, <3>3 DEF Next
<1>2. QED
  BY <1>1, Invariance, PTL DEF Spec, OldRemovedOnlyWhenReplaced

-----------------------------------------------------------------------------
(***************************************************************************)
(* What parts the table consists of, for every number of clients, INSERTs  *)
(* and crashes.  An INSERT that answered an error is in none of them.  The *)
(* list in memory names the directories on disk, and merging keeps the     *)
(* parts in the order of their INSERTs, for every failing call but the two *)
(* that are answered by a log line only: a rename back that fails, and a   *)
(* part that cannot be read when the server starts.                        *)
(***************************************************************************)

-----------------------------------------------------------------------------
(* Failed INSERTs *)

(* INSERTs that are no longer being written and did not fail: answered     *)
(* with success, about to be, or cut off by a crash.                       *)
Settled ==
    {n \in Part : /\ n < next /\ n \notin failed
                  /\ \A c \in Client : Writing(c) => cur[c] # n}

(* A directory stands for INSERTs of S, and holds rows of such only. *)
Within(d, S) ==
    d.covers \subseteq S /\ \A r \in Members(d.rows) : r[1] \in S

FailedInv ==
    /\ failed \subseteq 1..(next - 1)
    /\ \A c \in Client : Writing(c) => cur[c] \notin failed

(* Directories that a reader, a merge or a restart may find hold only      *)
(* settled INSERTs, and so does the raw directory about to be published.   *)
VisibleInv ==
    /\ FailedInv
    /\ \A n \in Part : Within(normal[n], Settled) /\ Within(old[n], Settled)
    /\ Within(merged, Settled)
    /\ mpc \in {"lock", "rename1", "rename2", "publish"} => Within(raw[p2], Settled)

-----------------------------------------------------------------------------
(* Directories *)

LEMMA AbsentWithin == \A S : Within(Absent, S)
BY EmptySeq DEF Within, Absent, Members

LEMMA WithinMore ==
    ASSUME NEW S, NEW T, S \subseteq T
    PROVE  \A d : Within(d, S) => Within(d, T)
BY DEF Within

LEMMA FreshWithin ==
    ASSUME NEW S, NEW n \in Part, n \in S
    PROVE  Within(Fresh(n), S)
<1>1. RowCount[n] \in Nat
  BY PartStoreAssumption
<1>2. \A r \in Members(Fresh(n).rows) : r[1] = n
  <2>1. Fresh(n).rows = [i \in 1..RowCount[n] |-> <<n, i>>]
    BY DEF Fresh
  <2>2. QED
    BY <2>1 DEF Members
<1>3. Fresh(n).covers = {n}
  BY FreshType
<1>4. QED
  BY <1>2, <1>3 DEF Within

(* A granule holds rows of its part. *)
LEMMA SubSeqMembers ==
    ASSUME NEW R, NEW s \in Seq(R), NEW m \in Int, NEW n \in Int,
           m >= 1, n <= Len(s)
    PROVE  Members(SubSeq(s, m, n)) \subseteq Members(s)
<1>1. CASE m <= n
  <2>1. /\ Len(SubSeq(s, m, n)) = n - m + 1
        /\ \A i \in 1..(n - m + 1) : SubSeq(s, m, n)[i] = s[m + i - 1]
    BY <1>1
  <2>2. \A i \in 1..(n - m + 1) : m + i - 1 \in 1..Len(s)
    BY <1>1
  <2>3. SubSeq(s, m, n) \in Seq(R)
    BY SubSeqType
  <2>4. QED
    BY <2>1, <2>2, <2>3 DEF Members
<1>2. CASE m > n
  BY <1>2, SubSeqEmpty, EmptySeq DEF Members
<1>3. QED
  BY <1>1, <1>2

LEMMA GranuleMembers ==
    ASSUME NEW R, NEW rows \in Seq(R), Len(rows) > 0, NEW k \in {1, MarkCount(rows)}
    PROVE  Members(Granule(rows, k)) \subseteq Members(rows)
<1> DEFINE m == k * Granularity - Granularity + 1
           n == IF k * Granularity <= Len(rows) THEN k * Granularity ELSE Len(rows)
<1>1. Granularity \in Nat \ {0} /\ k \in Nat \ {0}
  BY GranularityAssumption, MarkCountType
<1>2. k * Granularity \in Nat /\ k * Granularity >= Granularity
  BY <1>1
<1>3. m \in Int /\ n \in Int /\ m >= 1 /\ n <= Len(rows)
  BY <1>1, <1>2
<1>4. Granule(rows, k) = SubSeq(rows, m, n)
  BY DEF Granule
<1> HIDE DEF m, n
<1>5. QED
  BY <1>3, <1>4, SubSeqMembers

LEMMA ConcatMembers ==
    ASSUME NEW R, NEW s \in Seq(R), NEW t \in Seq(R)
    PROVE  Members(s \o t) \subseteq Members(s) \cup Members(t)
<1>1. /\ s \o t \in Seq(R) /\ Len(s \o t) = Len(s) + Len(t)
      /\ \A i \in 1..(Len(s) + Len(t)) :
            (s \o t)[i] = IF i <= Len(s) THEN s[i] ELSE t[i - Len(s)]
  BY ConcatProperties
<1>2. \A i \in 1..(Len(s) + Len(t)) : i > Len(s) => i - Len(s) \in 1..Len(t)
  OBVIOUS
<1>3. QED
  BY <1>1, <1>2 DEF Members

(* A merge reads rows of its source and of the part listed behind it. *)
LEMMA MergeReadMembers ==
    ASSUME NEW list \in Seq(Part), NEW rowsOf \in [Part -> Seq(Row)],
           NEW p \in Part, Len(rowsOf[p]) > 0,
           \A q \in After(list, p) : Len(rowsOf[q]) > 0
    PROVE  \A r \in Members(MergeRead(list, rowsOf, p)) :
              \E q \in {p} \cup After(list, p) : r \in Members(rowsOf[q])
<1> DEFINE a == SubSeq(rowsOf[p], Granularity + 1, Len(rowsOf[p]))
           q == CHOOSE r \in After(list, p) : TRUE
           b == IF After(list, p) = {}
                THEN Granule(rowsOf[p], MarkCount(rowsOf[p]))
                ELSE Granule(rowsOf[q], 1)
<1>1. a \in Seq(Row) /\ Members(a) \subseteq Members(rowsOf[p])
  <2>1. /\ rowsOf[p] \in Seq(Row) /\ Len(rowsOf[p]) \in Int
        /\ Granularity + 1 \in Int /\ Granularity + 1 >= 1
    BY GranularityAssumption
  <2>2. QED
    BY <2>1, SubSeqType, SubSeqMembers
<1>2. /\ b \in Seq(Row)
      /\ \A r \in Members(b) : \E x \in {p} \cup After(list, p) : r \in Members(rowsOf[x])
  <2>1. CASE After(list, p) = {}
    BY <2>1, GranuleType, GranuleMembers
  <2>2. CASE After(list, p) # {}
    <3>1. q \in After(list, p)
      BY <2>2
    <3>2. q \in Part
      BY <3>1, AfterType, MembersType
    <3> HIDE DEF q
    <3>3. /\ Granule(rowsOf[q], 1) \in Seq(Row)
          /\ Members(Granule(rowsOf[q], 1)) \subseteq Members(rowsOf[q])
      BY <3>1, <3>2, GranuleType, GranuleMembers
    <3>4. QED
      BY <2>2, <3>1, <3>3
  <2>3. QED
    BY <2>1, <2>2
<1>3. MergeRead(list, rowsOf, p) = a \o b
  BY DEF MergeRead
<1> HIDE DEF a, b
<1>4. QED
  BY <1>1, <1>2, <1>3, ConcatMembers

-----------------------------------------------------------------------------
(* Steps *)

(* How a step of a client changes what is written and what failed. *)
LEMMA WritingSteps ==
    ASSUME IInv, Next
    PROVE  \/ \E c \in Client : InsertLock(c)
           \/ \E c \in Client : InsertSaveFails(c) \/ InsertPublishFails(c)
           \/ /\ next' = next /\ failed' = failed
              /\ \A c \in Client : Writing(c)' => Writing(c) /\ cur'[c] = cur[c]
<1> DEFINE Quiet1 == /\ next' = next /\ failed' = failed
                     /\ \A c \in Client : Writing(c)' => Writing(c) /\ cur'[c] = cur[c]
<1>0. pc \in [Client -> ClientPC] /\ cur \in [Client -> Part \cup {0}]
  BY DEF IInv, TypeOK
<1>1. ASSUME NEW c \in Client,
             InsertIssue(c) \/ InsertSave(c) \/ InsertPublish(c) \/ InsertAck(c)
      PROVE  Quiet1
  BY <1>0, <1>1 DEF InsertIssue, InsertSave, InsertPublish, InsertAck, Goto, Writing
<1>2. ASSUME NEW c \in Client, Select(c) PROVE Quiet1
  BY <1>0, <1>2 DEF Select, SelectIssue, SelectLock, SelectRead, SelectEnd,
     SelectReadFails, SelectLeave, Goto, Writing
<1>3. ASSUME Merge \/ Restart PROVE clients' = clients
  BY <1>3 DEF Merge, Restart, MergeGate, MergeFind, MergeLoad, MergeLoadFails,
     MergeLoadPanics, MergeSave, MergeLock, MergeRename1, MergeRename1Fails,
     MergeRename2, MergeRename2Fails, MergeUndo, MergePublish, MergePublishFails,
     MergeRemove1, MergeRemove2
<1>4. clients' = clients => Quiet1
  BY DEF clients, Writing
<1>5. Crash => Quiet1
  BY DEF Crash, Writing
<1>6. QED
  BY <1>1, <1>2, <1>3, <1>4, <1>5 DEF Next, Insert

(* An INSERT that is settled stays so. *)
LEMMA SettledGrows ==
    ASSUME IInv, Next
    PROVE  Settled \subseteq Settled'
<1>0. /\ pc \in [Client -> ClientPC] /\ cur \in [Client -> Part \cup {0}]
      /\ next \in Nat /\ Part \subseteq Nat
  BY Bounds DEF IInv, TypeOK, Part
<1>1. ASSUME NEW c \in Client, InsertLock(c) PROVE Settled \subseteq Settled'
  <2>1. /\ next' = next + 1 /\ failed' = failed
        /\ \A d \in Client :
              Writing(d)' => cur'[d] = next \/ (Writing(d) /\ cur'[d] = cur[d])
    BY <1>0, <1>1 DEF InsertLock, Goto, Writing
  <2>2. QED
    <3> SUFFICES ASSUME NEW n \in Settled PROVE n \in Settled'
      OBVIOUS
    <3>1. n \in Part /\ n < next /\ n \notin failed
          /\ \A d \in Client : Writing(d) => cur[d] # n
      BY DEF Settled
    <3>2. n < next' /\ \A d \in Client : Writing(d)' => cur'[d] # n
      BY <1>0, <2>1, <3>1
    <3>3. QED
      BY <2>1, <3>1, <3>2 DEF Settled
<1>2. ASSUME NEW c \in Client, InsertSaveFails(c) \/ InsertPublishFails(c)
      PROVE  Settled \subseteq Settled'
  BY <1>0, <1>2 DEF InsertSaveFails, InsertPublishFails, Goto, Writing, Settled
<1>3. QED
  BY <1>1, <1>2, WritingSteps DEF Settled

(* Only a part being written fails, and it fails once. *)
LEMMA FailedInvStep ==
    ASSUME IInv, FailedInv, Next
    PROVE  FailedInv'
<1>0. /\ pc \in [Client -> ClientPC] /\ cur \in [Client -> Part \cup {0}]
      /\ next \in Nat \ {0}
  BY Bounds DEF IInv, TypeOK
<1>1. ASSUME NEW c \in Client, InsertLock(c) PROVE FailedInv'
  BY <1>0, <1>1 DEF InsertLock, Goto, Writing, FailedInv
<1>2. ASSUME NEW c \in Client, InsertSaveFails(c) \/ InsertPublishFails(c)
      PROVE  FailedInv'
  <2>1. Writing(c) /\ cur[c] \in 1..(next - 1) /\ next' = next
        /\ failed' = failed \cup {cur[c]}
        /\ \A d \in Client : Writing(d)' => d # c /\ Writing(d)
    BY <1>0, <1>2 DEF InsertSaveFails, InsertPublishFails, Goto, Writing, IInv, FreshInv
  <2>2. \A d \in Client : Writing(d) => d = c
    BY <2>1 DEF IInv, LockInv
  <2>3. QED
    BY <2>1, <2>2 DEF FailedInv
<1>3. QED
  BY <1>1, <1>2, WritingSteps DEF FailedInv

(* The part directories. *)
LEMMA NormalVisible ==
    ASSUME IInv, VisibleInv, Next
    PROVE  \A n \in Part : Within(normal'[n], Settled')
<1>0. \A d : Within(d, Settled) => Within(d, Settled')
  BY SettledGrows, WithinMore
<1>a. normal \in [Part -> PartDir]
  BY DEF IInv, TypeOK
<1>1. ASSUME NEW c \in Client, InsertPublish(c)
      PROVE  \A n \in Part : Within(normal'[n], Settled')
  <2>1. /\ pc[c] = "publish" /\ Writing(c) /\ cur[c] \in Part /\ cur[c] < next
        /\ raw[cur[c]] = Fresh(cur[c])
    BY <1>1, Bounds DEF InsertPublish, Writing, IInv, FreshInv, TypeOK
  <2>2. /\ normal' = [normal EXCEPT ![cur[c]] = Fresh(cur[c])]
        /\ pc' = [pc EXCEPT ![c] = "done"]
        /\ next' = next /\ failed' = failed /\ cur' = cur
    BY <1>1, <2>1 DEF InsertPublish, Goto
  <2>3. \A d \in Client : Writing(d)' => FALSE
    BY <2>1, <2>2 DEF Writing, IInv, LockInv, TypeOK
  <2>4. cur[c] \in Settled'
    BY <2>1, <2>2, <2>3 DEF Settled, VisibleInv, FailedInv
  <2>5. Within(Fresh(cur[c]), Settled')
    BY <2>1, <2>4, FreshWithin
  <2>6. QED
    BY <1>0, <1>a, <2>1, <2>2, <2>5 DEF VisibleInv
<1>2. CASE MergeRename1 \/ MergeRename2
  <2>1. \A n \in Part : normal'[n] = normal[n] \/ normal'[n] = Absent
    BY <1>2, <1>a DEF MergeRename1, MergeRename2, Shelve
  <2>2. QED
    BY <1>0, <2>1, AbsentWithin DEF VisibleInv
<1>3. CASE MergeUndo
  <2>1. /\ p1 \in Part
        /\ \A n \in Part : normal'[n] = normal[n] \/ normal'[n] = old[p1]
    BY <1>3, <1>a DEF MergeUndo, IInv, MergeInv, Chosen, Moving
  <2>2. QED
    BY <1>0, <2>1 DEF VisibleInv
<1>4. CASE MergePublish
  <2>1. /\ mpc = "publish"
        /\ \A n \in Part : normal'[n] = normal[n] \/ normal'[n] = raw[p2]
    BY <1>4, <1>a DEF MergePublish
  <2>2. QED
    BY <1>0, <2>1 DEF VisibleInv
<1>5. normal' = normal => \A n \in Part : Within(normal'[n], Settled')
  BY <1>0 DEF VisibleInv
<1>6. ASSUME NEW c \in Client, Insert(c) \/ Select(c)
      PROVE  InsertPublish(c) \/ normal' = normal
  BY <1>6 DEF Insert, Select, disk, InsertIssue, InsertLock, InsertSave,
     InsertSaveFails, InsertPublishFails, InsertAck,
     SelectIssue, SelectLock, SelectRead, SelectEnd, SelectReadFails
<1>7. ASSUME Merge
      PROVE  MergeRename1 \/ MergeRename2 \/ MergeUndo \/ MergePublish \/ normal' = normal
  BY <1>7 DEF Merge, disk, MergeGate, MergeFind, MergeLoad, MergeLoadFails,
     MergeLoadPanics, MergeSave, MergeLock, MergeRename1Fails,
     MergeRename2Fails, MergePublishFails, MergeRemove1, MergeRemove2
<1>8. Crash \/ Restart => normal' = normal
  BY DEF Crash, Restart
<1>9. QED
  BY <1>1, <1>2, <1>3, <1>4, <1>5, <1>6, <1>7, <1>8 DEF Next

(* The `.old` directories. *)
LEMMA OldVisible ==
    ASSUME IInv, VisibleInv, Next
    PROVE  \A n \in Part : Within(old'[n], Settled')
<1>0. \A d : Within(d, Settled) => Within(d, Settled')
  BY SettledGrows, WithinMore
<1>a. old \in [Part -> PartDir]
  BY DEF IInv, TypeOK
<1>1. CASE MergeRename1 \/ MergeRename2
  <2>1. /\ p1 \in Part /\ p2 \in Part
        /\ \A n \in Part : old'[n] \in {old[n], normal[p1], normal[p2]}
    BY <1>1, <1>a DEF MergeRename1, MergeRename2, Shelve, IInv, MergeInv, Chosen, Moving
  <2>2. QED
    BY <1>0, <2>1 DEF VisibleInv
<1>2. CASE MergeUndo \/ MergeRemove1 \/ MergeRemove2 \/ Crash
  <2>1. \A n \in Part : old'[n] = old[n] \/ old'[n] = Absent
    BY <1>2, <1>a DEF MergeUndo, MergeRemove1, MergeRemove2, RemoveOld, Crash
  <2>2. QED
    BY <1>0, <2>1, AbsentWithin DEF VisibleInv
<1>3. old' = old => \A n \in Part : Within(old'[n], Settled')
  BY <1>0 DEF VisibleInv
<1>4. ASSUME NEW c \in Client, Insert(c) \/ Select(c) PROVE old' = old
  BY <1>4 DEF Insert, Select, disk, InsertIssue, InsertLock, InsertSave,
     InsertSaveFails, InsertPublish, InsertPublishFails, InsertAck,
     SelectIssue, SelectLock, SelectRead, SelectEnd, SelectReadFails
<1>5. ASSUME Merge
      PROVE  \/ MergeRename1 \/ MergeRename2 \/ MergeUndo
             \/ MergeRemove1 \/ MergeRemove2 \/ old' = old
  BY <1>5 DEF Merge, disk, MergeGate, MergeFind, MergeLoad, MergeLoadFails,
     MergeLoadPanics, MergeSave, MergeLock, MergeRename1Fails,
     MergeRename2Fails, MergePublish, MergePublishFails
<1>6. Restart => old' = old
  BY DEF Restart
<1>7. QED
  BY <1>1, <1>2, <1>3, <1>4, <1>5, <1>6 DEF Next

(* What the merge thread has loaded. *)
LEMMA MergedVisible ==
    ASSUME IInv, VisibleInv, Next
    PROVE  Within(merged', Settled')
<1>0. \A d : Within(d, Settled) => Within(d, Settled')
  BY SettledGrows, WithinMore
<1>1. CASE MergeLoad
  <2> DEFINE read == MergeRead(infos, RowsOf, Source)
  <2>1. /\ merged'.covers = merged.covers \cup normal[Source].covers
        /\ merged'.rows = merged.rows \o read
        /\ Opened \subseteq Live
    BY <1>1 DEF MergeLoad
  <2>2. Source \in Part /\ infos \in Seq(Part) /\ RowsOf \in [Part -> Seq(Row)]
        /\ merged.rows \in Seq(Row)
    BY <1>1 DEF MergeLoad, Source, IInv, MergeInv, Chosen, Moving, TypeOK, PartDir, RowsOf
  <2>3. \A q \in Opened : q \in Part /\ Len(RowsOf[q]) > 0
    BY <2>1, <2>2, EmptySeq DEF Live, RowsOf, IInv, NameInv
  <2>4. Opened = {Source} \cup After(infos, Source)
    BY DEF Opened
  <2>5. \A q \in Part : \A r \in Members(RowsOf[q]) : r[1] \in Settled
    BY DEF RowsOf, VisibleInv, Within
  <2> HIDE DEF Source, RowsOf
  <2>6. read \in Seq(Row)
        /\ \A r \in Members(read) : \E q \in Opened : r \in Members(RowsOf[q])
    <3>1. Len(RowsOf[Source]) > 0
          /\ \A q \in After(infos, Source) : Len(RowsOf[q]) > 0
      BY <2>3, <2>4
    <3>2. read \in Seq(Row)
      BY <2>2, <3>1, MergeReadType
    <3>3. \A r \in Members(read) :
             \E q \in {Source} \cup After(infos, Source) : r \in Members(RowsOf[q])
      BY <2>2, <3>1, MergeReadMembers
    <3>4. QED
      BY <2>4, <3>2, <3>3
  <2> HIDE DEF read
  <2>7. Members(merged.rows \o read) \subseteq Members(merged.rows) \cup Members(read)
    BY <2>2, <2>6, ConcatMembers
  <2>8. \A r \in Members(merged.rows) \cup Members(read) : r[1] \in Settled
    BY <2>3, <2>5, <2>6 DEF VisibleInv, Within
  <2>9. Within(merged', Settled)
    BY <2>1, <2>2, <2>7, <2>8 DEF VisibleInv, Within
  <2>10. QED
    BY <1>0, <2>9
<1>2. merged' = merged \/ merged' = Absent => Within(merged', Settled')
  BY <1>0, AbsentWithin DEF VisibleInv
<1>3. ASSUME NEW c \in Client, Insert(c) \/ Select(c) PROVE merged' = merged
  BY <1>3 DEF Insert, Select, merge, InsertIssue, InsertLock, InsertSave,
     InsertSaveFails, InsertPublish, InsertPublishFails, InsertAck,
     SelectIssue, SelectLock, SelectRead, SelectEnd, SelectReadFails
<1>4. ASSUME Merge PROVE MergeLoad \/ merged' = merged \/ merged' = Absent
  BY <1>4 DEF Merge, MergeRestart, MergeGate, MergeFind, MergeLoadFails,
     MergeLoadPanics, MergeSave, MergeLock, MergeRename1, MergeRename1Fails,
     MergeRename2, MergeRename2Fails, MergeUndo, MergePublish, MergePublishFails,
     MergeRemove1, MergeRemove2
<1>5. Crash \/ Restart => merged' = merged \/ merged' = Absent
  BY DEF Crash, Restart, MergeRestart, merge
<1>6. QED
  BY <1>1, <1>2, <1>3, <1>4, <1>5 DEF Next

(* What is about to be published. *)
LEMMA RawVisible ==
    ASSUME IInv, VisibleInv, Next,
           mpc' \in {"lock", "rename1", "rename2", "publish"}
    PROVE  Within(raw'[p2'], Settled')
<1>0. \A d : Within(d, Settled) => Within(d, Settled')
  BY SettledGrows, WithinMore
<1>a. raw \in [Part -> PartDir] /\ p2' = p2
      /\ mpc \in {"save", "lock", "rename1", "rename2", "publish"}
  <2>1. ASSUME NEW c \in Client, Insert(c) \/ Select(c) PROVE merge' = merge
    BY <2>1 DEF Insert, Select, InsertIssue, InsertLock, InsertSave,
       InsertSaveFails, InsertPublish, InsertPublishFails, InsertAck,
       SelectIssue, SelectLock, SelectRead, SelectEnd, SelectReadFails
  <2>2. ASSUME Merge
        PROVE  p2' = p2 /\ mpc \in {"save", "lock", "rename1", "rename2", "publish"}
    BY <2>2 DEF Merge, MergeRestart, MergeGoto, MergeGate, MergeFind, MergeLoad,
       MergeLoadFails, MergeLoadPanics, MergeSave, MergeLock, MergeRename1,
       MergeRename1Fails, MergeRename2, MergeRename2Fails, MergeUndo, MergePublish,
       MergePublishFails, MergeRemove1, MergeRemove2
  <2>3. ~Crash
    BY DEF Crash, MergeRestart, MergeGoto
  <2>4. Restart => merge' = merge
    BY DEF Restart
  <2>5. QED
    BY <2>1, <2>2, <2>3, <2>4 DEF Next, merge, IInv, TypeOK
<1>b. p2 \in Part
  BY <1>a DEF IInv, MergeInv, Chosen, Moving
<1>1. CASE MergeSave
  <2>1. raw'[p2] = merged
    BY <1>1, <1>a, <1>b DEF MergeSave, MergeRestart, MergeGoto
  <2>2. QED
    BY <1>0, <1>a, <2>1 DEF VisibleInv
<1>2. ASSUME NEW c \in Client, Insert(c) \/ Select(c)
      PROVE  raw'[p2] = raw[p2] /\ mpc' = mpc
  <2>1. Writing(c) => cur[c] # p2
    BY DEF IInv, FreshInv
  <2>2. QED
    BY <1>2, <1>a, <1>b, <2>1 DEF Insert, Select, disk, merge, Writing, InsertIssue,
       InsertLock, InsertSave, InsertSaveFails, InsertPublish, InsertPublishFails,
       InsertAck, SelectIssue, SelectLock, SelectRead, SelectEnd, SelectReadFails
<1>3. ASSUME Merge PROVE MergeSave \/ (raw' = raw /\ mpc # "save")
  BY <1>3, <1>a DEF Merge, MergeRestart, MergeGoto, disk, MergeGate, MergeFind, MergeLoad,
     MergeLoadFails, MergeLoadPanics, MergeLock, MergeRename1, MergeRename1Fails,
     MergeRename2, MergeRename2Fails, MergeUndo, MergePublish, MergePublishFails,
     MergeRemove1, MergeRemove2
<1>4. ~Crash /\ ~Restart
  <2>1. ~Crash
    BY DEF Crash, MergeRestart, MergeGoto
  <2>2. Restart => mpc = "idle"
    BY DEF Restart, IInv, LockInv
  <2>3. QED
    BY <1>a, <2>1, <2>2
<1>5. QED
  <2>1. CASE MergeSave
    BY <1>1, <2>1
  <2>2. CASE raw'[p2] = raw[p2] /\ mpc # "save"
    BY <1>0, <1>a, <2>2 DEF VisibleInv
  <2>3. QED
    BY <1>2, <1>3, <1>4, <1>a, <2>1, <2>2 DEF Next

LEMMA VisibleInit == Init => VisibleInv
<1> SUFFICES ASSUME Init PROVE VisibleInv
  OBVIOUS
<1>1. FailedInv /\ mpc = "idle" /\ merged = Absent
      /\ \A n \in Part : normal[n] = Absent /\ old[n] = Absent
  BY DEF Init, FailedInv, Writing
<1>2. QED
  BY <1>1, AbsentWithin DEF VisibleInv

LEMMA VisibleNext == IInv /\ VisibleInv /\ [Next]_vars => VisibleInv'
<1> SUFFICES ASSUME IInv, VisibleInv, [Next]_vars PROVE VisibleInv'
  OBVIOUS
<1>1. CASE Next
  <2>1. FailedInv'
    BY <1>1, FailedInvStep DEF VisibleInv
  <2>2. QED
    BY <1>1, <2>1, NormalVisible, OldVisible, MergedVisible, RawVisible DEF VisibleInv
<1>2. CASE UNCHANGED vars
  BY <1>2 DEF vars, disk, clients, merge, VisibleInv, FailedInv, Within, Settled, Writing
<1>3. QED
  BY <1>1, <1>2

(* An INSERT that answered an error shows up in no part directory, neither *)
(* at once nor through a later merge or a restart                          *)
(* (move_to_normal, src/src/storage/table_part.rs:325).                    *)
THEOREM FailedStaysInvisible == Spec => []FailedNeverVisible
<1>1. VisibleInv => FailedNeverVisible
  BY DEF VisibleInv, Within, Settled, FailedNeverVisible
<1>2. QED
  BY <1>1, VisibleInit, VisibleNext, Invariance, PTL DEF Spec

-----------------------------------------------------------------------------
(* The list and its order *)

MemoryKept == "undo" \notin Faults /\ "skip" \notin Faults

(* Parts that are listed while their directory is a `.old` one. *)
Shelved == IF mpc \in {"rename2", "undo"} THEN {p1}
           ELSE IF mpc = "publish" THEN {p1, p2} ELSE {}

ListInv == up => Members(infos) = Live \cup Shelved /\ Distinct(infos)

(* A directory d named p holds nothing from after the millisecond of that  *)
(* name, and is older than every part of S that has a later one.           *)
OlderThan(p, d, S) ==
    /\ \A a \in d.covers : Stamp[a] <= Stamp[p]
    /\ \A r \in S : Stamp[p] < Stamp[r] =>
          \A a \in d.covers, b \in normal[r].covers : Stamp[a] < Stamp[b]

(* The merged parts come first by their milliseconds, wherever they are. *)
AgeInv ==
    /\ \A m \in Live : OlderThan(m, normal[m], Live)
    /\ \A c \in Client : Writing(c) => cur[c] = next - 1
    /\ mpc \in Chosen => /\ Stamp[p1] <= Stamp[p2]
                         /\ \A r \in Live \ {p1, p2} : Stamp[p2] <= Stamp[r]
    /\ mpc \in {"rename2", "undo", "publish"} => OlderThan(p1, old[p1], Live)
    /\ mpc = "publish" => OlderThan(p2, old[p2], Live)

-----------------------------------------------------------------------------
(* Lists of parts that name each part once *)

(* Forget takes the part away and leaves the others. *)
LEMMA ForgetExact ==
    ASSUME NEW S, NEW s \in Seq(S), NEW p, Distinct(s)
    PROVE  /\ Forget(s, p) \in Seq(S)
           /\ Members(Forget(s, p)) = Members(s) \ {p}
           /\ Distinct(Forget(s, p))
<1> DEFINE k == Position(s, p)
<1>1. CASE k = 0
  BY <1>1, PositionFound DEF Forget
<1>2. CASE k # 0
  <2> DEFINE t == Forget(s, p)
             a == SubSeq(s, 1, k - 1)
             b == SubSeq(s, k + 1, Len(s))
  <2>1. k \in 1..Len(s) /\ s[k] = p /\ \A i \in 1..Len(s) : s[i] = p => i = k
    BY <1>2, PositionFound, PositionType
  <2>2. a \in Seq(S) /\ Len(a) = k - 1 /\ \A j \in 1..(k - 1) : a[j] = s[j]
    BY <2>1
  <2>3. b \in Seq(S) /\ Len(b) = Len(s) - k
        /\ \A j \in 1..(Len(s) - k) : b[j] = s[k + j]
    BY <2>1
  <2>4. t = a \o b
    BY <1>2 DEF Forget
  <2> HIDE DEF a, b, t
  <2>5. /\ t \in Seq(S) /\ Len(t) = Len(s) - 1
        /\ \A j \in 1..(Len(s) - 1) :
              t[j] = IF j <= k - 1 THEN a[j] ELSE b[j - (k - 1)]
    <3>1. /\ a \o b \in Seq(S) /\ Len(a \o b) = Len(a) + Len(b)
          /\ \A j \in 1..(Len(a) + Len(b)) :
                (a \o b)[j] = IF j <= Len(a) THEN a[j] ELSE b[j - Len(a)]
      BY <2>2, <2>3, ConcatProperties
    <3>2. Len(a) = k - 1 /\ Len(a) + Len(b) = Len(s) - 1
      BY <2>1, <2>2, <2>3
    <3>3. QED
      BY <2>4, <3>1, <3>2
  <2>6. \A j \in 1..(Len(s) - 1) : t[j] = s[IF j <= k - 1 THEN j ELSE j + 1]
    <3> TAKE j \in 1..(Len(s) - 1)
    <3>1. CASE j <= k - 1
      BY <2>1, <2>2, <2>5, <3>1
    <3>2. CASE j > k - 1
      <4>1. j - (k - 1) \in 1..(Len(s) - k) /\ k + (j - (k - 1)) = j + 1
        BY <2>1, <3>2
      <4>2. t[j] = b[j - (k - 1)]
        BY <2>1, <2>5, <3>2
      <4>3. QED
        BY <2>1, <2>3, <3>2, <4>1, <4>2
    <3>3. QED
      BY <2>1, <3>1, <3>2
  <2>7. Members(t) \subseteq Members(s) \ {p}
    <3> SUFFICES ASSUME NEW j \in 1..(Len(s) - 1) PROVE t[j] \in Members(s) \ {p}
      BY <2>5 DEF Members
    <3>1. (IF j <= k - 1 THEN j ELSE j + 1) \in 1..Len(s) \ {k}
      BY <2>1
    <3> DEFINE i == IF j <= k - 1 THEN j ELSE j + 1
    <3>2. t[j] = s[i]
      BY <2>6
    <3> HIDE DEF i
    <3>3. i \in 1..Len(s) /\ i # k
      BY <3>1 DEF i
    <3>4. s[i] \in Members(s) /\ s[i] # p
      BY <2>1, <3>3 DEF Members
    <3>5. QED
      BY <3>2, <3>4
  <2>8. Members(s) \ {p} \subseteq Members(t)
    <3> SUFFICES ASSUME NEW i \in 1..Len(s), i # k PROVE s[i] \in Members(t)
      BY <2>1 DEF Members
    <3>1. CASE i < k
      <4>1. i \in 1..(Len(s) - 1) /\ i <= k - 1
        BY <2>1, <3>1
      <4>2. QED
        BY <2>5, <2>6, <4>1 DEF Members
    <3>2. CASE i > k
      <4>1. i - 1 \in 1..(Len(s) - 1) /\ ~(i - 1 <= k - 1) /\ (i - 1) + 1 = i
        BY <2>1, <3>2
      <4>2. t[i - 1] = s[i]
        BY <2>6, <4>1
      <4>3. QED
        BY <2>5, <4>1, <4>2 DEF Members
    <3>3. QED
      BY <2>1, <3>1, <3>2
  <2>9. Distinct(t)
    <3> SUFFICES ASSUME NEW i \in 1..(Len(s) - 1), NEW j \in 1..(Len(s) - 1), t[i] = t[j]
                 PROVE  i = j
      BY <2>5 DEF Distinct
    <3> DEFINE at1(x) == IF x <= k - 1 THEN x ELSE x + 1
    <3>1. at1(i) \in 1..Len(s) /\ at1(j) \in 1..Len(s)
      BY <2>1
    <3>2. s[at1(i)] = s[at1(j)]
      BY <2>6
    <3>3. at1(i) = at1(j)
      BY <3>1, <3>2 DEF Distinct
    <3>4. QED
      BY <2>1, <3>3
  <2>10. QED
    BY <2>5, <2>7, <2>8, <2>9 DEF t
<1>3. QED
  BY <1>1, <1>2

LEMMA AppendDistinct ==
    ASSUME NEW S, NEW s \in Seq(S), NEW n \in S, Distinct(s), n \notin Members(s)
    PROVE  Distinct(Append(s, n))
BY AppendProperties DEF Distinct, Members

(* What start-up lists is what it found, each part once. *)
LEMMA OrderingsList ==
    ASSUME NEW S \in SUBSET Part, NEW s \in Orderings(S)
    PROVE  s \in Seq(S) /\ Members(s) = S /\ Distinct(s)
<1>1. IsFiniteSet(S)
  <2>1. IsFiniteSet(Part)
    BY Bounds, FS_Interval DEF Part
  <2>2. QED
    BY <2>1, FS_Subset
<1>2. Cardinality(S) \in Nat
  BY <1>1, FS_CardinalityType
<1>3. /\ s \in [1..Cardinality(S) -> S]
      /\ \A i, j \in 1..Cardinality(S) : s[i] = s[j] => i = j
  BY DEF Orderings
<1>4. s \in Seq(S) /\ Distinct(s)
  BY <1>2, <1>3 DEF Distinct
<1>5. Members(s) = {s[i] : i \in 1..Cardinality(S)}
  BY <1>3 DEF Members
<1>6. s \in Injection(1..Cardinality(S), S)
  BY <1>3 DEF Injection, IsInjective
<1>7. s \in Surjection(1..Cardinality(S), S)
  BY <1>1, <1>2, <1>6, FS_Injection, FS_Interval
<1>8. Members(s) = S
  BY <1>3, <1>5, <1>7 DEF Surjection
<1>9. QED
  BY <1>4, <1>8

-----------------------------------------------------------------------------
(* The list *)

(* Steps that move no directory, change no list and shelve nothing. *)
LEMMA ListStays ==
    ASSUME ListInv, UNCHANGED <<up, infos, normal>>, Shelved' = Shelved
    PROVE  ListInv'
BY DEF ListInv, Live

(* What the steps do to the list and the directories. *)
LEMMA ListSteps ==
    ASSUME IInv, Next
    PROVE  \/ UNCHANGED <<up, infos, normal>> /\ Shelved' = Shelved
           \/ \E c \in Client : InsertPublish(c)
           \/ MergeRename1 \/ MergeRename2 \/ MergeUndo
           \/ MergePublish \/ MergePublishFails
           \/ Crash \/ Restart
<1> USE DEF memory, disk, merge
<1>1. ASSUME NEW c \in Client, Insert(c) \/ Select(c)
      PROVE  InsertPublish(c) \/ (UNCHANGED <<up, infos, normal>> /\ Shelved' = Shelved)
  BY <1>1 DEF Insert, Select, InsertIssue, InsertLock, InsertSave,
     InsertSaveFails, InsertPublishFails, InsertAck, Shelved,
     SelectIssue, SelectLock, SelectRead, SelectEnd, SelectReadFails, SelectLeave
<1>2. ASSUME Merge
      PROVE  \/ UNCHANGED <<up, infos, normal>> /\ Shelved' = Shelved
             \/ MergeRename1 \/ MergeRename2 \/ MergeUndo
             \/ MergePublish \/ MergePublishFails
  <2>1. CASE MergeRename2Fails
    BY <2>1 DEF MergeRename2Fails, MergeGoto, Shelved
  <2>2. CASE \/ MergeGate \/ MergeFind \/ MergeLoad \/ MergeLoadFails
             \/ MergeLoadPanics \/ MergeSave \/ MergeLock \/ MergeRename1Fails
             \/ MergeRemove1 \/ MergeRemove2
    <3>1. UNCHANGED <<up, infos, normal>>
      BY <2>2 DEF MergeGate, MergeFind, MergeLoad, MergeLoadFails, MergeLoadPanics,
         MergeSave, MergeLock, MergeRename1Fails, MergeRemove1, MergeRemove2
    <3>2. mpc \notin {"rename2", "undo", "publish"}
          /\ mpc' \notin {"rename2", "undo", "publish"}
      BY <2>2 DEF MergeGate, MergeFind, MergeLoad, MergeLoadFails, MergeLoadPanics,
         MergeSave, MergeLock, MergeRename1Fails, MergeRemove1, MergeRemove2,
         MergeGoto, MergeRestart
    <3>3. QED
      BY <3>1, <3>2 DEF Shelved
  <2>3. QED
    BY <1>2, <2>1, <2>2 DEF Merge
<1>3. QED
  BY <1>1, <1>2 DEF Next

(* What a merge holds while it moves. *)
LEMMA MovingFacts ==
    ASSUME IInv, mpc \in Moving
    PROVE  /\ p1 \in Part /\ p2 \in Part /\ p1 # p2 /\ p1 < next /\ p2 < next
           /\ infos \in Seq(Part) /\ normal \in [Part -> PartDir]
           /\ old \in [Part -> PartDir]
BY DEF IInv, TypeOK, MergeInv, Chosen

LEMMA ListNext ==
    ASSUME MemoryKept, IInv, ListInv, Next
    PROVE  ListInv'
<1>0. /\ infos \in Seq(Part) /\ normal \in [Part -> PartDir]
      /\ Live \subseteq Part
  BY DEF IInv, TypeOK, Live
<1>u. mpc # "idle" => up
  BY DEF IInv, LockInv
<1>1. ASSUME NEW c \in Client, InsertPublish(c) PROVE ListInv'
  <2>1. /\ cur[c] \in Part /\ normal[cur[c]] = Absent /\ writer = c
        /\ raw[cur[c]] = Fresh(cur[c])
    BY <1>1 DEF InsertPublish, Writing, IInv, FreshInv, LockInv
  <2>2. mpc \notin Moving /\ mpc' = mpc
    BY <1>1, <2>1, Bounds DEF InsertPublish, IInv, LockInv, merge
  <2>3. Shelved = {} /\ Shelved' = {}
    BY <2>2 DEF Shelved, Moving
  <2>4. Fresh(cur[c]) # Absent
    BY <2>1, FreshType DEF Absent
  <2>5. Live' = Live \cup {cur[c]} /\ cur[c] \notin Live
    BY <1>0, <1>1, <2>1, <2>4 DEF InsertPublish, Live
  <2>6. infos' = Append(infos, cur[c]) /\ up' = up
    BY <1>1 DEF InsertPublish
  <2>7. QED
    BY <1>0, <2>1, <2>3, <2>5, <2>6, AppendMembers, AppendDistinct DEF ListInv
<1>2. CASE MergeRename1
  <2>1. mpc \in Moving /\ mpc = "rename1" /\ mpc' = "rename2" /\ p1' = p1
        /\ UNCHANGED <<up, infos>> /\ normal' = [normal EXCEPT ![p1] = Absent]
        /\ p1 \in Live
    BY <1>2 DEF MergeRename1, MergeGoto, Moving, memory, Shelve, CanShelve
  <2>2. Live' = Live \ {p1} /\ p1 \in Part
    BY <1>0, <2>1 DEF Live
  <2>3. Shelved = {} /\ Shelved' = {p1}
    BY <2>1 DEF Shelved
  <2>4. QED
    BY <2>1, <2>2, <2>3 DEF ListInv
<1>3. CASE MergeRename2
  <2>1. mpc = "rename2" /\ mpc' = "publish" /\ p1' = p1 /\ p2' = p2
        /\ UNCHANGED <<up, infos>> /\ normal' = [normal EXCEPT ![p2] = Absent]
        /\ p2 \in Live
    BY <1>3 DEF MergeRename2, MergeGoto, memory, Shelve, CanShelve
  <2>2. Live' = Live \ {p2} /\ p2 \in Part
    BY <1>0, <2>1 DEF Live
  <2>3. Shelved = {p1} /\ Shelved' = {p1, p2}
    BY <2>1 DEF Shelved
  <2>4. QED
    BY <2>1, <2>2, <2>3 DEF ListInv
<1>4. CASE MergeUndo
  <2>1. mpc = "undo" /\ mpc' = "idle" /\ UNCHANGED <<up, infos>>
        /\ normal' = [normal EXCEPT ![p1] = old[p1]]
    BY <1>4 DEF MergeUndo, MergeRestart, MergeGoto, Fail, MemoryKept
  <2>2. p1 \in Part /\ old[p1] # Absent
    BY <2>1 DEF IInv, MergeInv, Chosen, Moving
  <2>3. Live' = Live \cup {p1}
    BY <1>0, <2>1, <2>2 DEF Live
  <2>4. Shelved = {p1} /\ Shelved' = {}
    BY <2>1 DEF Shelved
  <2>5. QED
    BY <2>1, <2>3, <2>4 DEF ListInv
<1>5. CASE MergePublish \/ MergePublishFails
  <2> DEFINE left == Forget(Forget(infos, p1), p2)
  <2>a. mpc = "publish" /\ mpc \in Moving /\ up' = up
    BY <1>5 DEF MergePublish, MergePublishFails, Moving
  <2>b. mpc # "idle"
    BY <2>a
  <2>1. mpc = "publish" /\ mpc \in Moving /\ up' = up /\ up
    <3>1. up
      BY <1>u, <2>b, Zenon
    <3>2. QED
      BY <2>a, <3>1, Zenon
  <2>2. p1 \in Part /\ p2 \in Part /\ normal[p1] = Absent /\ normal[p2] = Absent
        /\ raw[p2] # Absent
    BY <2>1 DEF IInv, MergeInv, Chosen, Absent
  <2>3. Distinct(infos) /\ Members(infos) = Live \cup {p1, p2}
    BY <2>1 DEF ListInv, Shelved
  <2>4. left \in Seq(Part) /\ Distinct(left) /\ Members(left) = (Members(infos) \ {p1}) \ {p2}
    BY <1>0, <2>3, ForgetExact
  <2> HIDE DEF left
  <2>5. Members(left) = Live /\ p2 \notin Live
    BY <2>2, <2>3, <2>4 DEF Live
  <2>6. CASE MergePublish
    <3>1. infos' = Append(left, p2) /\ normal' = [normal EXCEPT ![p2] = raw[p2]]
          /\ mpc' = "remove1"
      BY <2>6 DEF MergePublish, MergeGoto, left
    <3>2. Live' = Live \cup {p2}
      BY <1>0, <2>2, <3>1 DEF Live
    <3>3. Shelved' = {}
      BY <3>1 DEF Shelved
    <3>4. Members(infos') = Members(left) \cup {p2} /\ Distinct(infos')
      BY <2>2, <2>4, <2>5, <3>1, AppendMembers, AppendDistinct
    <3>5. QED
      BY <2>5, <3>2, <3>3, <3>4 DEF ListInv
  <2>7. CASE MergePublishFails
    <3>1. infos' = left /\ normal' = normal /\ mpc' = "stuck"
      BY <2>7 DEF MergePublishFails, MergeGoto, left, disk
    <3>2. Live' = Live /\ Shelved' = {}
      BY <3>1 DEF Live, Shelved
    <3>3. QED
      BY <2>4, <2>5, <3>1, <3>2 DEF ListInv
  <2>8. QED
    BY <1>5, <2>6, <2>7
<1>6. Crash => ListInv'
  BY DEF Crash, ListInv
<1>7. CASE Restart
  <2>1. infos' \in Orderings(Live) /\ normal' = normal /\ mpc = "idle" /\ mpc' = mpc
    <3>1. ~up /\ normal' = normal /\ mpc' = mpc
      BY <1>7 DEF Restart, merge
    <3>2. mpc = "idle"
      BY <1>u, <3>1, Zenon
    <3>3. infos' \in Orderings(Live)
      BY <1>7 DEF Restart, Fail, MemoryKept
    <3>4. QED
      BY <3>1, <3>2, <3>3
  <2>2. Members(infos') = Live /\ Distinct(infos')
    <3>1. Live \in SUBSET Part
      BY <1>0
    <3>2. QED
      BY <2>1, <3>1, OrderingsList
  <2>3. Live' = Live /\ Shelved' = {}
    BY <2>1 DEF Live, Shelved
  <2>4. QED
    BY <2>2, <2>3 DEF ListInv
<1>8. QED
  BY <1>1, <1>2, <1>3, <1>4, <1>5, <1>6, <1>7, ListStays, ListSteps

LEMMA ListInit == Init => ListInv
<1> SUFFICES ASSUME Init PROVE ListInv
  OBVIOUS
<1>1. infos = <<>> /\ mpc = "idle" /\ Live = {}
  BY DEF Init, Live
<1>2. Members(<<>>) = {} /\ Distinct(<<>>)
  BY EmptySeq DEF Members, Distinct
<1>3. QED
  BY <1>1, <1>2 DEF ListInv, Shelved

-----------------------------------------------------------------------------
(* The order *)

WritesLast == \A c \in Client : Writing(c) => cur[c] = next - 1

(* Names are taken under the lock: the one being written is the last.      *)
LEMMA WritesLastStep ==
    ASSUME IInv, WritesLast, Next
    PROVE  WritesLast'
<1>0. /\ pc \in [Client -> ClientPC] /\ cur \in [Client -> Part \cup {0}]
      /\ next \in Nat
  BY Bounds DEF IInv, TypeOK
<1>1. ASSUME NEW c \in Client, InsertLock(c) PROVE WritesLast'
  <2>1. \A d \in Client : ~Writing(d)
    BY <1>1, Bounds DEF InsertLock, IInv, LockInv
  <2>2. next' = next + 1 /\ \A d \in Client : Writing(d)' => cur'[d] = next
    BY <1>0, <1>1, <2>1 DEF InsertLock, Goto, Writing
  <2>3. QED
    BY <1>0, <2>2 DEF WritesLast
<1>2. ASSUME NEW c \in Client, InsertSaveFails(c) \/ InsertPublishFails(c)
      PROVE  WritesLast'
  BY <1>0, <1>2 DEF InsertSaveFails, InsertPublishFails, Goto, Writing, WritesLast
<1>3. QED
  BY <1>1, <1>2, WritingSteps DEF WritesLast

(* Steps that move no directory of a part, and choose no parts. *)
LEMMA AgeStays ==
    ASSUME AgeInv, WritesLast', normal' = normal,
           mpc' \in Chosen => mpc \in Chosen /\ UNCHANGED <<p1, p2>>,
           mpc' \in {"rename2", "undo"} => mpc = "rename2" \/ mpc = "undo",
           mpc' = "publish" => mpc = "publish",
           mpc' \in {"rename2", "undo", "publish"} => old' = old
    PROVE  AgeInv'
<1>1. Live' = Live /\ \A m \in Live : OlderThan(m, normal[m], Live)'
  BY DEF AgeInv, Live, OlderThan
<1>2. mpc' \in {"rename2", "undo", "publish"} => mpc' \in Chosen
  BY DEF Chosen, Moving
<1>3. QED
  BY <1>1, <1>2 DEF AgeInv, WritesLast, OlderThan

LEMMA AgeSteps ==
    ASSUME IInv, Next
    PROVE  \/ /\ normal' = normal
              /\ mpc' \in Chosen => mpc \in Chosen /\ UNCHANGED <<p1, p2>>
              /\ mpc' \in {"rename2", "undo"} => mpc = "rename2" \/ mpc = "undo"
              /\ mpc' = "publish" => mpc = "publish"
              /\ mpc' \in {"rename2", "undo", "publish"} => old' = old
           \/ \E c \in Client : InsertPublish(c)
           \/ MergeFind \/ MergeRename1 \/ MergeRename2 \/ MergeUndo \/ MergePublish
<1> USE DEF memory, disk, merge
<1>1. ASSUME NEW c \in Client, Insert(c) \/ Select(c)
      PROVE  InsertPublish(c) \/ UNCHANGED <<normal, old, mpc, p1, p2>>
  BY <1>1 DEF Insert, Select, InsertIssue, InsertLock, InsertSave,
     InsertSaveFails, InsertPublish, InsertPublishFails, InsertAck,
     SelectIssue, SelectLock, SelectRead, SelectEnd, SelectReadFails, SelectLeave
<1>2. CASE MergeRename2Fails
  BY <1>2 DEF MergeRename2Fails, MergeGoto, Chosen, Moving
<1>3. CASE MergeGate \/ MergeLoad \/ MergeLoadFails \/ MergeLoadPanics \/ MergeSave
           \/ MergeLock \/ MergeRename1Fails \/ MergePublishFails
           \/ MergeRemove1 \/ MergeRemove2
  <2>1. normal' = normal /\ mpc' \notin {"rename2", "undo", "publish"}
    BY <1>3 DEF MergeGate, MergeLoad, MergeLoadFails, MergeLoadPanics, MergeSave,
       MergeLock, MergeRename1Fails, MergePublishFails, MergeRemove1, MergeRemove2,
       MergeGoto, MergeRestart
  <2>2. mpc' \in Chosen => mpc \in Chosen /\ UNCHANGED <<p1, p2>>
    BY <1>3 DEF MergeGate, MergeLoad, MergeLoadFails, MergeLoadPanics, MergeSave,
       MergeLock, MergeRename1Fails, MergePublishFails, MergeRemove1, MergeRemove2,
       MergeGoto, MergeRestart, Chosen, Moving
  <2>3. QED
    BY <2>1, <2>2
<1>4. CASE Crash
  BY <1>4 DEF Crash, MergeRestart, MergeGoto, Chosen, Moving
<1>5. CASE Restart
  BY <1>5 DEF Restart
<1>6. QED
  BY <1>1, <1>2, <1>3, <1>4, <1>5 DEF Next, Merge

LEMMA AgeNext ==
    ASSUME IInv, ListInv, AgeInv, Next
    PROVE  AgeInv'
<1>0. /\ infos \in Seq(Part) /\ normal \in [Part -> PartDir] /\ old \in [Part -> PartDir]
      /\ Live \subseteq Part /\ Part \subseteq Nat /\ next \in Nat
  BY Bounds DEF IInv, TypeOK, Live, Part
<1>a. \A m \in Part : normal[m].covers \subseteq Part /\ old[m].covers \subseteq Part
  BY <1>0 DEF PartDir
<1>b. WritesLast'
  BY WritesLastStep DEF AgeInv, WritesLast
<1>s. \A m \in Part : Stamp[m] \in Nat
  BY PartStoreAssumption
<1>t. \A m, n \in Part : m <= n => Stamp[m] <= Stamp[n]
  BY PartStoreAssumption
<1>1. ASSUME NEW c \in Client, InsertPublish(c) PROVE AgeInv'
  <2>0. PICK n \in Part : n = cur[c]
    BY <1>1 DEF InsertPublish, Writing, IInv, FreshInv
  <2>1. /\ n \in Part /\ n = next - 1 /\ normal[n] = Absent /\ raw[n] = Fresh(n)
        /\ n \notin {p1, p2} /\ writer = c
    BY <1>1, <2>0 DEF InsertPublish, Writing, IInv, FreshInv, LockInv, AgeInv
  <2>2. mpc \notin Moving /\ UNCHANGED <<mpc, p1, p2>>
    BY <1>1, <2>1, Bounds DEF InsertPublish, IInv, LockInv, merge
  <2>3. normal' = [normal EXCEPT ![n] = Fresh(n)]
    BY <1>1, <2>0, <2>1 DEF InsertPublish
  <2>4. Fresh(n).covers = {n} /\ Fresh(n) # Absent
    BY <2>1, FreshType DEF Absent
  <2>5. Live' = Live \cup {n}
    BY <1>0, <2>1, <2>3, <2>4 DEF Live
  <2>6. \A m \in Live : m # n /\ Stamp[m] <= Stamp[n]
    <3> SUFFICES ASSUME NEW m \in Live PROVE m # n /\ Stamp[m] <= Stamp[n]
      OBVIOUS
    <3>1. m < next /\ m # n
      BY <1>0, <2>1 DEF Live, IInv, NameInv
    <3>2. m \in Nat /\ m <= n
      BY <1>0, <2>1, <3>1
    <3>3. QED
      BY <1>0, <1>t, <2>1, <3>1, <3>2
  <2>7. /\ normal'[n].covers = {n}
        /\ \A m \in Live : normal'[m] = normal[m]
    BY <1>0, <2>1, <2>3, <2>4, <2>6
  <2>8. OlderThan(n, normal[n], Live)'
    BY <1>0, <1>s, <2>1, <2>5, <2>6, <2>7 DEF OlderThan
  <2>9. ASSUME NEW m \in Live PROVE OlderThan(m, normal[m], Live)'
    <3>1. OlderThan(m, normal[m], Live)
      BY DEF AgeInv
    <3>2. m \in Part /\ normal'[m] = normal[m] /\ normal[m].covers \subseteq Part
      BY <1>0, <1>a, <2>7
    <3>3. Stamp[m] < Stamp[n] => \A a \in normal[m].covers : Stamp[a] < Stamp[n]
      BY <1>s, <2>1, <3>1, <3>2 DEF OlderThan
    <3>4. QED
      BY <2>5, <2>7, <3>1, <3>2, <3>3 DEF OlderThan
  <2>10. \A m \in Live' : OlderThan(m, normal[m], Live)'
    BY <2>5, <2>8, <2>9
  <2>11. mpc \in Chosen => Stamp[p2] <= Stamp[n]
    <3> SUFFICES ASSUME mpc \in Chosen PROVE Stamp[p2] <= Stamp[n]
      OBVIOUS
    <3>1. p2 \in Part /\ p2 < next
      BY DEF IInv, MergeInv
    <3>2. p2 \in Nat /\ p2 <= n
      BY <1>0, <2>1, <3>1
    <3>3. QED
      BY <1>t, <2>1, <3>1, <3>2
  <2>12. mpc' \notin {"rename2", "undo", "publish"}
    BY <2>2 DEF Moving
  <2>13. mpc' \in Chosen => /\ Stamp[p1'] <= Stamp[p2']
                            /\ \A r \in Live' \ {p1', p2'} : Stamp[p2'] <= Stamp[r]
    BY <2>2, <2>5, <2>11 DEF AgeInv
  <2>14. QED
    BY <1>b, <2>10, <2>12, <2>13 DEF AgeInv, WritesLast
<1>2. CASE MergeFind
  <2>1. normal' = normal /\ mpc' \in {"load1", "idle"} /\ writer = NoOne /\ mpc = "find"
    BY <1>2 DEF MergeFind, MergeGoto, disk
  <2>2. Live' = Live /\ \A m \in Live' : OlderThan(m, normal[m], Live)'
    BY <2>1 DEF Live, OlderThan, AgeInv
  <2>3. ASSUME mpc' = "load1"
        PROVE  /\ Stamp[p1'] <= Stamp[p2']
               /\ \A r \in Live \ {p1', p2'} : Stamp[p2'] <= Stamp[r]
    <3>1. Oldest(p1', p2')
      BY <1>2, <2>3 DEF MergeFind, MergeGoto
    <3>2. Live \subseteq Members(infos)
      BY <2>1 DEF IInv, LockInv, ListInv
    <3>3. QED
      BY <3>1, <3>2 DEF Oldest
  <2>4. mpc' \in Chosen => mpc' = "load1"
    BY <2>1 DEF Chosen, Moving
  <2>5. mpc' \notin {"rename2", "undo", "publish"}
    BY <2>1
  <2>6. QED
    BY <1>b, <2>2, <2>3, <2>4, <2>5 DEF AgeInv, WritesLast
<1>3. CASE MergeRename1
  <2>1. /\ mpc = "rename1" /\ mpc' = "rename2" /\ p1' = p1 /\ p2' = p2
        /\ normal' = [normal EXCEPT ![p1] = Absent] /\ p1 \in Live
        /\ old' = [old EXCEPT ![p1] = normal[p1]]
    BY <1>3 DEF MergeRename1, MergeGoto, Shelve, CanShelve
  <2>2. mpc \in Chosen /\ mpc \in Moving
    BY <2>1 DEF Chosen, Moving
  <2>3. /\ p1 \in Part /\ p2 \in Part /\ Stamp[p1] <= Stamp[p2]
        /\ \A r \in Live \ {p1, p2} : Stamp[p2] <= Stamp[r]
    BY <2>2, MovingFacts DEF AgeInv
  <2>4. Live' = Live \ {p1} /\ old'[p1] = normal[p1]
        /\ \A r \in Live' : normal'[r] = normal[r]
    BY <1>0, <2>1, <2>3 DEF Live
  <2>5. \A m \in Live' : OlderThan(m, normal[m], Live)'
    BY <2>4 DEF OlderThan, AgeInv
  <2>6. OlderThan(p1, old[p1], Live)'
    BY <2>1, <2>4 DEF OlderThan, AgeInv
  <2>7. QED
    BY <1>b, <2>1, <2>3, <2>4, <2>5, <2>6 DEF AgeInv, WritesLast
<1>4. CASE MergeRename2
  <2>1. /\ mpc = "rename2" /\ mpc' = "publish" /\ p1' = p1 /\ p2' = p2
        /\ normal' = [normal EXCEPT ![p2] = Absent] /\ p2 \in Live
        /\ old' = [old EXCEPT ![p2] = normal[p2]]
    BY <1>4 DEF MergeRename2, MergeGoto, Shelve, CanShelve
  <2>2. mpc \in Chosen /\ mpc \in Moving
    BY <2>1 DEF Chosen, Moving
  <2>3. /\ p1 \in Part /\ p2 \in Part /\ p1 # p2 /\ Stamp[p1] <= Stamp[p2]
        /\ \A r \in Live \ {p1, p2} : Stamp[p2] <= Stamp[r]
    BY <2>2, MovingFacts DEF AgeInv
  <2>4. Live' = Live \ {p2} /\ old'[p2] = normal[p2] /\ old'[p1] = old[p1]
        /\ \A r \in Live' : normal'[r] = normal[r]
    BY <1>0, <2>1, <2>3 DEF Live
  <2>5. \A m \in Live' : OlderThan(m, normal[m], Live)'
    BY <2>4 DEF OlderThan, AgeInv
  <2>6. OlderThan(p1, old[p1], Live)'
    BY <2>1, <2>4 DEF OlderThan, AgeInv
  <2>7. OlderThan(p2, old[p2], Live)'
    BY <2>1, <2>4 DEF OlderThan, AgeInv
  <2>8. QED
    BY <1>b, <2>1, <2>3, <2>4, <2>5, <2>6, <2>7 DEF AgeInv, WritesLast
<1>5. CASE MergeUndo
  <2>1. /\ mpc = "undo" /\ mpc' = "idle"
        /\ normal' = normal \/ normal' = [normal EXCEPT ![p1] = old[p1]]
    BY <1>5 DEF MergeUndo, MergeRestart, MergeGoto
  <2>2. mpc \in Chosen /\ mpc \in Moving
    BY <2>1 DEF Chosen, Moving
  <2>3. /\ p1 \in Part /\ p2 \in Part /\ Stamp[p1] <= Stamp[p2]
        /\ \A r \in Live \ {p1, p2} : Stamp[p2] <= Stamp[r]
    BY <2>2, MovingFacts DEF AgeInv
  <2>q. PICK q \in Part : q = p1
    BY <2>3
  <2>4. p1 \notin Live
    BY <2>1 DEF IInv, MergeInv, Live
  <2>5. \A m \in Live' : OlderThan(m, normal[m], Live)'
    <3>1. CASE normal' = normal
      BY <3>1 DEF OlderThan, AgeInv, Live
    <3>2. CASE normal' = [normal EXCEPT ![p1] = old[p1]]
      <4>1. Live' \subseteq Live \cup {q} /\ normal'[q] = old[q]
            /\ \A r \in Live : normal'[r] = normal[r]
        BY <1>0, <2>q, <2>4, <3>2 DEF Live
      <4>2. \A r \in Live : ~(Stamp[r] < Stamp[q])
        <5> SUFFICES ASSUME NEW r \in Live PROVE Stamp[q] <= Stamp[r]
          BY <1>0, <1>s
        <5>1. Stamp[q] \in Nat /\ Stamp[p2] \in Nat /\ Stamp[r] \in Nat
          BY <1>0, <1>s, <2>3
        <5>2. r = p2 \/ Stamp[p2] <= Stamp[r]
          BY <2>3, <2>4
        <5>3. QED
          BY <2>3, <2>q, <5>1, <5>2
      <4>3. OlderThan(q, old[q], Live)
        BY <2>1, <2>q DEF AgeInv
      <4>4. OlderThan(q, normal[q], Live)'
        BY <1>s, <4>1, <4>3 DEF OlderThan
      <4>5. ASSUME NEW m \in Live PROVE OlderThan(m, normal[m], Live)'
        BY <4>1, <4>2 DEF OlderThan, AgeInv
      <4>6. QED
        BY <4>1, <4>4, <4>5
    <3>3. QED
      BY <2>1, <3>1, <3>2
  <2>6. mpc' \notin Chosen
    BY <2>1 DEF Chosen, Moving
  <2>7. QED
    BY <1>b, <2>1, <2>5, <2>6 DEF AgeInv, WritesLast
<1>6. CASE MergePublish
  <2>1. /\ mpc = "publish" /\ mpc' = "remove1" /\ p1' = p1 /\ p2' = p2
        /\ normal' = [normal EXCEPT ![p2] = raw[p2]]
    BY <1>6 DEF MergePublish, MergeGoto
  <2>2. mpc \in Chosen /\ mpc \in Moving
    BY <2>1 DEF Chosen, Moving
  <2>3. /\ p1 \in Part /\ p2 \in Part /\ Stamp[p1] <= Stamp[p2]
        /\ \A r \in Live \ {p1, p2} : Stamp[p2] <= Stamp[r]
    BY <2>2, MovingFacts DEF AgeInv
  <2>q. PICK q \in Part : q = p2
    BY <2>3
  <2>4. p1 \notin Live /\ p2 \notin Live /\ raw[p2].covers = old[p1].covers \cup old[p2].covers
    BY <2>1 DEF IInv, MergeInv, Live
  <2>5. Live' \subseteq Live \cup {q} /\ normal'[q] = raw[q]
        /\ \A r \in Live : normal'[r] = normal[r]
    BY <1>0, <2>1, <2>q, <2>4 DEF Live
  <2>6. \A r \in Live : Stamp[q] <= Stamp[r]
    BY <2>3, <2>q, <2>4
  <2>7. OlderThan(p1, old[p1], Live) /\ OlderThan(p2, old[p2], Live)
    BY <2>1 DEF AgeInv
  <2>8. \A a \in raw[q].covers : Stamp[a] <= Stamp[q]
    <3> SUFFICES ASSUME NEW a \in raw[q].covers PROVE Stamp[a] <= Stamp[q]
      OBVIOUS
    <3>1. a \in Part /\ (Stamp[a] <= Stamp[p1] \/ Stamp[a] <= Stamp[p2])
      BY <1>a, <2>3, <2>q, <2>4, <2>7 DEF OlderThan
    <3>2. Stamp[a] \in Nat /\ Stamp[p1] \in Nat /\ Stamp[p2] \in Nat
      BY <1>s, <2>3, <3>1
    <3>3. QED
      BY <2>3, <2>q, <3>1, <3>2
  <2>9. ASSUME NEW r \in Live, Stamp[q] < Stamp[r]
        PROVE  \A a \in raw[q].covers, b \in normal[r].covers : Stamp[a] < Stamp[b]
    <3>1. Stamp[p1] < Stamp[r] /\ Stamp[p2] < Stamp[r]
      BY <1>0, <1>s, <2>3, <2>q, <2>9
    <3>2. QED
      BY <2>q, <2>4, <2>7, <3>1 DEF OlderThan
  <2>10. OlderThan(q, normal[q], Live)'
    BY <1>s, <2>5, <2>8, <2>9 DEF OlderThan
  <2>11. ASSUME NEW m \in Live PROVE OlderThan(m, normal[m], Live)'
    <3>1. ~(Stamp[m] < Stamp[q])
      BY <1>0, <1>s, <2>6
    <3>2. OlderThan(m, normal[m], Live)
      BY DEF AgeInv
    <3>3. QED
      BY <2>5, <3>1, <3>2 DEF OlderThan
  <2>12. \A m \in Live' : OlderThan(m, normal[m], Live)'
    BY <2>5, <2>10, <2>11
  <2>13. \A r \in Live' \ {p1, p2} : Stamp[p2] <= Stamp[r]
    BY <2>3, <2>q, <2>5
  <2>14. QED
    BY <1>b, <2>1, <2>3, <2>12, <2>13 DEF AgeInv, WritesLast
<1>7. QED
  BY <1>b, <1>1, <1>2, <1>3, <1>4, <1>5, <1>6, AgeStays, AgeSteps

LEMMA AgeInit == Init => AgeInv
<1> SUFFICES ASSUME Init PROVE AgeInv
  OBVIOUS
<1>1. mpc = "idle" /\ Live = {} /\ \A c \in Client : ~Writing(c)
  BY DEF Init, Live, Writing
<1>2. QED
  BY <1>1 DEF AgeInv, Chosen, Moving

-----------------------------------------------------------------------------
(* The results *)

LEMMA ListUnchanged ==
    ASSUME ListInv, AgeInv, UNCHANGED vars
    PROVE  ListInv' /\ AgeInv'
BY DEF vars, memory, disk, clients, merge, ListInv, Live, Shelved, AgeInv,
   OlderThan, Writing

(* Whenever nobody holds the write lock, the list in memory names exactly  *)
(* the part directories, each once, whichever other call failed            *)
(* (move_to_normal and atomic_part_move,                                   *)
(* src/src/storage/table_part.rs and src/src/background_merge.rs).         *)
THEOREM MemoryIsDisk == MemoryKept => (Spec => []MemoryMatchesDisk)
<1> SUFFICES ASSUME MemoryKept PROVE Spec => []MemoryMatchesDisk
  OBVIOUS
<1>1. IInv /\ ListInv /\ [Next]_vars => ListInv'
  BY ListNext, ListStays DEF vars, memory, disk, merge, Shelved
<1>2. IInv /\ ListInv => MemoryMatchesDisk
  <2> SUFFICES ASSUME IInv, ListInv, up, writer = NoOne PROVE MemoryMatchesDisk
    BY DEF MemoryMatchesDisk
  <2>1. mpc \notin Moving
    BY Bounds DEF IInv, LockInv
  <2>2. Shelved = {}
    BY <2>1 DEF Shelved, Moving
  <2>3. QED
    BY <2>2 DEF ListInv, MemoryMatchesDisk, Distinct
<1>3. QED
  BY <1>1, <1>2, ListInit, Invariance, PTL DEF Spec

(* Merging the two first parts under the name of the second keeps all that *)
(* is in a part older than all that is in a part of a later millisecond,   *)
(* also when several names share one                                       *)
(* (find_parts_to_merge, src/src/background_merge.rs:102).                 *)
THEOREM MergingKeepsAgeOrder == MemoryKept => (Spec => []PartsInAgeOrder)
<1> SUFFICES ASSUME MemoryKept PROVE Spec => []PartsInAgeOrder
  OBVIOUS
<1>1. IInv /\ ListInv /\ AgeInv /\ [Next]_vars => ListInv' /\ AgeInv'
  BY ListNext, AgeNext, ListUnchanged
<1>2. AgeInv => PartsInAgeOrder
  BY DEF AgeInv, OlderThan, PartsInAgeOrder
<1>3. QED
  BY <1>1, <1>2, ListInit, AgeInit, Invariance, PTL DEF Spec

-----------------------------------------------------------------------------
(***************************************************************************)
(* What clients see of the parts while the process runs, for every number  *)
(* of clients, INSERTs and merges in between: a SELECT reads all that was  *)
(* acknowledged when it was issued, and the whole store is TableService,   *)
(* in which there are no parts.  A rename back must not fail, and for the  *)
(* second result no publication of a merged part.                          *)
(***************************************************************************)

NoCrash == MaxCrashes = 0
PublishKept == "publish" \notin Faults

(* A SELECT excludes everyone who changes the list. *)
ReaderInv ==
    /\ readers = {c \in Client : pc[c] = "scan"}
    /\ readers # {} => writer = NoOne

(* Where INSERTs stand that were answered or are about to be. *)
InPlace(n) ==
    \/ \E m \in Part : n \in normal[m].covers
    \/ mpc \in {"rename2", "undo", "publish", "stuck"} /\ n \in old[p1].covers
    \/ mpc \in {"publish", "stuck"} /\ n \in old[p2].covers

AckedInv ==
    /\ \A n \in acked : InPlace(n)
    /\ \A c \in Client : /\ pc[c] = "done" => InPlace(cur[c])
                         /\ want[c] \subseteq acked

(* A SELECT has read the parts listed up to the one it read last. *)
ScanInv ==
    \A c \in Client :
        IF at[c] = 0 THEN seen[c] = {}
        ELSE /\ pc[c] = "scan" /\ Position(infos, at[c]) # 0
             /\ seen[c] = {infos[i] : i \in 1..Position(infos, at[c])}

ServiceInv == up = TRUE /\ ReaderInv /\ AckedInv /\ ScanInv

AllInv == IInv /\ ListInv /\ ServiceInv

-----------------------------------------------------------------------------
LEMMA NeverDown ==
    ASSUME NoCrash, IInv, up = TRUE, Next
    PROVE  up' = TRUE /\ ~Crash /\ ~Restart
<1>1. ~Crash
  BY Bounds DEF Crash, NoCrash, IInv, TypeOK
<1>2. ~Restart
  BY DEF Restart
<1>3. ASSUME NEW c \in Client, Insert(c) \/ Select(c) PROVE up' = up
  BY <1>3 DEF Insert, Select, InsertIssue, InsertLock, InsertSave,
     InsertSaveFails, InsertPublish, InsertPublishFails, InsertAck,
     SelectIssue, SelectLock, SelectRead, SelectEnd, SelectReadFails, SelectLeave
<1>4. Merge => up' = up
  BY DEF Merge, MergeGate, MergeFind, MergeLoad, MergeLoadFails, MergeLoadPanics,
     MergeSave, MergeLock, MergeRename1, MergeRename1Fails, MergeRename2,
     MergeRename2Fails, MergeUndo, MergePublish, MergePublishFails,
     MergeRemove1, MergeRemove2
<1>5. QED
  BY <1>1, <1>2, <1>3, <1>4 DEF Next

(* A merge is no command of a client. *)
LEMMA MergeSteps ==
    ASSUME Merge
    PROVE  UNCHANGED <<pc, cur, want, at, seen, acked, readers>>
BY DEF Merge, MergeGate, MergeFind, MergeLoad, MergeLoadFails, MergeLoadPanics,
   MergeSave, MergeLock, MergeRename1, MergeRename1Fails, MergeRename2,
   MergeRename2Fails, MergeUndo, MergePublish, MergePublishFails,
   MergeRemove1, MergeRemove2, memory, clients

LEMMA ReaderNext ==
    ASSUME IInv, ReaderInv, Next, ~Crash, ~Restart
    PROVE  ReaderInv'
<1>0. pc \in [Client -> ClientPC] /\ readers \subseteq Client
  BY DEF IInv, TypeOK
<1>1. ASSUME NEW c \in Client,
             \/ InsertIssue(c) \/ InsertSave(c) \/ InsertSaveFails(c)
             \/ InsertPublish(c) \/ InsertPublishFails(c) \/ InsertAck(c)
             \/ SelectIssue(c)
      PROVE  ReaderInv'
  <2>1. /\ readers' = readers /\ pc[c] # "scan"
        /\ (writer' = writer \/ writer' = NoOne)
        /\ \E w \in ClientPC \ {"scan"} : pc' = [pc EXCEPT ![c] = w]
    BY <1>1 DEF InsertIssue, InsertSave, InsertSaveFails, InsertPublish,
       InsertPublishFails, InsertAck, SelectIssue, Goto, memory, ClientPC
  <2>2. QED
    BY <1>0, <2>1 DEF ReaderInv
<1>2. ASSUME NEW c \in Client, InsertLock(c) PROVE ReaderInv'
  BY <1>0, <1>2 DEF InsertLock, Goto, ReaderInv
<1>3. ASSUME NEW c \in Client, SelectLock(c) PROVE ReaderInv'
  BY <1>0, <1>3 DEF SelectLock, Goto, ReaderInv
<1>4. ASSUME NEW c \in Client, SelectRead(c) PROVE ReaderInv'
  BY <1>4 DEF SelectRead, ReaderInv, memory
<1>5. ASSUME NEW c \in Client, SelectEnd(c) \/ SelectReadFails(c) PROVE ReaderInv'
  BY <1>0, <1>5 DEF SelectEnd, SelectReadFails, SelectLeave, Goto, ReaderInv
<1>6. CASE Merge
  <2>1. UNCHANGED <<pc, readers>>
    BY <1>6, MergeSteps
  <2>2. writer' = writer \/ writer' = NoOne \/ readers = {}
    BY <1>6 DEF Merge, MergeGate, MergeFind, MergeLoad, MergeLoadFails, MergeLoadPanics,
       MergeSave, MergeLock, MergeRename1, MergeRename1Fails, MergeRename2,
       MergeRename2Fails, MergeUndo, MergePublish, MergePublishFails,
       MergeRemove1, MergeRemove2, memory
  <2>3. QED
    BY <2>1, <2>2 DEF ReaderInv
<1>7. QED
  BY <1>1, <1>2, <1>3, <1>4, <1>5, <1>6 DEF Next, Insert, Select

(* What is in place stays there, through every step of a merge. *)
LEMMA InPlaceStays ==
    ASSUME MemoryKept, IInv, Next, ~Crash, ~Restart, NEW n, InPlace(n)
    PROVE  InPlace(n)'
<1>0. normal \in [Part -> PartDir] /\ old \in [Part -> PartDir] /\ Absent.covers = {}
  BY DEF IInv, TypeOK, Absent
<1>1. ASSUME UNCHANGED <<normal, old, mpc, p1, p2>> PROVE InPlace(n)'
  BY <1>1 DEF InPlace
<1>2. ASSUME NEW c \in Client, InsertPublish(c) PROVE InPlace(n)'
  <2>1. cur[c] \in Part /\ normal[cur[c]].covers = {}
        /\ \A m \in Part \ {cur[c]} : normal'[m] = normal[m]
    BY <1>0, <1>2 DEF InsertPublish, Writing, IInv, FreshInv
  <2>2. UNCHANGED <<old, mpc, p1, p2>>
    BY <1>2 DEF InsertPublish, merge
  <2>3. QED
    BY <2>1, <2>2 DEF InPlace
<1>3. ASSUME NEW c \in Client, Insert(c) \/ Select(c)
      PROVE  InsertPublish(c) \/ UNCHANGED <<normal, old, mpc, p1, p2>>
  BY <1>3 DEF Insert, Select, InsertIssue, InsertLock, InsertSave, disk, merge,
     InsertSaveFails, InsertPublishFails, InsertAck,
     SelectIssue, SelectLock, SelectRead, SelectEnd, SelectReadFails, SelectLeave
<1>4. CASE MergeRename1
  <2>1. /\ mpc = "rename1" /\ mpc' = "rename2" /\ p1' = p1 /\ p1 \in Part
        /\ normal' = [normal EXCEPT ![p1] = Absent]
        /\ old' = [old EXCEPT ![p1] = normal[p1]]
    BY <1>4 DEF MergeRename1, MergeGoto, Shelve, IInv, MergeInv, Chosen, Moving
  <2>2. old'[p1] = normal[p1] /\ \A m \in Part \ {p1} : normal'[m] = normal[m]
    BY <1>0, <2>1
  <2>3. QED
    BY <2>1, <2>2 DEF InPlace
<1>5. CASE MergeRename2
  <2>1. /\ mpc = "rename2" /\ mpc' = "publish" /\ p1' = p1 /\ p2' = p2
        /\ p1 \in Part /\ p2 \in Part /\ p1 # p2
        /\ normal' = [normal EXCEPT ![p2] = Absent]
        /\ old' = [old EXCEPT ![p2] = normal[p2]]
    BY <1>5 DEF MergeRename2, MergeGoto, Shelve, IInv, MergeInv, Chosen, Moving
  <2>2. /\ old'[p2] = normal[p2] /\ old'[p1] = old[p1]
        /\ \A m \in Part \ {p2} : normal'[m] = normal[m]
    BY <1>0, <2>1
  <2>3. QED
    BY <2>1, <2>2 DEF InPlace
<1>6. CASE MergeUndo
  <2>1. /\ mpc = "undo" /\ p1 \in Part /\ normal[p1] = Absent
        /\ normal' = [normal EXCEPT ![p1] = old[p1]]
    BY <1>6 DEF MergeUndo, Fail, MemoryKept, IInv, MergeInv, Chosen, Moving
  <2>2. normal'[p1] = old[p1] /\ \A m \in Part \ {p1} : normal'[m] = normal[m]
    BY <1>0, <2>1
  <2>3. QED
    BY <1>0, <2>1, <2>2 DEF InPlace
<1>7. CASE MergePublish
  <2>1. /\ mpc = "publish" /\ p2 \in Part /\ normal[p2] = Absent
        /\ raw[p2].covers = old[p1].covers \cup old[p2].covers
        /\ normal' = [normal EXCEPT ![p2] = raw[p2]]
    BY <1>7 DEF MergePublish, IInv, MergeInv, Chosen, Moving
  <2>2. normal'[p2] = raw[p2] /\ \A m \in Part \ {p2} : normal'[m] = normal[m]
    BY <1>0, <2>1
  <2>3. QED
    BY <1>0, <2>1, <2>2 DEF InPlace
<1>8. CASE MergeRename2Fails \/ MergePublishFails
  <2>1. /\ UNCHANGED <<normal, old, p1, p2>>
        /\ \/ mpc = "rename2" /\ mpc' = "undo"
           \/ mpc = "publish" /\ mpc' = "stuck"
    BY <1>8 DEF MergeRename2Fails, MergePublishFails, MergeGoto, disk
  <2>2. QED
    BY <2>1 DEF InPlace
<1>9. CASE MergeGate \/ MergeFind \/ MergeLoad \/ MergeLoadFails \/ MergeLoadPanics
           \/ MergeSave \/ MergeLock \/ MergeRename1Fails \/ MergeRemove1 \/ MergeRemove2
  <2>1. normal' = normal /\ mpc \notin {"rename2", "undo", "publish", "stuck"}
    BY <1>9 DEF MergeGate, MergeFind, MergeLoad, MergeLoadFails, MergeLoadPanics,
       MergeSave, MergeLock, MergeRename1Fails, MergeRemove1, MergeRemove2, disk
  <2>2. QED
    BY <2>1 DEF InPlace
<1>10. QED
  BY <1>1, <1>2, <1>3, <1>4, <1>5, <1>6, <1>7, <1>8, <1>9 DEF Next, Merge

LEMMA AckedNext ==
    ASSUME MemoryKept, IInv, AckedInv, Next, ~Crash, ~Restart
    PROVE  AckedInv'
<1>0. /\ pc \in [Client -> ClientPC] /\ want \in [Client -> SUBSET Part]
      /\ cur \in [Client -> Part \cup {0}] /\ normal \in [Part -> PartDir]
  BY DEF IInv, TypeOK
<1>a. \A n : InPlace(n) => InPlace(n)'
  BY InPlaceStays
<1>1. ASSUME NEW c \in Client, InsertPublish(c) PROVE AckedInv'
  <2>1. /\ cur[c] \in Part /\ raw[cur[c]] = Fresh(cur[c])
        /\ normal' = [normal EXCEPT ![cur[c]] = raw[cur[c]]]
        /\ pc' = [pc EXCEPT ![c] = "done"] /\ UNCHANGED <<cur, want, acked>>
    BY <1>1 DEF InsertPublish, Goto, Writing, IInv, FreshInv
  <2>2. cur[c] \in normal'[cur[c]].covers
    BY <1>0, <2>1, FreshType
  <2>3. InPlace(cur[c])'
    BY <2>1, <2>2 DEF InPlace
  <2>4. QED
    BY <1>0, <1>a, <2>1, <2>3 DEF AckedInv
<1>2. ASSUME NEW c \in Client, InsertAck(c) PROVE AckedInv'
  <2>1. /\ pc[c] = "done" /\ acked' = acked \cup {cur[c]} /\ want' = want
        /\ \A d \in Client \ {c} : pc'[d] = pc[d] /\ cur'[d] = cur[d]
        /\ pc'[c] = "idle"
    BY <1>0, <1>2 DEF InsertAck, Goto
  <2>2. QED
    BY <1>a, <2>1 DEF AckedInv
<1>3. ASSUME NEW c \in Client,
             \/ InsertIssue(c) \/ InsertLock(c) \/ InsertSave(c)
             \/ InsertSaveFails(c) \/ InsertPublishFails(c) \/ Select(c)
      PROVE  AckedInv'
  <2>1. /\ acked' = acked /\ pc'[c] # "done"
        /\ \A d \in Client \ {c} : pc'[d] = pc[d] /\ cur'[d] = cur[d] /\ want'[d] = want[d]
    BY <1>0, <1>3 DEF InsertIssue, InsertLock, InsertSave, InsertSaveFails,
       InsertPublishFails, Select, SelectIssue, SelectLock, SelectRead, SelectEnd,
       SelectReadFails, SelectLeave, Goto
  <2>2. want'[c] \subseteq acked
    BY <1>0, <1>3 DEF InsertIssue, InsertLock, InsertSave, InsertSaveFails,
       InsertPublishFails, Select, SelectIssue, SelectLock, SelectRead, SelectEnd,
       SelectReadFails, SelectLeave, AckedInv
  <2>3. QED
    BY <1>a, <2>1, <2>2 DEF AckedInv
<1>4. CASE Merge
  <2>1. UNCHANGED <<pc, cur, want, acked>>
    BY <1>4, MergeSteps
  <2>2. QED
    BY <1>a, <2>1 DEF AckedInv
<1>5. QED
  BY <1>1, <1>2, <1>3, <1>4 DEF Next, Insert

LEMMA ScanNextInv ==
    ASSUME IInv, ListInv, up = TRUE, ReaderInv, ScanInv, Next, ~Crash, ~Restart
    PROVE  ScanInv'
<1>0. /\ pc \in [Client -> ClientPC] /\ at \in [Client -> Part \cup {0}]
      /\ seen \in [Client -> SUBSET Part] /\ infos \in Seq(Part) /\ 0 \notin Part
  BY DEF IInv, TypeOK, Part
<1>1. ASSUME NEW c \in Client, SelectRead(c) PROVE ScanInv'
  <2>1. PICK n \in ScanNext(c) : /\ at' = [at EXCEPT ![c] = n]
                                 /\ seen' = [seen EXCEPT ![c] = @ \cup {n}]
    BY <1>1 DEF SelectRead
  <2>2. infos' = infos /\ pc' = pc /\ pc[c] = "scan"
    BY <1>1 DEF SelectRead, memory
  <2>3. Distinct(infos)
    BY DEF ListInv
  <2>4. PICK k \in 1..Len(infos) :
           /\ infos[k] = n
           /\ seen[c] = {infos[i] : i \in 1..(k - 1)}
    <3>1. CASE at[c] = 0
      <4>1. infos # <<>> /\ n = infos[1]
        BY <2>1, <3>1 DEF ScanNext
      <4>2. Len(infos) \in Nat /\ Len(infos) > 0
        BY <1>0, <4>1, EmptySeq
      <4>3. seen[c] = {} /\ 1..(1 - 1) = {}
        BY <3>1 DEF ScanInv
      <4>4. QED
        BY <4>1, <4>2, <4>3
    <3>2. CASE at[c] # 0
      <4> DEFINE j == Position(infos, at[c])
      <4>1. j \in 0..Len(infos)
        BY <1>0, PositionType
      <4>2. j # 0 /\ j < Len(infos) /\ n = infos[j + 1]
        BY <2>1, <3>2 DEF ScanNext, After
      <4>3. seen[c] = {infos[i] : i \in 1..j}
        BY <3>2 DEF ScanInv
      <4> HIDE DEF j
      <4>4. j + 1 \in 1..Len(infos) /\ (j + 1) - 1 = j
        BY <1>0, <4>1, <4>2
      <4>5. QED
        BY <4>2, <4>3, <4>4
    <3>3. QED
      BY <3>1, <3>2
  <2>5. Position(infos, n) = k /\ n \in Part
    BY <1>0, <2>3, <2>4, PositionFound
  <2>6. seen[c] \cup {n} = {infos[i] : i \in 1..k}
    <3>1. 1..k = (1..(k - 1)) \cup {k}
      OBVIOUS
    <3>2. QED
      BY <2>4, <3>1
  <2>7. /\ at'[c] = n /\ seen'[c] = seen[c] \cup {n}
        /\ \A d \in Client \ {c} : at'[d] = at[d] /\ seen'[d] = seen[d]
    BY <1>0, <2>1
  <2>8. ASSUME NEW d \in Client
        PROVE  IF at'[d] = 0 THEN seen'[d] = {}
               ELSE /\ pc'[d] = "scan" /\ Position(infos', at'[d]) # 0
                    /\ seen'[d] = {infos'[i] : i \in 1..Position(infos', at'[d])}
    <3>1. CASE d = c
      <4>1. at'[d] = n /\ n # 0 /\ Position(infos', n) = k /\ k # 0
        BY <1>0, <2>2, <2>5, <2>7, <3>1
      <4>2. seen'[d] = {infos'[i] : i \in 1..k}
        BY <2>2, <2>6, <2>7, <3>1
      <4>3. QED
        BY <2>2, <3>1, <4>1, <4>2
    <3>2. CASE d # c
      BY <2>2, <2>7, <3>2 DEF ScanInv
    <3>3. QED
      BY <3>1, <3>2
  <2>9. QED
    BY <2>8 DEF ScanInv
<1>2. ASSUME NEW c \in Client, SelectEnd(c) \/ SelectReadFails(c) PROVE ScanInv'
  <2>1. /\ infos' = infos /\ at'[c] = 0 /\ seen'[c] = {}
        /\ \A d \in Client \ {c} : at'[d] = at[d] /\ seen'[d] = seen[d] /\ pc'[d] = pc[d]
    BY <1>0, <1>2 DEF SelectEnd, SelectReadFails, SelectLeave, Goto
  <2>2. QED
    BY <2>1 DEF ScanInv
<1>3. ASSUME NEW c \in Client,
             \/ InsertIssue(c) \/ InsertLock(c) \/ InsertSave(c)
             \/ InsertSaveFails(c) \/ InsertPublishFails(c) \/ InsertAck(c)
             \/ SelectIssue(c) \/ SelectLock(c)
      PROVE  ScanInv'
  <2>1. /\ UNCHANGED <<infos, at, seen>> /\ pc[c] # "scan"
        /\ \A d \in Client \ {c} : pc'[d] = pc[d]
    BY <1>0, <1>3 DEF InsertIssue, InsertLock, InsertSave, InsertSaveFails,
       InsertPublishFails, InsertAck, SelectIssue, SelectLock, Goto, memory
  <2>2. QED
    BY <2>1 DEF ScanInv
<1>4. ASSUME UNCHANGED <<at, seen>>, readers = {} PROVE ScanInv'
  BY <1>4 DEF ScanInv, ReaderInv
<1>5. ASSUME NEW c \in Client, InsertPublish(c) PROVE ScanInv'
  <2>1. writer # NoOne /\ UNCHANGED <<at, seen>>
    BY <1>5, Bounds DEF InsertPublish, Writing, IInv, LockInv
  <2>2. QED
    BY <1>4, <2>1 DEF ReaderInv
<1>6. CASE Merge
  <2>1. UNCHANGED <<pc, at, seen>>
    BY <1>6, MergeSteps
  <2>2. infos' = infos \/ mpc \in Moving
    BY <1>6 DEF Merge, MergeGate, MergeFind, MergeLoad, MergeLoadFails, MergeLoadPanics,
       MergeSave, MergeLock, MergeRename1, MergeRename1Fails, MergeRename2,
       MergeRename2Fails, MergeUndo, MergePublish, MergePublishFails,
       MergeRemove1, MergeRemove2, memory, Moving
  <2>3. mpc \in Moving => readers = {}
    BY Bounds DEF IInv, LockInv, ReaderInv
  <2>4. CASE infos' = infos
    BY <2>1, <2>4 DEF ScanInv
  <2>5. QED
    BY <1>4, <2>1, <2>2, <2>3, <2>4
<1>7. QED
  BY <1>1, <1>2, <1>3, <1>5, <1>6 DEF Next, Insert, Select

-----------------------------------------------------------------------------
LEMMA ServiceInit == Init => ServiceInv
<1> SUFFICES ASSUME Init PROVE ServiceInv
  OBVIOUS
<1> USE DEF Init
<1>1. ReaderInv /\ ScanInv
  BY DEF ReaderInv, ScanInv
<1>2. AckedInv
  BY DEF AckedInv
<1>3. QED
  BY <1>1, <1>2 DEF ServiceInv

LEMMA ServiceNext ==
    ASSUME MemoryKept, NoCrash
    PROVE  IInv /\ ListInv /\ ServiceInv /\ [Next]_vars => ListInv' /\ ServiceInv'
<1> SUFFICES ASSUME IInv, ListInv, ServiceInv, [Next]_vars
             PROVE  ListInv' /\ ServiceInv'
  OBVIOUS
<1>1. CASE Next
  <2>1. up' = TRUE /\ ~Crash /\ ~Restart
    BY <1>1, NeverDown DEF ServiceInv
  <2>2. QED
    BY <1>1, <2>1, ListNext, ReaderNext, AckedNext, ScanNextInv DEF ServiceInv
<1>2. CASE UNCHANGED vars
  <2>1. UNCHANGED <<up, infos, normal, old, writer, readers, pc, cur, want, at, seen,
                    acked, mpc, p1, p2>>
    BY <1>2 DEF vars, memory, disk, clients, merge
  <2>2. ListInv'
    BY <2>1, ListStays DEF Shelved
  <2>3. ReaderInv' /\ AckedInv' /\ ScanInv'
    BY <2>1 DEF ServiceInv, ReaderInv, AckedInv, InPlace, ScanInv
  <2>4. QED
    BY <2>1, <2>2, <2>3 DEF ServiceInv
<1>3. QED
  BY <1>1, <1>2

(* A SELECT that comes to its end has read every INSERT acknowledged when  *)
(* it was issued, whatever merges and INSERTs ran meanwhile                *)
(* (NativeStorage, src/src/storage/tables/native.rs, keeps the read lock). *)
THEOREM SelectReadsAcked == MemoryKept /\ NoCrash => (Spec => []ScanCoversAcked)
<1> SUFFICES ASSUME MemoryKept, NoCrash PROVE Spec => []ScanCoversAcked
  OBVIOUS
<1>1. IInv /\ ListInv /\ ServiceInv => ScanCoversAcked
  <2> SUFFICES ASSUME IInv, ListInv, ServiceInv,
                      NEW c \in Client, pc[c] = "scan", ScanNext(c) = {}
               PROVE  want[c] \subseteq UNION {normal[n].covers : n \in seen[c]}
    BY DEF ScanCoversAcked
  <2>1. writer = NoOne /\ mpc \notin Moving
    BY Bounds DEF ServiceInv, ReaderInv, IInv, LockInv
  <2>2. Members(infos) = Live /\ infos \in Seq(Part)
    BY <2>1 DEF ListInv, ServiceInv, Shelved, Moving, IInv, TypeOK
  <2>3. seen[c] = Live
    <3>1. CASE at[c] = 0
      <4>1. infos = <<>> /\ seen[c] = {}
        BY <3>1 DEF ScanNext, ServiceInv, ScanInv
      <4>2. QED
        BY <2>2, <4>1, EmptySeq DEF Members
    <3>2. CASE at[c] # 0
      <4> DEFINE j == Position(infos, at[c])
      <4>1. j # 0 /\ seen[c] = {infos[i] : i \in 1..j}
        BY <3>2 DEF ServiceInv, ScanInv
      <4>2. j \in 0..Len(infos)
        BY <2>2, PositionType
      <4>3. ~(j < Len(infos))
        BY <3>2, <4>1 DEF ScanNext, After
      <4>4. j = Len(infos)
        BY <2>2, <4>2, <4>3
      <4>5. QED
        BY <2>2, <4>1, <4>4 DEF Members
    <3>3. QED
      BY <3>1, <3>2
  <2>4. \A n \in want[c] : \E m \in Part : n \in normal[m].covers
    BY <2>1 DEF ServiceInv, AckedInv, InPlace, Moving
  <2>5. \A m \in Part : m \notin Live => normal[m].covers = {}
    BY DEF Live, Absent
  <2>6. QED
    BY <2>3, <2>4, <2>5
<1>2. QED
  BY <1>1, ListInit, ServiceInit, ServiceNext, Invariance, PTL DEF Spec

-----------------------------------------------------------------------------
(* What the refinement mapping says in each state *)

(* A running SELECT answers with all that is listed: what it has read and  *)
(* what it is going to read make up the list.                              *)
LEMMA ReadsWholeList ==
    infos \in Seq(Part) /\ ScanInv =>
        \A c \in Client :
            ReadAndLeft(c) = IF pc[c] = "scan" THEN ListedBatches ELSE {}
<1> SUFFICES ASSUME infos \in Seq(Part), ScanInv, NEW c \in Client
             PROVE  ReadAndLeft(c) = IF pc[c] = "scan" THEN ListedBatches ELSE {}
  OBVIOUS
<1> DEFINE p == Position(infos, at[c])
           left == {infos[i] : i \in {j \in DOMAIN infos : j > p}}
<1>1. CASE pc[c] # "scan"
  BY <1>1 DEF ReadAndLeft
<1>2. CASE pc[c] = "scan"
  <2>1. p \in 0..Len(infos) /\ DOMAIN infos = 1..Len(infos) /\ Len(infos) \in Nat
    BY PositionType
  <2>2. seen[c] = {infos[i] : i \in 1..p}
    <3>1. CASE at[c] = 0
      <4>1. 0 \notin Members(infos)
        BY MembersType, Bounds DEF Part
      <4>2. p = 0 /\ seen[c] = {}
        BY <3>1, <4>1, PositionFound DEF ScanInv
      <4>3. QED
        BY <4>2
    <3>2. CASE at[c] # 0
      BY <3>2 DEF ScanInv
    <3>3. QED
      BY <3>1, <3>2
  <2> HIDE DEF p
  <2>3. seen[c] \cup left = Members(infos)
    BY <2>1, <2>2 DEF Members
  <2>4. ReadAndLeft(c) = UNION {StandsFor(n) : n \in seen[c] \cup left}
    BY <1>2 DEF ReadAndLeft, p
  <2> HIDE DEF left
  <2>5. QED
    BY <1>2, <2>3, <2>4 DEF ListedBatches
<1>3. QED
  BY <1>1, <1>2

(* When no merge is moving directories, what is listed is in place.        *)
LEMMA ListedInPlace ==
    ASSUME AllInv, mpc \notin {"rename2", "undo", "publish"}
    PROVE  /\ Members(infos) = Live
           /\ ListedBatches = UNION {normal[n].covers : n \in Live}
BY DEF AllInv, ServiceInv, ListInv, Shelved, ListedBatches, StandsFor

(* Two states whose lists stand for the same look the same.                *)
LEMMA SameListed ==
    ASSUME infos' = infos, \A n \in Members(infos) : StandsFor(n)' = StandsFor(n)
    PROVE  ListedBatches' = ListedBatches
BY DEF ListedBatches

-----------------------------------------------------------------------------
(* Merging is invisible *)

LEMMA MergeInvisible ==
    ASSUME PublishKept, MemoryKept, AllInv, Merge
    PROVE  ListedBatches' = ListedBatches
<1>0. /\ normal \in [Part -> PartDir] /\ old \in [Part -> PartDir]
      /\ infos \in Seq(Part) /\ Members(infos) \subseteq Part /\ Absent \in PartDir
  BY MembersType, AbsentType DEF AllInv, IInv, TypeOK
<1>1. CASE MergeRename1
  <2>1. /\ p1 \in Live /\ infos' = infos
        /\ normal' = [normal EXCEPT ![p1] = Absent]
        /\ old' = [old EXCEPT ![p1] = normal[p1]]
    BY <1>1 DEF MergeRename1, CanShelve, Shelve, memory
  <2>2. p1 \in Part
    BY <2>1 DEF Live
  <2>3. ASSUME NEW n \in Part PROVE StandsFor(n)' = StandsFor(n)
    BY <1>0, <2>1, <2>2, <2>3 DEF StandsFor, Live
  <2>4. QED
    BY <1>0, <2>1, <2>3, SameListed
<1>2. CASE MergeRename2
  <2>1. /\ p2 \in Live /\ infos' = infos
        /\ normal' = [normal EXCEPT ![p2] = Absent]
        /\ old' = [old EXCEPT ![p2] = normal[p2]]
    BY <1>2 DEF MergeRename2, CanShelve, Shelve, memory
  <2>2. p2 \in Part
    BY <2>1 DEF Live
  <2>3. ASSUME NEW n \in Part PROVE StandsFor(n)' = StandsFor(n)
    BY <1>0, <2>1, <2>2, <2>3 DEF StandsFor, Live
  <2>4. QED
    BY <1>0, <2>1, <2>3, SameListed
<1>3. CASE MergeUndo
  <2>1. /\ infos' = infos /\ p1 \in Part /\ normal[p1] = Absent /\ old[p1] # Absent
        /\ normal' = [normal EXCEPT ![p1] = old[p1]]
        /\ old' = [old EXCEPT ![p1] = Absent]
    BY <1>3 DEF MergeUndo, Fail, MemoryKept, AllInv, IInv, MergeInv, Chosen, Moving
  <2>2. ASSUME NEW n \in Part PROVE StandsFor(n)' = StandsFor(n)
    BY <1>0, <2>1, <2>2 DEF StandsFor, Live
  <2>3. QED
    BY <1>0, <2>1, <2>2, SameListed
<1>4. CASE MergePublish
  <2>1. /\ mpc = "publish" /\ old' = old /\ p1' = p1 /\ p2' = p2
        /\ infos' = Append(Forget(Forget(infos, p1), p2), p2)
        /\ normal' = [normal EXCEPT ![p2] = raw[p2]]
    BY <1>4 DEF MergePublish
  <2>2. /\ p1 \in Part /\ p2 \in Part /\ p1 # p2
        /\ p1 \notin Live /\ p2 \notin Live
        /\ raw[p2].covers = old[p1].covers \cup old[p2].covers
        /\ raw[p2].covers # {}
    BY <2>1 DEF AllInv, IInv, MergeInv, Chosen, Moving, Live
  <2>3. Distinct(infos) /\ Members(infos) = Live \cup {p1, p2}
    BY <2>1 DEF AllInv, ServiceInv, ListInv, Shelved
  <2>4. Members(infos') = Live \cup {p2}
    <3>1. Forget(infos, p1) \in Seq(Part) /\ Distinct(Forget(infos, p1))
          /\ Members(Forget(infos, p1)) = Members(infos) \ {p1}
      BY <1>0, <2>3, ForgetExact
    <3>2. Forget(Forget(infos, p1), p2) \in Seq(Part)
          /\ Members(Forget(Forget(infos, p1), p2)) = (Members(infos) \ {p1}) \ {p2}
      BY <3>1, ForgetExact
    <3>3. Members(infos') = ((Members(infos) \ {p1}) \ {p2}) \cup {p2}
      BY <2>1, <2>2, <3>2, AppendMembers
    <3>4. QED
      BY <2>2, <2>3, <3>3
  <2>5. raw[p2] # Absent
    BY <2>2 DEF Absent
  <2>6. StandsFor(p2)' = StandsFor(p1) \cup StandsFor(p2)
    <3>1. normal'[p2] = raw[p2] /\ p2 \in Live'
      BY <1>0, <2>1, <2>2, <2>5 DEF Live
    <3>2. StandsFor(p2)' = raw[p2].covers
      BY <2>1, <3>1 DEF StandsFor
    <3>3. StandsFor(p1) = old[p1].covers /\ StandsFor(p2) = old[p2].covers
      BY <2>2 DEF StandsFor
    <3>4. QED
      BY <2>2, <3>2, <3>3
  <2>7. \A n \in Live : StandsFor(n)' = StandsFor(n)
    BY <1>0, <2>1, <2>2 DEF StandsFor, Live
  <2>8. ASSUME NEW b PROVE b \in ListedBatches' <=> b \in ListedBatches
    <3>1. b \in ListedBatches' <=> \E n \in Live \cup {p2} : b \in StandsFor(n)'
      BY <2>4 DEF ListedBatches
    <3>2. b \in ListedBatches <=> \E n \in Live \cup {p1, p2} : b \in StandsFor(n)
      BY <2>3 DEF ListedBatches
    <3>3. QED
      BY <2>1, <2>6, <2>7, <3>1, <3>2
  <2>9. QED
    BY <2>8
<1>5. CASE MergeRename2Fails
  BY <1>5 DEF MergeRename2Fails, memory, disk, ListedBatches, StandsFor, Live
<1>6. CASE MergePublishFails
  BY <1>6 DEF MergePublishFails, Fail, PublishKept
<1>7. CASE \/ MergeGate \/ MergeFind \/ MergeLoad \/ MergeLoadFails
           \/ MergeLoadPanics \/ MergeSave \/ MergeLock \/ MergeRename1Fails
           \/ MergeRemove1 \/ MergeRemove2
  <2>1. UNCHANGED <<infos, normal>> /\ mpc \notin {"rename2", "undo", "publish"}
    BY <1>7 DEF MergeGate, MergeFind, MergeLoad, MergeLoadFails, MergeLoadPanics,
       MergeSave, MergeLock, MergeRename1Fails, MergeRemove1, MergeRemove2,
       memory, disk
  <2>2. Members(infos) = Live
    BY <2>1, ListedInPlace
  <2>3. \A n \in Live : StandsFor(n)' = StandsFor(n)
    BY <2>1 DEF StandsFor, Live
  <2>4. QED
    BY <2>1, <2>2, <2>3, SameListed
<1>8. QED
  BY <1>1, <1>2, <1>3, <1>4, <1>5, <1>6, <1>7 DEF Merge

-----------------------------------------------------------------------------
(* The steps of clients *)

(* All but a publishing INSERT leave what is listed alone.                 *)
LEMMA ClientListed ==
    ASSUME NEW c \in Client, Insert(c) \/ Select(c)
    PROVE  InsertPublish(c) \/ ListedBatches' = ListedBatches
BY DEF Insert, Select, InsertIssue, InsertLock, InsertSave, InsertSaveFails,
   InsertPublishFails, InsertAck, SelectIssue, SelectLock, SelectRead, SelectEnd,
   SelectReadFails, SelectLeave, memory, disk, ListedBatches, StandsFor, Live

(* The rows of an INSERT become readable in the step that publishes them.  *)
LEMMA PublishListed ==
    ASSUME AllInv, NEW c \in Client, InsertPublish(c)
    PROVE  /\ cur[c] \in Part \ ListedBatches
           /\ ListedBatches' = ListedBatches \cup {cur[c]}
           /\ \A d \in Client : pc[d] # "scan"
<1> DEFINE n == cur[c]
<1>0. /\ normal \in [Part -> PartDir] /\ infos \in Seq(Part) /\ Live \subseteq Part
  BY DEF AllInv, IInv, TypeOK, Live
<1>1. /\ n \in Part /\ n \notin Live /\ raw[n] = Fresh(n) /\ writer = c
      /\ \A m \in Part : n \notin normal[m].covers
  BY DEF InsertPublish, Writing, AllInv, IInv, FreshInv, LockInv, Live
<1>2. mpc \notin Moving
  BY <1>1, Bounds DEF AllInv, IInv, LockInv
<1>3. Members(infos) = Live /\ ListedBatches = UNION {normal[m].covers : m \in Live}
  BY <1>2, ListedInPlace DEF Moving
<1>4. /\ infos' = Append(infos, n) /\ old' = old
      /\ normal' = [normal EXCEPT ![n] = Fresh(n)]
  BY <1>1 DEF InsertPublish
<1> HIDE DEF n
<1>5. Fresh(n) # Absent /\ Fresh(n).covers = {n}
  BY <1>1, FreshType DEF Absent
<1>6. Members(infos') = Live \cup {n}
  BY <1>0, <1>1, <1>3, <1>4, AppendMembers
<1>7. (\A m \in {n} : StandsFor(m)' = {n}) /\ \A m \in Live : StandsFor(m)' = normal[m].covers
  <2>1. normal'[n] = Fresh(n) /\ \A m \in Part \ {n} : normal'[m] = normal[m]
    BY <1>0, <1>1, <1>4
  <2>2. n \in Live' /\ Live \subseteq Live'
    BY <1>0, <1>1, <1>5, <2>1 DEF Live
  <2>3. QED
    BY <1>0, <1>1, <1>5, <2>1, <2>2 DEF StandsFor
<1>8. ListedBatches' = ListedBatches \cup {n}
  <2>1. ASSUME NEW b PROVE b \in ListedBatches' <=> b \in ListedBatches \cup {n}
    <3>1. b \in ListedBatches' <=> \E m \in Live \cup {n} : b \in StandsFor(m)'
      BY <1>6 DEF ListedBatches
    <3>2. b \in ListedBatches <=> \E m \in Live : b \in normal[m].covers
      BY <1>3
    <3>3. QED
      BY <1>7, <3>1, <3>2
  <2>2. QED
    BY <2>1
<1>9. n \notin ListedBatches
  BY <1>0, <1>1, <1>3
<1>10. \A d \in Client : pc[d] # "scan"
  BY <1>1, Bounds DEF AllInv, ServiceInv, ReaderInv
<1>11. QED
  BY <1>1, <1>8, <1>9, <1>10 DEF n

-----------------------------------------------------------------------------
(* The refinement *)

LEMMA ServiceInitial == Init => Service!Init
<1> SUFFICES ASSUME Init PROVE Service!Init
  OBVIOUS
<1>1. ListedBatches = {}
  <2>1. Members(infos) = {}
    BY EmptySeq DEF Init, Members
  <2>2. QED
    BY <2>1 DEF ListedBatches
<1>2. \A c \in Client : CallOf(c) = "idle" /\ ReadAndLeft(c) = {}
  BY DEF Init, CallOf, ReadAndLeft
<1>3. QED
  BY <1>1, <1>2 DEF Service!Init

Calls == [c \in Client |-> CallOf(c)]
Results == [c \in Client |-> ReadAndLeft(c)]

LEMMA CallsFollow ==
    ASSUME pc \in [Client -> ClientPC], NEW c \in Client, NEW w \in ClientPC,
           pc' = [pc EXCEPT ![c] = w]
    PROVE  /\ Calls[c] = IF pc[c] \in {"save", "publish"} THEN "insert" ELSE pc[c]
           /\ Calls' = [Calls EXCEPT ![c] = IF w \in {"save", "publish"}
                                           THEN "insert" ELSE w]
BY DEF Calls, CallOf

(* Before and after a step, the running SELECTs answer with the whole list.*)
LEMMA ResultsAre ==
    ASSUME AllInv, AllInv'
    PROVE  /\ Results = [c \in Client |-> IF pc[c] = "scan" THEN ListedBatches ELSE {}]
           /\ Results' = [c \in Client |-> IF pc'[c] = "scan" THEN ListedBatches' ELSE {}]
<1>1. /\ infos \in Seq(Part) /\ ScanInv
      /\ infos' \in Seq(Part) /\ ScanInv'
  BY DEF AllInv, IInv, TypeOK, ServiceInv
<1>2. \A c \in Client : ReadAndLeft(c) = IF pc[c] = "scan" THEN ListedBatches ELSE {}
  BY <1>1, ReadsWholeList
<1>3. \A c \in Client : ReadAndLeft(c)' = IF pc'[c] = "scan" THEN ListedBatches' ELSE {}
  <2>1. (infos \in Seq(Part) /\ ScanInv =>
            \A c \in Client :
                ReadAndLeft(c) = IF pc[c] = "scan" THEN ListedBatches ELSE {})'
    BY ReadsWholeList, PTL
  <2>2. QED
    BY <1>1, <2>1
<1>4. QED
  BY <1>2, <1>3 DEF Results

(* A step that neither starts nor ends a scan leaves the results alone.    *)
LEMMA ResultsStay ==
    ASSUME AllInv, AllInv',
           ListedBatches' = ListedBatches \/ \A c \in Client : pc[c] # "scan",
           \A c \in Client : pc'[c] = "scan" <=> pc[c] = "scan"
    PROVE  Results' = Results
BY ResultsAre

(* Every step of a client is a step of the table service or invisible.     *)
LEMMA ClientMaps ==
    ASSUME AllInv, AllInv', NEW c \in Client, Insert(c) \/ Select(c)
    PROVE  Service!Next \/ UNCHANGED Service!serviceVars
<1>0. /\ pc \in [Client -> ClientPC] /\ infos \in Seq(Part) /\ infos' \in Seq(Part)
      /\ ScanInv /\ ScanInv'
  BY DEF AllInv, IInv, TypeOK, ServiceInv
<1>l. InsertPublish(c) \/ ListedBatches' = ListedBatches
  BY ClientListed
<1> USE DEF ClientPC
<1>1. CASE InsertIssue(c) \/ SelectIssue(c)
  <2>1. PICK w \in {"insert", "select"} : pc[c] = "idle" /\ pc' = [pc EXCEPT ![c] = w]
    BY <1>1 DEF InsertIssue, SelectIssue, Goto
  <2>2. Calls[c] = "idle" /\ Calls' = [Calls EXCEPT ![c] = w]
    BY <1>0, <2>1, CallsFollow
  <2>3. ListedBatches' = ListedBatches
    BY <1>1, <1>l DEF InsertIssue, SelectIssue, InsertPublish
  <2>4. Results' = Results
    BY <1>0, <2>1, <2>3, ResultsStay
  <2>5. Service!Call(c)
    BY <2>2, <2>3, <2>4 DEF Service!Call, Service!Step, Calls, Results
  <2>6. QED
    BY <2>5 DEF Service!Next
<1>2. CASE InsertLock(c) \/ InsertSave(c)
  <2>1. /\ pc[c] \in {"insert", "save"} 
        /\ \E w \in {"save", "publish"} : pc' = [pc EXCEPT ![c] = w]
    BY <1>2 DEF InsertLock, InsertSave, Goto
  <2>2. Calls' = Calls
    BY <1>0, <2>1 DEF Calls, CallOf
  <2>3. ListedBatches' = ListedBatches
    BY <1>2, <1>l DEF InsertLock, InsertSave, InsertPublish
  <2>4. Results' = Results
    BY <1>0, <2>1, <2>3, ResultsStay
  <2>5. QED
    BY <2>2, <2>3, <2>4 DEF Service!serviceVars, Calls, Results
<1>3. CASE InsertSaveFails(c) \/ InsertPublishFails(c)
  <2>1. pc[c] \in {"save", "publish"} /\ pc' = [pc EXCEPT ![c] = "idle"]
    BY <1>3 DEF InsertSaveFails, InsertPublishFails, Goto
  <2>2. Calls[c] = "insert" /\ Calls' = [Calls EXCEPT ![c] = "idle"]
    BY <1>0, <2>1, CallsFollow
  <2>3. ListedBatches' = ListedBatches
    BY <1>3 DEF InsertSaveFails, InsertPublishFails, disk, ListedBatches, StandsFor, Live
  <2>4. Results' = Results
    BY <1>0, <2>1, <2>3, ResultsStay
  <2>5. Service!Refuse(c)
    BY <2>2, <2>3, <2>4 DEF Service!Refuse, Service!Step, Calls, Results
  <2>6. QED
    BY <2>5 DEF Service!Next
<1>4. CASE InsertPublish(c)
  <2>1. pc[c] = "publish" /\ pc' = [pc EXCEPT ![c] = "done"]
    BY <1>4 DEF InsertPublish, Goto
  <2>2. Calls[c] = "insert" /\ Calls' = [Calls EXCEPT ![c] = "done"]
    BY <1>0, <2>1, CallsFollow
  <2>3. /\ cur[c] \in Part \ ListedBatches
        /\ ListedBatches' = ListedBatches \cup {cur[c]}
        /\ \A d \in Client : pc[d] # "scan"
    BY <1>4, PublishListed
  <2>4. Results' = Results
    BY <1>0, <2>1, <2>3, ResultsStay
  <2>5. Service!TakeEffect(c)
    BY <2>2, <2>3, <2>4 DEF Service!TakeEffect, Service!Step, Calls, Results
  <2>6. QED
    BY <2>5 DEF Service!Next
<1>5. CASE InsertAck(c)
  <2>1. pc[c] = "done" /\ pc' = [pc EXCEPT ![c] = "idle"]
    BY <1>5 DEF InsertAck, Goto
  <2>2. Calls[c] = "done" /\ Calls' = [Calls EXCEPT ![c] = "idle"]
    BY <1>0, <2>1, CallsFollow
  <2>3. ListedBatches' = ListedBatches
    BY <1>5, <1>l DEF InsertAck, InsertPublish
  <2>4. Results' = Results
    BY <1>0, <2>1, <2>3, ResultsStay
  <2>5. Service!Confirm(c)
    BY <2>2, <2>3, <2>4 DEF Service!Confirm, Service!Step, Calls, Results
  <2>6. QED
    BY <2>5 DEF Service!Next
<1>6. CASE SelectLock(c)
  <2>1. pc[c] = "select" /\ pc' = [pc EXCEPT ![c] = "scan"]
    BY <1>6 DEF SelectLock, Goto
  <2>2. Calls[c] = "select" /\ Calls' = [Calls EXCEPT ![c] = "scan"]
    BY <1>0, <2>1, CallsFollow
  <2>3. ListedBatches' = ListedBatches
    BY <1>6, <1>l DEF SelectLock, InsertPublish
  <2>4. Results' = [Results EXCEPT ![c] = ListedBatches]
    BY <1>0, <2>1, <2>3, ResultsAre
  <2>5. Service!Snapshot(c)
    BY <2>2, <2>3, <2>4 DEF Service!Snapshot, Service!Step, Calls, Results
  <2>6. QED
    BY <2>5 DEF Service!Next
<1>7. CASE SelectRead(c)
  <2>1. pc' = pc
    BY <1>7 DEF SelectRead
  <2>2. ListedBatches' = ListedBatches
    BY <1>7, <1>l DEF SelectRead, InsertPublish
  <2>3. Calls' = Calls /\ Results' = Results
    BY <2>1, <2>2, ResultsStay DEF Calls, CallOf
  <2>4. QED
    BY <2>2, <2>3 DEF Service!serviceVars, Calls, Results
<1>8. CASE SelectEnd(c) \/ SelectReadFails(c)
  <2>1. pc[c] = "scan" /\ pc' = [pc EXCEPT ![c] = "idle"]
    BY <1>8 DEF SelectEnd, SelectReadFails, SelectLeave, Goto
  <2>2. Calls[c] = "scan" /\ Calls' = [Calls EXCEPT ![c] = "idle"]
    BY <1>0, <2>1, CallsFollow
  <2>3. ListedBatches' = ListedBatches
    BY <1>8 DEF SelectEnd, SelectReadFails, disk, ListedBatches, StandsFor, Live
  <2>4. Results' = [Results EXCEPT ![c] = {}]
    BY <1>0, <2>1, <2>3, ResultsAre
  <2>5. Service!Answer(c)
    BY <2>2, <2>3, <2>4 DEF Service!Answer, Service!Step, Calls, Results
  <2>6. QED
    BY <2>5 DEF Service!Next
<1>9. QED
  BY <1>1, <1>2, <1>3, <1>4, <1>5, <1>6, <1>7, <1>8 DEF Insert, Select

(* A step of the merge thread is invisible.                                *)
LEMMA MergeMaps ==
    ASSUME MemoryKept, PublishKept, AllInv, AllInv', Merge
    PROVE  UNCHANGED Service!serviceVars
<1>1. ListedBatches' = ListedBatches
  BY MergeInvisible
<1>2. pc' = pc
  BY MergeSteps
<1>3. Calls' = Calls /\ Results' = Results
  BY <1>1, <1>2, ResultsStay DEF Calls, CallOf
<1>4. QED
  BY <1>1, <1>3 DEF Service!serviceVars, Calls, Results

LEMMA IdleMaps ==
    ASSUME UNCHANGED vars
    PROVE  UNCHANGED Service!serviceVars
BY DEF vars, memory, disk, clients, merge, Service!serviceVars, ListedBatches,
   StandsFor, Live, CallOf, ReadAndLeft

(* Clients cannot tell the table from one that has no parts: an INSERT     *)
(* takes effect at one instant or never, a SELECT answers from one instant *)
(* (try_from_mut, move_to_normal, atomic_part_move: src/src/storage/       *)
(* table_part.rs and src/src/background_merge.rs).                         *)
THEOREM PartsAreInvisible ==
    MemoryKept /\ NoCrash /\ PublishKept => (Spec => ImplementsService)
<1> SUFFICES ASSUME MemoryKept, NoCrash, PublishKept PROVE Spec => ImplementsService
  OBVIOUS
<1>1. IInv /\ ListInv /\ ServiceInv /\ [Next]_vars => ListInv' /\ ServiceInv'
  BY ServiceNext
<1>2. AllInv /\ AllInv' /\ [Next]_vars => [Service!Next]_(Service!serviceVars)
  <2> SUFFICES ASSUME AllInv, AllInv', [Next]_vars
               PROVE  Service!Next \/ UNCHANGED Service!serviceVars
    OBVIOUS
  <2>1. CASE UNCHANGED vars
    BY <2>1, IdleMaps
  <2>2. CASE Next
    <3>1. ~Crash /\ ~Restart
      BY <2>2, NeverDown DEF AllInv, ServiceInv
    <3>2. QED
      BY <2>2, <3>1, ClientMaps, MergeMaps DEF Next
  <2>3. QED
    BY <2>1, <2>2
<1>3. AllInv <=> IInv /\ ListInv /\ ServiceInv
  BY DEF AllInv
<1>4. QED
  BY <1>1, <1>2, <1>3, ListInit, ServiceInit, ServiceInitial, Invariance, PTL
     DEF Spec, ImplementsService, Service!Spec
=============================================================================
