--------------------------- MODULE Catalog_proofs ---------------------------
(***************************************************************************)
(* What holds of the catalog for every number of databases, tables,        *)
(* clients, merges, crashes and metadata files that cannot be written.     *)
(***************************************************************************)
EXTENDS Catalog, TLAPS

Making == {"create dir", "create meta", "create publish"}

(* A CREATE TABLE that passed the vacant entry holds the table's lock, and *)
(* there is no entry yet.                                                  *)
HoldInv ==
    \A c \in Definer : pc[c] \in Making =>
        \E t \in Table : subject[c] = {t} /\ lock[t] = c /\ entry[t] = 0

(* One command is about one table, but for DROP DATABASE. *)
OneTable ==
    \A c \in Client :
        pc[c] \notin {"idle", "retain", "open all", "rm all"} =>
            \E t \in Table : subject[c] = {t}

(* A process that is not up has no entries and no commands. *)
DownInv ==
    status # "up" => /\ \A t \in Table : entry[t] = 0
                     /\ \A c \in Client : pc[c] = "idle"
                     /\ mpc = "idle"

(* An INSERT that looked its table up keeps the lock. *)
InsertInv ==
    \A c \in Inserter :
        /\ pc[c] # "idle" => schema[c] # 0
        /\ pc[c] \in {"insert write", "insert rename"} =>
              \E t \in Table : subject[c] = {t} /\ lock[t] = c /\ entry[t] # 0

RoleInv ==
    /\ \A c \in Inserter : pc[c] \in {"idle", "insert lock", "insert write", "insert rename"}
    /\ \A c \in Definer : pc[c] \notin {"insert lock", "insert write", "insert rename"}

(* A table in use has its directory, and no DROP is at work on it, unless  *)
(* the two overlapped.                                                     *)
Sound(t) == dir[t].there /\ \A c \in Client : ~PastRemoval(c, t)

DirInv ==
    /\ \A t \in Table : dir[t].meta # 0 => dir[t].there
    /\ \A t \in Table \ overlapped : entry[t] # 0 => Sound(t)
    /\ \A c \in Definer : pc[c] \in {"create meta", "create publish"} =>
          \A t \in subject[c] \ overlapped : Sound(t)

(* Only a DROP that removes directories has a listing. *)
ListedOK ==
    /\ listed = [c \in Client |-> listed[c]]
    /\ \A c \in Client : pc[c] \notin {"rm", "rm all"} => listed[c] = {}

CInv == TypeOK /\ ListedOK /\ RoleInv /\ OneTable /\ DownInv /\ HoldInv /\ InsertInv /\ DirInv

-----------------------------------------------------------------------------
DirType == [there : BOOLEAN, meta : Schema \cup {0}, parts : SUBSET Schema,
            raw : SUBSET Writer]

LEMMA InitInv ==
    ASSUME Init
    PROVE  CInv
<1>1. TypeOK /\ ListedOK
  <2>1. dir \in [Table -> DirType]
    BY DEF Init, NoDir, DirType
  <2>2. /\ schemas \in 0..MaxSchemas /\ inserts \in 0..MaxInserts /\ merges \in 0..MaxMerges
        /\ crashes \in 0..MaxCrashes
    BY CatalogAssumption DEF Init
  <2>3. \A c \in Client : {e[1] : e \in listed[c]} \subseteq subject[c]
    BY DEF Init
  <2>4. pc \in [Client -> Where]
    BY DEF Init, Where
  <2>5. /\ status \in {"up", "down", "refused"}
        /\ entry \in [Table -> Schema \cup {0}] /\ lock \in [Table -> Client \cup {NoOne}]
        /\ databases \subseteq Database /\ subject \in [Client -> SUBSET Table]
        /\ schema \in [Client -> Schema \cup {0}] /\ shards \in [Client -> SUBSET Table]
        /\ mpc \in {"idle", "save", "move"} /\ mtable \subseteq Table
        /\ mschema \in Schema \cup {0} /\ interrupted \in BOOLEAN /\ overlapped \subseteq Table
        /\ leftover \subseteq Table
    BY DEF Init
  <2>6. ListedOK
    BY DEF Init, ListedOK, Client
  <2>7. QED
    BY <2>1, <2>2, <2>3, <2>4, <2>5, <2>6 DEF TypeOK, DirType
<1>2. RoleInv /\ OneTable /\ DownInv /\ HoldInv /\ InsertInv
  BY DEF Init, RoleInv, OneTable, DownInv, HoldInv, InsertInv, Making, Client
<1>3. DirInv
  BY DEF Init, DirInv, NoDir, Client
<1>4. QED
  BY <1>1, <1>2, <1>3 DEF CInv

(* The variables of the commands stay in their sets. *)
ClientsOK ==
    /\ pc \in [Client -> Where] /\ subject \in [Client -> SUBSET Table]
    /\ schema \in [Client -> Schema \cup {0}] /\ shards \in [Client -> SUBSET Table]
    /\ \A c \in Client : {e[1] : e \in listed[c]} \subseteq subject[c]
    /\ lock \in [Table -> Client \cup {NoOne}]
    /\ ListedOK

(* What answering a command leaves. *)
LEMMA AnswerEffect ==
    ASSUME TypeOK, ListedOK, NEW c \in Client, Answer(c)
    PROVE  ClientsOK'
<1>1. /\ pc' = [pc EXCEPT ![c] = "idle"]
      /\ subject' = [subject EXCEPT ![c] = {}]
      /\ schema' = [schema EXCEPT ![c] = 0]
      /\ shards' = [shards EXCEPT ![c] = {}]
      /\ listed' = [listed EXCEPT ![c] = {}]
      /\ lock' = [t \in Table |-> IF lock[t] = c THEN NoOne ELSE lock[t]]
  BY DEF Answer, Goto
<1>2. pc' \in [Client -> Where]
  BY <1>1 DEF TypeOK, Where
<1>3. /\ subject' \in [Client -> SUBSET Table] /\ schema' \in [Client -> Schema \cup {0}]
      /\ shards' \in [Client -> SUBSET Table]
  BY <1>1 DEF TypeOK
<1>4. ListedOK'
  BY <1>1 DEF ListedOK, TypeOK
<1>5. ASSUME NEW d \in Client PROVE {e[1] : e \in listed'[d]} \subseteq subject'[d]
  <2>1. CASE d = c
    BY <1>1, <2>1 DEF ListedOK
  <2>2. CASE d # c
    <3>1. listed'[d] = listed[d] /\ subject'[d] = subject[d]
      BY <1>1, <2>2 DEF ListedOK, TypeOK
    <3>2. QED
      BY <3>1 DEF TypeOK
  <2>3. QED
    BY <2>1, <2>2
<1>6. lock' \in [Table -> Client \cup {NoOne}]
  BY <1>1 DEF TypeOK
<1>7. QED
  BY <1>2, <1>3, <1>4, <1>5, <1>6 DEF ClientsOK

(* A command goes on, with its tables, its listing and perhaps a lock.     *)
LEMMA GoOnEffect ==
    ASSUME TypeOK, ListedOK, NEW c \in Client, NEW w \in Where, Goto(c, w),
           UNCHANGED <<subject, listed>>, listed[c] = {} \/ w \in {"rm", "rm all"},
           schema' \in [Client -> Schema \cup {0}],
           shards' \in [Client -> SUBSET Table],
           lock' \in [Table -> Client \cup {NoOne}]
    PROVE  ClientsOK'
<1>1. pc' = [pc EXCEPT ![c] = w] /\ pc' \in [Client -> Where]
  BY DEF Goto, TypeOK
<1>2. ListedOK'
  BY <1>1 DEF ListedOK, TypeOK
<1>3. QED
  BY <1>1, <1>2 DEF ClientsOK, TypeOK

(* A command is issued. *)
LEMMA IssueEffect ==
    ASSUME TypeOK, ListedOK, NEW c \in Client, NEW w \in Where, NEW ts \in SUBSET Table,
           Issue(c, ts, w), UNCHANGED <<listed, lock>>,
           schema' \in [Client -> Schema \cup {0}],
           shards' \in [Client -> SUBSET Table]
    PROVE  ClientsOK'
<1>1. /\ pc' = [pc EXCEPT ![c] = w] /\ pc' \in [Client -> Where] /\ pc[c] = "idle"
      /\ subject' = [subject EXCEPT ![c] = ts] /\ subject' \in [Client -> SUBSET Table]
  BY DEF Issue, Goto, TypeOK
<1>2. ListedOK' /\ listed[c] = {}
  BY <1>1 DEF ListedOK, TypeOK
<1>3. ASSUME NEW d \in Client PROVE {e[1] : e \in listed'[d]} \subseteq subject'[d]
  <2>1. CASE d = c
    BY <1>2, <2>1
  <2>2. CASE d # c
    <3>1. listed'[d] = listed[d] /\ subject'[d] = subject[d]
      BY <1>1, <2>2 DEF TypeOK
    <3>2. QED
      BY <3>1 DEF TypeOK
  <2>3. QED
    BY <2>1, <2>2
<1>4. QED
  BY <1>1, <1>2, <1>3 DEF ClientsOK, TypeOK

(* A DROP works off a part of its listing. *)
LEMMA ListEffect ==
    ASSUME TypeOK, ListedOK, NEW c \in Client, NEW l,
           listed' = [listed EXCEPT ![c] = l], {e[1] : e \in l} \subseteq subject[c],
           NEW w \in {"rm", "rm all"}, pc' = [pc EXCEPT ![c] = w],
           UNCHANGED <<subject, schema, shards, lock>>
    PROVE  ClientsOK'
<1>1. pc' \in [Client -> Where]
  BY DEF TypeOK, Where
<1>2. ListedOK'
  BY DEF ListedOK, TypeOK
<1>3. ASSUME NEW d \in Client PROVE {e[1] : e \in listed'[d]} \subseteq subject'[d]
  <2>1. listed'[d] = IF d = c THEN l ELSE listed[d]
    BY DEF ListedOK
  <2>2. QED
    BY <2>1 DEF TypeOK
<1>4. QED
  BY <1>1, <1>2, <1>3 DEF ClientsOK, TypeOK

LEMMA CreateClients ==
    ASSUME CInv, NEW c \in Definer, Create(c)
    PROVE  ClientsOK'
<1> USE DEF CInv
<1>0. c \in Client
  BY DEF Client
<1>1. CASE CreateDatabase(c)
  BY <1>1 DEF CreateDatabase, commands, ClientsOK, TypeOK, ListedOK
<1>2. CASE CreateIssue(c)
  <2>1. PICK t \in Table : Issue(c, {t}, "create entry")
    BY <1>2 DEF CreateIssue
  <2>2. UNCHANGED <<listed, lock, shards>> /\ schema' \in [Client -> Schema \cup {0}]
    <3>0. schemas \in 0..MaxSchemas /\ schemas < MaxSchemas
      BY <1>2 DEF CreateIssue, TypeOK
    <3>1. schemas + 1 \in Schema
      BY <3>0, CatalogAssumption DEF Schema
    <3>2. QED
      BY <1>0, <1>2, <3>1 DEF CreateIssue, TypeOK
  <2>3. "create entry" \in Where /\ {t} \in SUBSET Table
    BY DEF Where
  <2>4. shards' \in [Client -> SUBSET Table]
    BY <2>2 DEF TypeOK
  <2>5. QED
    BY <1>0, <2>1, <2>2, <2>3, <2>4, IssueEffect
<1>3. CASE CreateEntry(c)
  <2>1. PICK t \in subject[c] :
          /\ lock[t] = NoOne
          /\ IF entry[t] # 0 THEN Answer(c)
             ELSE /\ lock' = [lock EXCEPT ![t] = c]
                  /\ Goto(c, "create dir")
                  /\ UNCHANGED <<subject, schema, shards, listed>>
    BY <1>3 DEF CreateEntry
  <2>2. CASE entry[t] # 0
    BY <1>0, <2>1, <2>2, AnswerEffect
  <2>3. CASE entry[t] = 0
    <3>1. pc[c] = "create entry"
      BY <1>3 DEF CreateEntry
    <3>2. lock' \in [Table -> Client \cup {NoOne}] /\ schema' = schema
      BY <1>0, <2>1, <2>3 DEF TypeOK
    <3>3. QED
      BY <1>0, <2>1, <2>3, <3>1, <3>2, GoOnEffect, "create dir" \in Where, ZenonT(40)
         DEF TypeOK, ListedOK, Where
  <2>4. QED
    BY <2>2, <2>3
<1>4. CASE CreateDir(c)
  <2>1. CASE Answer(c)
    BY <1>0, <2>1, AnswerEffect
  <2>2. CASE Goto(c, "create meta") /\ UNCHANGED <<lock, subject, schema, shards, listed>>
    BY <1>0, <1>4, <2>2, GoOnEffect, "create meta" \in Where
       DEF CreateDir, TypeOK, ListedOK, Where
  <2>3. QED
    BY <1>4, <2>1, <2>2 DEF CreateDir
<1>5. CASE CreateMeta(c)
  BY <1>0, <1>5, GoOnEffect, "create publish" \in Where
     DEF CreateMeta, TypeOK, ListedOK, Where
<1>6. CASE CreateMetaFails(c) \/ CreateCleanUpFails(c) \/ CreatePublish(c)
  BY <1>0, <1>6, AnswerEffect DEF CreateMetaFails, CreateCleanUpFails, CreatePublish
<1>7. QED
  BY <1>1, <1>2, <1>3, <1>4, <1>5, <1>6 DEF Create

LEMMA DropClients ==
    ASSUME CInv, NEW c \in Definer, Drop(c)
    PROVE  ClientsOK'
<1> USE DEF CInv
<1>0. c \in Client
  BY DEF Client
<1>1. CASE DropTableIssue(c)
  <2>1. PICK t \in Table : Issue(c, {t}, "drop check")
    BY <1>1 DEF DropTableIssue
  <2>2. "drop check" \in Where /\ {t} \in SUBSET Table
    BY DEF Where
  <2>3. /\ UNCHANGED <<listed, lock>> /\ schema' \in [Client -> Schema \cup {0}]
        /\ shards' \in [Client -> SUBSET Table]
    BY <1>1 DEF DropTableIssue, TypeOK
  <2>4. QED
    BY <1>0, <2>1, <2>2, <2>3, IssueEffect
<1>2. CASE DropCheck(c)
  <2>1. CASE Answer(c)
    BY <1>0, <2>1, AnswerEffect
  <2>2. CASE Goto(c, "drop remove") /\ UNCHANGED <<lock, subject, schema, shards, listed>>
    BY <1>0, <1>2, <2>2, GoOnEffect, "drop remove" \in Where
       DEF DropCheck, TypeOK, ListedOK, Where
  <2>3. QED
    BY <1>2, <2>1, <2>2 DEF DropCheck
<1>3. CASE DropRemove(c)
  BY <1>0, <1>3, GoOnEffect, "open" \in Where DEF DropRemove, TypeOK, ListedOK, Where
<1>4. CASE DropDatabaseIssue(c)
  <2>1. PICK d \in Database : /\ Issue(c, TablesOf(d), "retain")
                              /\ shards' = [shards EXCEPT ![c] = TablesOf(d)]
    BY <1>4 DEF DropDatabaseIssue
  <2>2. "retain" \in Where /\ TablesOf(d) \in SUBSET Table
    BY DEF Where, TablesOf
  <2>3. /\ UNCHANGED <<listed, lock>> /\ schema' \in [Client -> Schema \cup {0}]
        /\ shards' \in [Client -> SUBSET Table]
    BY <1>4, <2>1, <2>2 DEF DropDatabaseIssue, TypeOK
  <2>4. QED
    BY <1>0, <2>1, <2>2, <2>3, IssueEffect
<1>5. CASE Retain(c)
  <2>1. PICK t \in shards[c] :
           /\ shards' = [shards EXCEPT ![c] = @ \ {t}]
           /\ IF shards[c] = {t} THEN Goto(c, "open all") ELSE UNCHANGED pc
    BY <1>5 DEF Retain
  <2>2. UNCHANGED <<lock, subject, schema, listed>> /\ pc[c] = "retain"
    BY <1>5 DEF Retain
  <2>3. shards' \in [Client -> SUBSET Table]
    BY <2>1 DEF TypeOK
  <2>4. Goto(c, "open all") \/ Goto(c, "retain")
    BY <2>1, <2>2 DEF Goto, TypeOK
  <2>5. QED
    BY <1>0, <2>2, <2>3, <2>4, GoOnEffect, "open all" \in Where, "retain" \in Where
       DEF TypeOK, ListedOK, Where
<1>6. CASE Open(c)
  <2>1. CASE Answer(c)
    BY <1>0, <2>1, AnswerEffect
  <2>2. CASE /\ listed' = [listed EXCEPT ![c] = Listing(subject[c])]
             /\ Goto(c, IF pc[c] = "open" THEN "rm" ELSE "rm all")
             /\ UNCHANGED <<lock, subject, schema, shards>>
    <3>1. {e[1] : e \in Listing(subject[c])} \subseteq subject[c]
      BY DEF Listing
    <3>2. QED
      BY <1>0, <2>2, <3>1, ListEffect DEF Goto
  <2>3. QED
    BY <1>6, <2>1, <2>2 DEF Open
<1>7. CASE RemoveItem(c)
  <2>1. PICK l : listed' = [listed EXCEPT ![c] = l] /\ l \subseteq listed[c]
    <3>1. PICK t \in subject[c] : \E i \in Items(t) :
             listed' = [listed EXCEPT ![c] = listed[c] \ {<<t, i>>}]
      BY <1>7 DEF RemoveItem
    <3>2. QED
      BY <3>1
  <2>2. {e[1] : e \in l} \subseteq subject[c]
    BY <1>0, <2>1 DEF TypeOK
  <2>3. /\ UNCHANGED <<pc, subject, schema, shards, lock>> /\ pc[c] \in {"rm", "rm all"}
        /\ pc' = [pc EXCEPT ![c] = pc[c]]
    BY <1>7 DEF RemoveItem, TypeOK
  <2>4. QED
    BY <1>0, <2>1, <2>2, <2>3, ListEffect
<1>8. CASE RemoveDir(c)
  <2>1. CASE Answer(c)
    BY <1>0, <2>1, AnswerEffect
  <2>2. CASE ~Answer(c)
    <3>1. PICK t \in subject[c] :
            /\ Emptied(c, t)
            /\ listed' = [listed EXCEPT ![c] = {e \in @ : e[1] # t}]
            /\ UNCHANGED <<lock, pc, subject, schema, shards>>
      BY <1>8, <2>2 DEF RemoveDir
    <3>2. listed' = [listed EXCEPT ![c] = {e \in listed[c] : e[1] # t}]
      BY <3>1
    <3>3. pc[c] \in {"rm", "rm all"} /\ pc' = [pc EXCEPT ![c] = pc[c]]
      BY <3>1 DEF Emptied, TypeOK
    <3>4. {e[1] : e \in {i \in listed[c] : i[1] # t}} \subseteq subject[c]
      BY <1>0 DEF TypeOK
    <3>5. QED
      BY <1>0, <3>1, <3>2, <3>3, <3>4, ListEffect
  <2>3. QED
    BY <2>1, <2>2
<1>9. CASE RemoveDatabase(c) \/ RemovalFails(c)
  BY <1>0, <1>9, AnswerEffect DEF RemoveDatabase, RemovalFails
<1>10. QED
  BY <1>1, <1>2, <1>3, <1>4, <1>5, <1>6, <1>7, <1>8, <1>9 DEF Drop

LEMMA InsertClients ==
    ASSUME CInv, NEW c \in Inserter, Insert(c)
    PROVE  ClientsOK'
<1> USE DEF CInv
<1>0. c \in Client
  BY DEF Client
<1>1. CASE InsertPlan(c)
  <2>1. PICK t \in Table : /\ Issue(c, {t}, "insert lock")
                           /\ schema' = [schema EXCEPT ![c] = entry[t]]
    BY <1>1 DEF InsertPlan
  <2>2. "insert lock" \in Where /\ {t} \in SUBSET Table
    BY DEF Where
  <2>3. /\ UNCHANGED <<listed, lock>> /\ schema' \in [Client -> Schema \cup {0}]
        /\ shards' \in [Client -> SUBSET Table]
    BY <1>1, <2>1 DEF InsertPlan, TypeOK
  <2>4. QED
    BY <1>0, <2>1, <2>2, <2>3, IssueEffect
<1>2. CASE InsertLock(c)
  <2>1. CASE Answer(c)
    BY <1>0, <2>1, AnswerEffect
  <2>2. CASE ~Answer(c)
    <3>1. PICK t \in subject[c] :
             /\ lock' = [lock EXCEPT ![t] = c] /\ Goto(c, "insert write")
             /\ UNCHANGED <<subject, schema, shards, listed>>
      BY <1>2, <2>2 DEF InsertLock
    <3>2. pc[c] = "insert lock"
      BY <1>2 DEF InsertLock
    <3>3. lock' \in [Table -> Client \cup {NoOne}]
      BY <1>0, <3>1 DEF TypeOK
    <3>4. QED
      BY <1>0, <3>1, <3>2, <3>3, GoOnEffect, "insert write" \in Where
         DEF TypeOK, ListedOK, Where
  <2>3. QED
    BY <2>1, <2>2
<1>3. CASE InsertWrite(c)
  BY <1>0, <1>3, GoOnEffect, "insert rename" \in Where
     DEF InsertWrite, TypeOK, ListedOK, Where
<1>4. CASE InsertRename(c)
  BY <1>0, <1>4, AnswerEffect DEF InsertRename
<1>5. QED
  BY <1>1, <1>2, <1>3, <1>4 DEF Insert

-----------------------------------------------------------------------------
LEMMA DirTypes ==
    ASSUME CInv, Next
    PROVE  dir' \in [Table -> DirType]
<1> DEFINE DirOK == dir' \in [Table -> DirType]
<1>0. dir \in [Table -> DirType] /\ subject \in [Client -> SUBSET Table] /\ mtable \subseteq Table
      /\ schema \in [Client -> Schema \cup {0}] /\ Definer \subseteq Client
      /\ Inserter \subseteq Client
  BY DEF CInv, TypeOK, DirType, Client
<1>a. EmptyDir \in DirType /\ NoDir \in DirType
  BY DEF EmptyDir, NoDir, DirType
<1>b. ASSUME NEW t \in Table, NEW w \in Writer, SaveRaw(w, t) PROVE DirOK
  BY <1>0, <1>b, ZenonT(40) DEF SaveRaw, DirType
<1>1. ASSUME NEW c \in Definer, CreateDir(c) PROVE DirOK
  BY <1>0, <1>a, <1>1 DEF CreateDir
<1>2. ASSUME NEW c \in Definer, CreateMeta(c) PROVE DirOK
  <2>1. PICK t \in subject[c] : dir' = [dir EXCEPT ![t].meta = schema[c]]
    BY <1>2 DEF CreateMeta
  <2>2. [dir[t] EXCEPT !.meta = schema[c]] \in DirType
    BY <1>0, <2>1 DEF DirType
  <2>3. QED
    BY <1>0, <2>1, <2>2
<1>3. ASSUME NEW c \in Definer, CreateMetaFails(c) PROVE DirOK
  BY <1>0, <1>a, <1>3 DEF CreateMetaFails
<1>r. ASSUME NEW c \in Definer, CreateCleanUpFails(c) PROVE DirOK
  <2>1. PICK t \in subject[c] : \E left \in SUBSET dir[t].raw :
           dir' = [dir EXCEPT ![t] = [dir[t] EXCEPT !.raw = left]]
    BY <1>r DEF CreateCleanUpFails
  <2>2. PICK left \in SUBSET dir[t].raw :
           dir' = [dir EXCEPT ![t] = [dir[t] EXCEPT !.raw = left]]
    BY <2>1
  <2>3. [dir[t] EXCEPT !.raw = left] \in DirType
    BY <1>0, <2>1 DEF DirType
  <2>4. QED
    BY <1>0, <2>2, <2>3
<1>4. ASSUME NEW c \in Definer, RemoveItem(c) PROVE DirOK
  <2>1. PICK t \in subject[c] : \E i \in Items(t) : dir' = [dir EXCEPT ![t] = Without(@, i)]
    BY <1>4 DEF RemoveItem
  <2>2. PICK i \in Items(t) : dir' = [dir EXCEPT ![t] = Without(dir[t], i)]
    BY <2>1
  <2>3. i[1] \in {"meta", "part", "raw"}
    BY DEF Items
  <2>4. Without(dir[t], i) \in DirType
    BY <1>0, <2>3 DEF Without, DirType
  <2>5. QED
    BY <1>0, <2>2, <2>4
<1>5. ASSUME NEW c \in Definer, RemoveDir(c) PROVE DirOK
  BY <1>0, <1>a, <1>5 DEF RemoveDir
<1>6. ASSUME NEW c \in Inserter, InsertWrite(c) PROVE DirOK
  BY <1>0, <1>6, <1>b DEF InsertWrite, Writer
<1>7. ASSUME NEW c \in Inserter, InsertRename(c) PROVE DirOK
  <2>1. pc[c] = "insert rename" /\ schema[c] \in Schema \cup {0}
    BY <1>0, <1>7 DEF InsertRename
  <2>2. schema[c] \in Schema
    BY <2>1 DEF CInv, InsertInv
  <2>3. PICK t \in subject[c] :
           \/ dir' = dir
           \/ dir' = [dir EXCEPT ![t] = [dir[t] EXCEPT !.raw = @ \ {c}, !.parts = @ \cup {schema[c]}]]
    BY <1>7, ZenonT(40) DEF InsertRename
  <2>4. [dir[t] EXCEPT !.raw = @ \ {c}, !.parts = @ \cup {schema[c]}] \in DirType
    BY <1>0, <2>2, ZenonT(40) DEF DirType
  <2>5. QED
    BY <1>0, <2>3, <2>4
<1>8. ASSUME MergeSave PROVE DirOK
  BY <1>0, <1>8, <1>b DEF MergeSave, Writer
<1>9. ASSUME MergeMove PROVE DirOK
  BY <1>0, <1>9 DEF MergeMove, DirType
<1>10. ASSUME Start PROVE DirOK
  <2>1. dir' = dir \/ dir' = [t \in Table |-> [dir[t] EXCEPT !.raw = {}]]
    BY <1>10 DEF Start
  <2>2. \A t \in Table : [dir[t] EXCEPT !.raw = {}] \in DirType
    BY <1>0 DEF DirType
  <2>3. QED
    BY <1>0, <2>1, <2>2
<1>11. ASSUME UNCHANGED dir PROVE DirOK
  BY <1>0, <1>11
<1>12. ASSUME NEW c \in Definer,
              \/ CreateDatabase(c) \/ CreateIssue(c) \/ CreateEntry(c) \/ CreatePublish(c)
              \/ DropTableIssue(c) \/ DropCheck(c) \/ DropRemove(c) \/ DropDatabaseIssue(c)
              \/ Retain(c) \/ Open(c) \/ RemoveDatabase(c) \/ RemovalFails(c)
       PROVE  UNCHANGED dir
  BY <1>12 DEF CreateDatabase, CreateIssue, CreateEntry, CreatePublish, DropTableIssue,
     DropCheck, DropRemove, DropDatabaseIssue, Retain, Open, RemoveDatabase, RemovalFails
<1>13. ASSUME NEW c \in Inserter, InsertPlan(c) \/ InsertLock(c) PROVE UNCHANGED dir
  BY <1>13 DEF InsertPlan, InsertLock
<1>14. ASSUME MergeFind \/ Crash PROVE UNCHANGED dir
  BY <1>14 DEF MergeFind, Crash
<1> HIDE DEF DirOK
<1>15. DirOK
  BY <1>1, <1>2, <1>3, <1>r, <1>4, <1>5, <1>6, <1>7, <1>8, <1>9, <1>10, <1>11, <1>12,
     <1>13, <1>14 DEF Next, Create, Drop, Insert, Merge
<1>16. QED
  BY <1>15 DEF DirOK

CountsOK ==
    /\ schemas \in 0..MaxSchemas /\ inserts \in 0..MaxInserts /\ merges \in 0..MaxMerges
    /\ crashes \in 0..MaxCrashes

CountsGrow ==
    /\ (schemas' = schemas \/ (schemas < MaxSchemas /\ schemas' = schemas + 1))
    /\ (inserts' = inserts \/ (inserts < MaxInserts /\ inserts' = inserts + 1))
    /\ (merges' = merges \/ (merges < MaxMerges /\ merges' = merges + 1))
    /\ (crashes' = crashes \/ (crashes < MaxCrashes /\ crashes' = crashes + 1))

(* No counter passes its bound. *)
LEMMA CountsNext ==
    ASSUME CInv, Next
    PROVE  CountsOK'
<1>0. CountsOK
  BY DEF CInv, TypeOK, CountsOK
<1>1. CountsGrow
  <2>1. ASSUME NEW c \in Definer, CreateMetaFails(c) \/ CreateCleanUpFails(c) PROVE CountsGrow
    BY <2>1 DEF CountsGrow, CreateMetaFails, CreateCleanUpFails, bounds
  <2>2. ASSUME NEW c \in Definer, CreateIssue(c) PROVE CountsGrow
    BY <2>2 DEF CountsGrow, CreateIssue
  <2>3. ASSUME NEW c \in Definer,
               \/ CreateDatabase(c) \/ CreateEntry(c) \/ CreateDir(c) \/ CreateMeta(c)
               \/ CreatePublish(c) \/ Drop(c)
        PROVE  CountsGrow
    BY <2>3 DEF CountsGrow, CreateDatabase, CreateEntry, CreateDir, CreateMeta, CreatePublish, Drop,
       DropTableIssue, DropCheck, DropRemove, DropDatabaseIssue, Retain, Open, RemoveItem,
       RemoveDir, RemoveDatabase, RemovalFails, bounds
  <2>4. ASSUME NEW c \in Inserter, Insert(c) PROVE CountsGrow
    BY <2>4 DEF CountsGrow, Insert, InsertPlan, InsertLock, InsertWrite, InsertRename, bounds
  <2>5. ASSUME Merge \/ Crash \/ Start PROVE CountsGrow
    BY <2>5 DEF CountsGrow, Merge, MergeFind, MergeSave, MergeMove, Crash, Start, bounds
  <2>6. QED
    BY <2>1, <2>2, <2>3, <2>4, <2>5 DEF Next, Create
<1>2. QED
  BY <1>0, <1>1, CatalogAssumption DEF CountsOK, CountsGrow

(* What is neither a client's, nor a directory's, nor a counter. *)
RestOK ==
    /\ status \in {"up", "down", "refused"} /\ entry \in [Table -> Schema \cup {0}]
    /\ databases \subseteq Database /\ mpc \in {"idle", "save", "move"}
    /\ mtable \subseteq Table /\ mschema \in Schema \cup {0}
    /\ interrupted \in BOOLEAN /\ overlapped \subseteq Table /\ leftover \subseteq Table

LEMMA RestNext ==
    ASSUME CInv, Next
    PROVE  RestOK'
<1>0. /\ RestOK /\ subject \in [Client -> SUBSET Table] /\ schema \in [Client -> Schema \cup {0}]
      /\ dir \in [Table -> DirType] /\ DatabaseOf \in [Table -> Database]
      /\ Definer \subseteq Client /\ Inserter \subseteq Client
  BY CatalogAssumption DEF CInv, TypeOK, RestOK, DirType, Client
<1>1. \A ts : BeingRemoved(ts) \subseteq ts
  BY DEF BeingRemoved
<1>l. ASSUME NEW c \in Definer, LeavesBehind(c) PROVE leftover' \subseteq Table
  BY <1>0, <1>l DEF LeavesBehind, RestOK
<1>2. ASSUME NEW c \in Definer, CreateDatabase(c) PROVE RestOK'
  BY <1>0, <1>2 DEF CreateDatabase, RestOK, history, merge
<1>3. ASSUME NEW c \in Definer, CreateDir(c) PROVE RestOK'
  <2>1. overlapped' \subseteq Table
    <3>1. PICK t \in subject[c] :
             overlapped' = overlapped \cup BeingRemoved({t}) \/ overlapped' = overlapped
      BY <1>3 DEF CreateDir
    <3>2. t \in Table /\ BeingRemoved({t}) \subseteq {t}
      BY <1>0, <1>1, <3>1
    <3>3. QED
      BY <1>0, <3>1, <3>2 DEF RestOK
  <2>2. UNCHANGED <<mpc, mtable, mschema, interrupted, leftover>>
    BY <1>3 DEF CreateDir, merge
  <2>3. databases' = databases /\ entry' = entry
    BY <1>3 DEF CreateDir
  <2>4. QED
    BY <1>0, <1>3, <2>1, <2>2, <2>3 DEF CreateDir, RestOK
<1>4. ASSUME NEW c \in Definer, CreatePublish(c) PROVE RestOK'
  BY <1>0, <1>4 DEF CreatePublish, RestOK, history, merge
<1>5. ASSUME NEW c \in Definer, DropRemove(c) PROVE RestOK'
  BY <1>0, <1>5 DEF DropRemove, RestOK, history, merge
<1>6. ASSUME NEW c \in Definer, Retain(c) PROVE RestOK'
  <2>1. entry' \in [Table -> Schema \cup {0}]
    BY <1>0, <1>6 DEF Retain, RestOK
  <2>2. QED
    BY <1>0, <1>6, <2>1 DEF Retain, RestOK, history, merge
<1>7. ASSUME NEW c \in Definer,
             RemoveDatabase(c) \/ RemovalFails(c) \/ CreateCleanUpFails(c)
      PROVE  RestOK'
  BY <1>0, <1>7, <1>l DEF RemoveDatabase, RemovalFails, CreateCleanUpFails, RestOK, merge
<1>d. ASSUME NEW c \in Definer, RemoveDir(c) PROVE RestOK'
  <2>1. leftover' \subseteq Table
    BY <1>0, <1>d, <1>l DEF RemoveDir, RestOK
  <2>2. QED
    BY <1>0, <1>d, <2>1 DEF RemoveDir, RestOK, merge
<1>8. ASSUME NEW c \in Inserter, InsertWrite(c) PROVE RestOK'
  BY <1>0, <1>8, ZenonT(40) DEF InsertWrite, SaveRaw, RestOK, history, merge
<1>9. ASSUME NEW c \in Definer,
             \/ CreateIssue(c) \/ CreateEntry(c) \/ CreateMeta(c) \/ CreateMetaFails(c)
             \/ DropTableIssue(c) \/ DropCheck(c) \/ DropDatabaseIssue(c)
             \/ Open(c) \/ RemoveItem(c)
      PROVE  RestOK'
  BY <1>0, <1>9 DEF CreateIssue, CreateEntry, CreateMeta, CreateMetaFails, DropTableIssue,
     DropCheck, DropDatabaseIssue, Open, RemoveItem, RestOK, history, merge
<1>10. ASSUME NEW c \in Inserter, InsertPlan(c) \/ InsertLock(c) \/ InsertRename(c)
       PROVE  RestOK'
  BY <1>0, <1>10 DEF InsertPlan, InsertLock, InsertRename, RestOK, history, merge
<1>11. ASSUME MergeFind PROVE RestOK'
  BY <1>0, <1>11 DEF MergeFind, RestOK, history, DirType
<1>12. ASSUME MergeSave PROVE RestOK'
  <2>1. overlapped' \subseteq Table
    BY <1>0, <1>12 DEF MergeSave, RestOK
  <2>2. databases' \subseteq Database
    BY <1>0, <1>12 DEF MergeSave, SaveRaw, RestOK
  <2>3. QED
    BY <1>0, <1>12, <2>1, <2>2 DEF MergeSave, RestOK
<1>13. ASSUME MergeMove PROVE RestOK'
  BY <1>0, <1>13 DEF MergeMove, RestOK, history
<1>14. ASSUME Crash PROVE RestOK'
  BY <1>0, <1>14 DEF Crash, RestOK
<1>15. ASSUME Start PROVE RestOK'
  BY <1>0, <1>15 DEF Start, RestOK, merge, history, DirType
<1>16. QED
  BY <1>2, <1>3, <1>4, <1>5, <1>6, <1>7, <1>d, <1>8, <1>9, <1>10, <1>11, <1>12, <1>13,
     <1>14, <1>15 DEF Next, Create, Drop, Insert, Merge

LEMMA TypeNext ==
    ASSUME CInv, Next
    PROVE  TypeOK' /\ ListedOK'
<1>1. ClientsOK'
  <2>0. ClientsOK
    BY DEF CInv, TypeOK, ClientsOK
  <2>1. ASSUME Merge \/ Start PROVE UNCHANGED commands /\ UNCHANGED lock
    BY <2>1 DEF Merge, MergeFind, MergeSave, MergeMove, Start
  <2>2. ASSUME Merge \/ Start PROVE ClientsOK'
    BY <2>0, <2>1, <2>2 DEF commands, ClientsOK, ListedOK
  <2>3. ASSUME Crash PROVE ClientsOK'
    BY <2>3 DEF Crash, ClientsOK, ListedOK, Where
  <2>4. QED
    BY <2>2, <2>3, CreateClients, DropClients, InsertClients DEF Next
<1>2. QED
  BY <1>1, DirTypes, CountsNext, RestNext DEF TypeOK, ClientsOK, CountsOK, RestOK, DirType

-----------------------------------------------------------------------------
(* A step of a command leaves the other commands and their locks alone.    *)
Apart(c) ==
    \A d \in Client \ {c} :
        /\ pc'[d] = pc[d] /\ subject'[d] = subject[d] /\ shards'[d] = shards[d]
        /\ schema'[d] = schema[d]
        /\ \A t \in Table : lock'[t] = d <=> lock[t] = d

LEMMA AnswerApart ==
    ASSUME TypeOK, NEW c \in Client, Answer(c)
    PROVE  Apart(c) /\ pc'[c] = "idle" /\ subject'[c] = {}
BY CatalogAssumption DEF TypeOK, Answer, Goto, Apart

(* A command goes on, and may take a lock that is free. *)
Onwards(c) ==
    /\ pc' = pc \/ \E w : pc' = [pc EXCEPT ![c] = w]
    /\ subject' = subject \/ \E ts : subject' = [subject EXCEPT ![c] = ts]
    /\ schema' = schema \/ \E v : schema' = [schema EXCEPT ![c] = v]
    /\ shards' = shards \/ \E ts : shards' = [shards EXCEPT ![c] = ts]
    /\ lock' = lock \/ \E t \in Table : lock[t] = NoOne /\ lock' = [lock EXCEPT ![t] = c]

LEMMA OnwardsApart ==
    ASSUME TypeOK, NEW c \in Client, Onwards(c)
    PROVE  Apart(c)
<1> SUFFICES ASSUME NEW d \in Client \ {c}
             PROVE  /\ pc'[d] = pc[d] /\ subject'[d] = subject[d] /\ shards'[d] = shards[d]
                    /\ schema'[d] = schema[d]
                    /\ \A t \in Table : lock'[t] = d <=> lock[t] = d
  BY DEF Apart
<1>1. pc'[d] = pc[d]
  BY DEF Onwards, TypeOK
<1>2. subject'[d] = subject[d]
  BY DEF Onwards, TypeOK
<1>3. shards'[d] = shards[d] /\ schema'[d] = schema[d]
  BY DEF Onwards, TypeOK
<1>4. \A t \in Table : lock'[t] = d <=> lock[t] = d
  BY CatalogAssumption DEF Onwards, TypeOK
<1>5. QED
  BY <1>1, <1>2, <1>3, <1>4

LEMMA CreateApart ==
    ASSUME CInv, NEW c \in Definer, Create(c)
    PROVE  Apart(c)
<1>0. TypeOK /\ c \in Client /\ subject[c] \subseteq Table
  BY DEF CInv, TypeOK, Client
<1>1. CASE CreateDatabase(c)
  BY <1>1 DEF CreateDatabase, commands, Apart
<1>2. CASE CreateIssue(c) \/ CreateMeta(c)
  <2>1. Onwards(c)
    BY <1>2 DEF CreateIssue, CreateMeta, Issue, Goto, Onwards
  <2>2. QED
    BY <1>0, <2>1, OnwardsApart
<1>3. CASE CreateEntry(c)
  <2>1. Answer(c) \/ Onwards(c)
    BY <1>0, <1>3 DEF CreateEntry, Goto, Onwards
  <2>2. QED
    BY <1>0, <2>1, OnwardsApart, AnswerApart
<1>4. CASE CreateDir(c)
  <2>1. Answer(c) \/ Onwards(c)
    BY <1>4 DEF CreateDir, Goto, Onwards
  <2>2. QED
    BY <1>0, <2>1, OnwardsApart, AnswerApart
<1>5. CASE CreateMetaFails(c) \/ CreateCleanUpFails(c) \/ CreatePublish(c)
  BY <1>0, <1>5, AnswerApart DEF CreateMetaFails, CreateCleanUpFails, CreatePublish
<1>6. QED
  BY <1>1, <1>2, <1>3, <1>4, <1>5 DEF Create

LEMMA DropApart ==
    ASSUME CInv, NEW c \in Definer, Drop(c)
    PROVE  Apart(c)
<1>0. TypeOK /\ c \in Client
  BY DEF CInv, Client
<1>1. Answer(c) \/ Onwards(c)
  <2>1. CASE DropTableIssue(c) \/ DropRemove(c) \/ DropDatabaseIssue(c)
    BY <2>1 DEF DropTableIssue, DropRemove, DropDatabaseIssue, Issue, Goto, Onwards
  <2>2. CASE DropCheck(c) \/ Open(c)
    BY <2>2 DEF DropCheck, Open, Goto, Onwards
  <2>3. CASE Retain(c)
    BY <2>3 DEF Retain, Goto, Onwards
  <2>4. CASE RemoveItem(c) \/ RemoveDir(c) \/ RemoveDatabase(c) \/ RemovalFails(c)
    BY <2>4 DEF RemoveItem, RemoveDir, RemoveDatabase, RemovalFails, Onwards
  <2>5. QED
    BY <2>1, <2>2, <2>3, <2>4 DEF Drop
<1>2. QED
  BY <1>0, <1>1, OnwardsApart, AnswerApart

LEMMA InsertApart ==
    ASSUME CInv, NEW c \in Inserter, Insert(c)
    PROVE  Apart(c)
<1>0. TypeOK /\ c \in Client /\ subject[c] \subseteq Table
  BY DEF CInv, TypeOK, Client
<1>1. Answer(c) \/ Onwards(c)
  <2>1. CASE InsertPlan(c)
    BY <2>1 DEF InsertPlan, Issue, Goto, Onwards
  <2>2. CASE InsertLock(c)
    BY <1>0, <2>2 DEF InsertLock, Goto, Onwards
  <2>3. CASE InsertWrite(c) \/ InsertRename(c)
    BY <2>3 DEF InsertWrite, InsertRename, Goto, Onwards
  <2>4. QED
    BY <2>1, <2>2, <2>3 DEF Insert
<1>2. QED
  BY <1>0, <1>1, OnwardsApart, AnswerApart

(* Where a command goes next, and about which tables it is. *)
DefinerWhere == Where \ {"insert lock", "insert write", "insert rename"}
Free == {"idle", "retain", "open all", "rm all"}

LEMMA CreateMoves ==
    ASSUME CInv, NEW c \in Definer, Create(c)
    PROVE  /\ pc'[c] \in DefinerWhere
           /\ pc'[c] \notin Free => \E t \in Table : subject'[c] = {t}
           /\ status' = status /\ status = "up"
<1>0. /\ TypeOK /\ c \in Client /\ pc[c] \in DefinerWhere /\ (pc[c] # "idle" => status = "up")
      /\ pc[c] \notin Free => \E t \in Table : subject[c] = {t}
  BY DEF CInv, Client, RoleInv, TypeOK, DefinerWhere, DownInv, OneTable, Free
<1>1. CASE CreateDatabase(c)
  BY <1>0, <1>1 DEF CreateDatabase, commands
<1>2. CASE CreateIssue(c)
  BY <1>0, <1>2 DEF CreateIssue, Issue, Goto, TypeOK, DefinerWhere, Where
<1>3. CASE CreateEntry(c)
  BY <1>0, <1>3, AnswerApart DEF CreateEntry, Goto, TypeOK, DefinerWhere, Where, Free
<1>4. CASE CreateDir(c)
  <2>1. status' = status /\ pc[c] = "create dir"
    BY <1>4 DEF CreateDir
  <2>2. CASE Answer(c)
    BY <1>0, <2>1, <2>2, AnswerApart DEF DefinerWhere, Where, Free
  <2>3. CASE Goto(c, "create meta") /\ UNCHANGED subject
    BY <1>0, <2>1, <2>3 DEF Goto, TypeOK, DefinerWhere, Where, Free
  <2>4. QED
    BY <1>4, <2>2, <2>3 DEF CreateDir
<1>5. CASE CreateMeta(c)
  BY <1>0, <1>5 DEF CreateMeta, Goto, TypeOK, DefinerWhere, Where, Free
<1>6. CASE CreateMetaFails(c) \/ CreateCleanUpFails(c) \/ CreatePublish(c)
  BY <1>0, <1>6, AnswerApart DEF CreateMetaFails, CreateCleanUpFails, CreatePublish, DefinerWhere, Where, Free
<1>7. QED
  BY <1>1, <1>2, <1>3, <1>4, <1>5, <1>6 DEF Create

LEMMA DropMoves ==
    ASSUME CInv, NEW c \in Definer, Drop(c)
    PROVE  /\ pc'[c] \in DefinerWhere \ Making
           /\ pc'[c] \notin Free => \E t \in Table : subject'[c] = {t}
           /\ status' = status /\ status = "up"
<1>0. /\ TypeOK /\ c \in Client /\ pc[c] \in DefinerWhere /\ (pc[c] # "idle" => status = "up")
      /\ pc[c] \notin Free => \E t \in Table : subject[c] = {t}
  BY DEF CInv, Client, RoleInv, TypeOK, DefinerWhere, DownInv, OneTable, Free
<1>a. "idle" \in Free \cap (DefinerWhere \ Making)
  BY DEF Free, DefinerWhere, Where, Making
<1>1. CASE DropTableIssue(c) \/ DropDatabaseIssue(c)
  BY <1>0, <1>1 DEF DropTableIssue, DropDatabaseIssue, Issue, Goto, TypeOK, DefinerWhere,
     Where, Free, Making
<1>2. CASE DropCheck(c) \/ DropRemove(c)
  BY <1>0, <1>2, AnswerApart DEF DropCheck, DropRemove, Goto, TypeOK, DefinerWhere, Where,
     Free, Making
<1>3. CASE Retain(c)
  BY <1>0, <1>3, ZenonT(40) DEF Retain, Goto, TypeOK, DefinerWhere, Where, Free, Making
<1>4. CASE Open(c)
  BY <1>0, <1>4, AnswerApart DEF Open, Goto, TypeOK, DefinerWhere, Where, Free, Making
<1>5. CASE RemoveItem(c)
  BY <1>0, <1>5 DEF RemoveItem, DefinerWhere, Making
<1>6. CASE RemoveDir(c)
  BY <1>0, <1>a, <1>6, AnswerApart DEF RemoveDir, Emptied, DefinerWhere, Making
<1>7. CASE RemoveDatabase(c) \/ RemovalFails(c)
  BY <1>0, <1>a, <1>7, AnswerApart DEF RemoveDatabase, RemovalFails
<1>8. QED
  BY <1>1, <1>2, <1>3, <1>4, <1>5, <1>6, <1>7 DEF Drop

LEMMA InsertMoves ==
    ASSUME CInv, NEW c \in Inserter, Insert(c)
    PROVE  /\ pc'[c] \in {"idle", "insert lock", "insert write", "insert rename"}
           /\ pc'[c] # "idle" => \E t \in Table : subject'[c] = {t}
           /\ status' = status /\ status = "up"
<1>0. /\ TypeOK /\ c \in Client /\ (pc[c] # "idle" => status = "up")
      /\ pc[c] = "insert lock" => \E t \in Table : subject[c] = {t}
      /\ pc[c] = "insert write" => \E t \in Table : subject[c] = {t}
  BY DEF CInv, Client, DownInv, OneTable
<1>1. CASE InsertPlan(c)
  BY <1>0, <1>1 DEF InsertPlan, Issue, Goto, TypeOK
<1>2. CASE InsertLock(c)
  BY <1>0, <1>2, AnswerApart DEF InsertLock, Goto, TypeOK
<1>3. CASE InsertWrite(c)
  BY <1>0, <1>3 DEF InsertWrite, Goto, TypeOK
<1>4. CASE InsertRename(c)
  BY <1>0, <1>4, AnswerApart DEF InsertRename
<1>5. QED
  BY <1>1, <1>2, <1>3, <1>4 DEF Insert

(* Only CREATE TABLE makes an entry, where there is none and under its     *)
(* lock; only a DROP removes one, where nobody holds the lock.             *)
LEMMA EntrySteps ==
    ASSUME CInv, Next, ~Crash, ~Start, NEW t \in Table
    PROVE  \/ entry'[t] = entry[t]
           \/ entry'[t] = 0 /\ lock[t] = NoOne
           \/ \E c \in Definer : /\ CreatePublish(c) /\ subject[c] = {t}
                                 /\ lock[t] = c /\ entry[t] = 0
<1>0. /\ entry \in [Table -> Schema \cup {0}] /\ lock \in [Table -> Client \cup {NoOne}]
      /\ \A c \in Definer : shards[c] \subseteq Table
  BY DEF CInv, TypeOK, Client
<1>1. ASSUME NEW c \in Definer, CreatePublish(c), entry'[t] # entry[t]
      PROVE  subject[c] = {t} /\ lock[t] = c /\ entry[t] = 0
  <2>1. PICK u \in Table : subject[c] = {u} /\ lock[u] = c /\ entry[u] = 0
    BY <1>1 DEF CreatePublish, CInv, HoldInv, Making
  <2>2. t \in subject[c]
    BY <1>0, <1>1 DEF CreatePublish
  <2>3. QED
    BY <2>1, <2>2
<1>2. ASSUME NEW c \in Definer, DropRemove(c), entry'[t] # entry[t]
      PROVE  entry'[t] = 0 /\ lock[t] = NoOne
  BY <1>2, <1>0 DEF DropRemove
<1>3. ASSUME NEW c \in Definer, Retain(c), entry'[t] # entry[t]
      PROVE  entry'[t] = 0 /\ lock[t] = NoOne
  BY <1>3, <1>0 DEF Retain
<1>4. ASSUME NEW c \in Definer,
             \/ CreateDatabase(c) \/ CreateIssue(c) \/ CreateEntry(c) \/ CreateDir(c)
             \/ CreateMeta(c) \/ CreateMetaFails(c) \/ CreateCleanUpFails(c)
             \/ DropTableIssue(c) \/ DropCheck(c) \/ DropDatabaseIssue(c) \/ Open(c)
             \/ RemoveItem(c) \/ RemoveDir(c) \/ RemoveDatabase(c) \/ RemovalFails(c)
      PROVE  entry' = entry
  BY <1>4 DEF CreateDatabase, CreateIssue, CreateEntry, CreateDir, CreateMeta,
     CreateMetaFails, CreateCleanUpFails, DropTableIssue, DropCheck, DropDatabaseIssue, Open, RemoveItem,
     RemoveDir, RemoveDatabase, RemovalFails
<1>5. ASSUME NEW c \in Inserter, Insert(c) PROVE entry' = entry
  BY <1>5 DEF Insert, InsertPlan, InsertLock, InsertWrite, InsertRename
<1>6. ASSUME Merge PROVE entry' = entry
  BY <1>6 DEF Merge, MergeFind, MergeSave, MergeMove
<1>7. QED
  BY <1>1, <1>2, <1>3, <1>4, <1>5, <1>6 DEF Next, Create, Drop

(* Merges are no commands. *)
LEMMA MergeApart ==
    ASSUME CInv, Merge
    PROVE  UNCHANGED <<status, entry, lock, commands>> /\ status = "up"
BY DEF Merge, MergeFind, MergeSave, MergeMove, CInv, DownInv

LEMMA ControlNext ==
    ASSUME CInv, Next
    PROVE  RoleInv' /\ OneTable' /\ DownInv'
<1>0. RoleInv /\ OneTable /\ DownInv /\ TypeOK /\ Definer \cap Inserter = {}
  BY CatalogAssumption DEF CInv
<1>1. ASSUME NEW c \in Definer, Create(c) \/ Drop(c) PROVE RoleInv' /\ OneTable' /\ DownInv'
  <2>1. Apart(c) /\ status' = "up" /\ pc'[c] \in DefinerWhere
        /\ (pc'[c] \notin Free => \E t \in Table : subject'[c] = {t})
    BY <1>1, CreateApart, DropApart, CreateMoves, DropMoves
  <2>2. \A d \in Client \ {c} : pc'[d] = pc[d] /\ subject'[d] = subject[d]
    BY <2>1 DEF Apart
  <2>3. RoleInv'
    BY <1>0, <2>1, <2>2 DEF RoleInv, Client, DefinerWhere
  <2>4. OneTable'
    BY <1>0, <2>1, <2>2 DEF OneTable, Free
  <2>5. QED
    BY <2>1, <2>3, <2>4 DEF DownInv
<1>2. ASSUME NEW c \in Inserter, Insert(c) PROVE RoleInv' /\ OneTable' /\ DownInv'
  <2>1. /\ Apart(c) /\ status' = "up"
        /\ pc'[c] \in {"idle", "insert lock", "insert write", "insert rename"}
        /\ pc'[c] # "idle" => \E t \in Table : subject'[c] = {t}
    BY <1>0, <1>2, InsertApart, InsertMoves DEF Client
  <2>2. \A d \in Client \ {c} : pc'[d] = pc[d] /\ subject'[d] = subject[d]
    BY <2>1 DEF Apart
  <2>3. RoleInv'
    BY <1>0, <2>1, <2>2 DEF RoleInv, Client
  <2>4. OneTable'
    BY <1>0, <2>1, <2>2 DEF OneTable
  <2>5. QED
    BY <2>1, <2>3, <2>4 DEF DownInv
<1>3. CASE Merge
  BY <1>0, <1>3, MergeApart DEF commands, RoleInv, OneTable, DownInv
<1>4. CASE Crash
  BY <1>4 DEF Crash, RoleInv, OneTable, DownInv, Client
<1>5. CASE Start
  BY <1>0, <1>5 DEF Start, commands, merge, RoleInv, OneTable, DownInv
<1>6. QED
  BY <1>1, <1>2, <1>3, <1>4, <1>5 DEF Next

LEMMA HoldNext ==
    ASSUME CInv, Next
    PROVE  HoldInv'
<1>0. HoldInv /\ TypeOK /\ Definer \cap Inserter = {} /\ NoOne \notin Client
  BY CatalogAssumption DEF CInv
<1>1. ASSUME NEW c \in Client, NEW d \in Definer \ {c}, Apart(c), ~Crash, ~Start,
             \/ c \in Definer /\ (Create(c) \/ Drop(c))
             \/ c \in Inserter /\ Insert(c),
             pc'[d] \in Making
      PROVE  \E t \in Table : subject'[d] = {t} /\ lock'[t] = d /\ entry'[t] = 0
  <2>1. /\ d \in Client /\ pc[d] \in Making /\ subject'[d] = subject[d]
        /\ \A t \in Table : lock'[t] = d <=> lock[t] = d
    BY <1>1 DEF Apart, Client
  <2>2. PICK t \in Table : subject[d] = {t} /\ lock[t] = d /\ entry[t] = 0
    BY <1>0, <2>1 DEF HoldInv
  <2>3. entry'[t] = 0
    <3>1. \A e \in Definer : CreatePublish(e) /\ lock[t] = e => pc'[d] = "idle"
      BY <1>0, <2>1, <2>2, AnswerApart DEF CreatePublish
    <3>2. QED
      BY <1>0, <1>1, <2>1, <2>2, <3>1, EntrySteps DEF Making
  <2>4. QED
    BY <2>1, <2>2, <2>3
<1>2. ASSUME NEW c \in Definer, Create(c), pc'[c] \in Making
      PROVE  \E t \in Table : subject'[c] = {t} /\ lock'[t] = c /\ entry'[t] = 0
  <2>0. c \in Client /\ subject[c] \subseteq Table
    BY <1>0 DEF Client, TypeOK
  <2>1. CASE CreateEntry(c)
    <3>1. PICK t \in subject[c] :
            /\ lock[t] = NoOne
            /\ IF entry[t] # 0 THEN Answer(c)
               ELSE /\ lock' = [lock EXCEPT ![t] = c]
                    /\ Goto(c, "create dir")
                    /\ UNCHANGED <<subject, schema, shards, listed>>
      BY <2>1 DEF CreateEntry
    <3>2. entry[t] = 0 /\ entry' = entry
      BY <1>0, <1>2, <2>0, <2>1, <3>1, AnswerApart DEF CreateEntry, Making
    <3>3. \E u \in Table : subject[c] = {u}
      BY <2>0, <2>1 DEF CreateEntry, CInv, OneTable
    <3>4. QED
      BY <1>0, <2>0, <3>1, <3>2, <3>3 DEF TypeOK
  <2>2. CASE CreateDir(c) \/ CreateMeta(c)
    <3>1. pc[c] \in Making /\ UNCHANGED <<subject, lock, entry>>
      BY <1>0, <1>2, <2>0, <2>2, AnswerApart DEF CreateDir, CreateMeta, Making
    <3>2. QED
      BY <1>0, <3>1 DEF HoldInv
  <2>3. CASE CreateDatabase(c)
    BY <1>2, <2>3 DEF CreateDatabase, commands, Making
  <2>4. CASE CreateIssue(c)
    BY <1>0, <1>2, <2>0, <2>4 DEF CreateIssue, Issue, Goto, Making, TypeOK
  <2>5. CASE CreateMetaFails(c) \/ CreateCleanUpFails(c) \/ CreatePublish(c)
    BY <1>0, <1>2, <2>0, <2>5, AnswerApart DEF CreateMetaFails, CreateCleanUpFails, CreatePublish, Making
  <2>6. QED
    BY <1>2, <2>1, <2>2, <2>3, <2>4, <2>5 DEF Create
<1>3. ASSUME NEW c \in Definer, Create(c) \/ Drop(c), ~Crash, ~Start PROVE HoldInv'
  BY <1>1, <1>2, <1>3, CreateApart, DropApart, DropMoves DEF HoldInv, Client
<1>4. ASSUME NEW c \in Inserter, Insert(c), ~Crash, ~Start PROVE HoldInv'
  BY <1>0, <1>1, <1>4, InsertApart DEF HoldInv, Client
<1>5. CASE Merge
  BY <1>0, <1>5, MergeApart DEF commands, HoldInv
<1>6. CASE Crash
  BY <1>6 DEF Crash, HoldInv, Making, Client
<1>7. CASE Start
  BY <1>7 DEF Start, commands, HoldInv, Making, CInv, DownInv, Client
<1>8. QED
  BY <1>3, <1>4, <1>5, <1>6, <1>7 DEF Next

LEMMA InsertNext ==
    ASSUME CInv, Next
    PROVE  InsertInv'
<1>0. InsertInv /\ RoleInv /\ TypeOK /\ Definer \cap Inserter = {} /\ NoOne \notin Client
  BY CatalogAssumption DEF CInv
<1> DEFINE Kept(d) ==
      /\ pc'[d] # "idle" => schema'[d] # 0
      /\ pc'[d] \in {"insert write", "insert rename"} =>
            \E t \in Table : subject'[d] = {t} /\ lock'[t] = d /\ entry'[t] # 0
<1>1. ASSUME NEW c \in Client, NEW d \in Inserter \ {c}, Apart(c), ~Crash, ~Start PROVE Kept(d)
  <2>1. /\ d \in Client /\ pc'[d] = pc[d] /\ subject'[d] = subject[d] /\ schema'[d] = schema[d]
        /\ \A t \in Table : lock'[t] = d <=> lock[t] = d
    BY <1>1 DEF Apart, Client
  <2>2. ASSUME NEW t \in Table, lock[t] = d, entry[t] # 0 PROVE entry'[t] # 0
    BY <1>0, <1>1, <2>1, <2>2, EntrySteps
  <2>3. pc'[d] # "idle" => schema'[d] # 0
    BY <1>0, <2>1 DEF InsertInv
  <2>4. ASSUME pc'[d] \in {"insert write", "insert rename"}
        PROVE  \E t \in Table : subject'[d] = {t} /\ lock'[t] = d /\ entry'[t] # 0
    <3>1. PICK t \in Table : subject[d] = {t} /\ lock[t] = d /\ entry[t] # 0
      BY <1>0, <2>1, <2>4 DEF InsertInv
    <3>2. QED
      BY <2>1, <2>2, <3>1
  <2>5. QED
    BY <2>3, <2>4
<1>2. ASSUME NEW c \in Inserter, Insert(c) PROVE Kept(c)
  <2>0. c \in Client /\ subject[c] \subseteq Table /\ entry' = entry
    BY <1>0, <1>2 DEF Client, TypeOK, Insert, InsertPlan, InsertLock, InsertWrite, InsertRename
  <2>1. CASE InsertPlan(c)
    BY <1>0, <2>0, <2>1 DEF InsertPlan, Issue, Goto, TypeOK
  <2>2. CASE InsertLock(c)
    <3>1. CASE Answer(c)
      BY <1>0, <2>0, <3>1, AnswerApart
    <3>2. CASE ~Answer(c)
      <4>1. PICK t \in subject[c] :
               /\ lock[t] = NoOne /\ entry[t] # 0 /\ lock' = [lock EXCEPT ![t] = c]
               /\ UNCHANGED <<subject, schema>>
        BY <2>2, <3>2 DEF InsertLock
      <4>2. /\ pc[c] = "insert lock" /\ schema[c] # 0
            /\ \E u \in Table : subject[c] = {u}
        BY <1>0, <2>0, <2>2 DEF InsertLock, InsertInv, CInv, OneTable
      <4>3. QED
        BY <1>0, <2>0, <4>1, <4>2 DEF TypeOK
    <3>3. QED
      BY <3>1, <3>2
  <2>3. CASE InsertWrite(c)
    <3>1. /\ pc[c] = "insert write" /\ UNCHANGED <<subject, schema, lock>>
      BY <2>3 DEF InsertWrite
    <3>2. schema[c] # 0 /\ \E t \in Table : subject[c] = {t} /\ lock[t] = c /\ entry[t] # 0
      BY <1>0, <3>1 DEF InsertInv
    <3>3. QED
      BY <2>0, <3>1, <3>2
  <2>4. CASE InsertRename(c)
    BY <1>0, <2>0, <2>4, AnswerApart DEF InsertRename
  <2>5. QED
    BY <1>2, <2>1, <2>2, <2>3, <2>4 DEF Insert
<1> HIDE DEF Kept
<1>3. ASSUME NEW c \in Definer, Create(c) \/ Drop(c), ~Crash, ~Start PROVE \A d \in Inserter : Kept(d)
  BY <1>0, <1>1, <1>3, CreateApart, DropApart DEF Client
<1>4. ASSUME NEW c \in Inserter, Insert(c), ~Crash, ~Start PROVE \A d \in Inserter : Kept(d)
  BY <1>1, <1>2, <1>4, InsertApart DEF Client
<1>5. ASSUME Merge PROVE \A d \in Inserter : Kept(d)
  <2>1. UNCHANGED <<pc, subject, schema, lock, entry>>
    BY <1>5, MergeApart DEF commands
  <2>2. QED
    BY <1>0, <2>1, ZenonT(40) DEF InsertInv, Kept
<1>6. ASSUME Crash PROVE \A d \in Inserter : Kept(d)
  BY <1>6 DEF Crash, Kept, Client
<1>7. ASSUME Start PROVE \A d \in Inserter : Kept(d)
  BY <1>7 DEF Start, commands, Kept, CInv, DownInv, Client
<1>8. \A d \in Inserter : Kept(d)
  BY <1>3, <1>4, <1>5, <1>6, <1>7 DEF Next
<1>9. QED
  BY <1>8 DEF InsertInv, Kept

-----------------------------------------------------------------------------
(* A change to one directory leaves the others. *)
LEMMA OneDir ==
    ASSUME NEW f \in [Table -> DirType], NEW t \in Table, NEW u \in Table, NEW v
    PROVE  [f EXCEPT ![u] = v][t] = IF t = u THEN v ELSE f[t]
OBVIOUS

LEMMA DirFields ==
    ASSUME NEW d \in DirType, NEW v, NEW w
    PROVE  /\ [d EXCEPT !.meta = v].there = d.there
           /\ [d EXCEPT !.raw = v].there = d.there /\ [d EXCEPT !.raw = v].meta = d.meta
           /\ [d EXCEPT !.parts = v].there = d.there /\ [d EXCEPT !.parts = v].meta = d.meta
           /\ [d EXCEPT !.raw = v, !.parts = w].there = d.there
           /\ [d EXCEPT !.raw = v, !.parts = w].meta = d.meta
           /\ [d EXCEPT !.there = TRUE, !.raw = v].there
BY DEF DirType

(* Everything that happens to a directory while the process runs. *)
LEMMA DirSteps ==
    ASSUME CInv, Next, ~Crash, ~Start, NEW t \in Table
    PROVE  \/ dir'[t].there = dir[t].there /\ dir'[t].meta \in {dir[t].meta, 0}
           \/ \E c \in Definer : CreateDir(c) /\ t \in subject[c] /\ dir'[t] = EmptyDir
           \/ \E c \in Definer : CreateMeta(c) /\ dir[t].there /\ dir'[t].there
           \/ \E c \in Definer : CreateMetaFails(c) /\ t \in subject[c] /\ dir'[t] = NoDir
           \/ \E c \in Definer : RemoveDir(c) /\ PastRemoval(c, t) /\ dir'[t] = NoDir
           \/ \E c \in Inserter : InsertWrite(c) /\ t \in subject[c] /\ dir'[t].there
           \/ MergeSave /\ t \in mtable /\ dir'[t].there
<1>0. /\ dir \in [Table -> DirType] /\ mtable \subseteq Table
      /\ \A c \in Definer \cup Inserter : c \in Client /\ subject[c] \subseteq Table
  BY DEF CInv, TypeOK, DirType, Client
<1>1. ASSUME NEW c \in Definer, CreateDir(c)
      PROVE  dir'[t] = dir[t] \/ (t \in subject[c] /\ dir'[t] = EmptyDir)
  <2>1. PICK u \in subject[c] : dir' = dir \/ dir' = [dir EXCEPT ![u] = EmptyDir]
    BY <1>1 DEF CreateDir
  <2>2. QED
    BY <1>0, <2>1, OneDir
<1>2. ASSUME NEW c \in Definer, CreateMeta(c)
      PROVE  dir'[t] = dir[t] \/ (dir[t].there /\ dir'[t].there)
  <2>1. PICK u \in subject[c] : dir[u].there /\ dir' = [dir EXCEPT ![u].meta = schema[c]]
    BY <1>2 DEF CreateMeta
  <2>2. dir' = [dir EXCEPT ![u] = [dir[u] EXCEPT !.meta = schema[c]]]
    BY <1>0, <2>1
  <2>3. dir'[t] = IF t = u THEN [dir[u] EXCEPT !.meta = schema[c]] ELSE dir[t]
    BY <1>0, <2>2, OneDir
  <2>4. [dir[u] EXCEPT !.meta = schema[c]].there
    BY <1>0, <2>1, DirFields
  <2>5. QED
    BY <2>1, <2>3, <2>4
<1>3. ASSUME NEW c \in Definer, CreateMetaFails(c)
      PROVE  dir'[t] = dir[t] \/ (t \in subject[c] /\ dir'[t] = NoDir)
  <2>1. PICK u \in subject[c] : dir' = [dir EXCEPT ![u] = NoDir]
    BY <1>3 DEF CreateMetaFails
  <2>2. QED
    BY <1>0, <2>1, OneDir
<1>r. ASSUME NEW c \in Definer, CreateCleanUpFails(c)
      PROVE  dir'[t].there = dir[t].there /\ dir'[t].meta = dir[t].meta
  <2>1. PICK u \in subject[c] : \E v : dir' = [dir EXCEPT ![u] = [dir[u] EXCEPT !.raw = v]]
    BY <1>r DEF CreateCleanUpFails
  <2>2. PICK v : dir' = [dir EXCEPT ![u] = [dir[u] EXCEPT !.raw = v]]
    BY <2>1
  <2>3. /\ [dir[u] EXCEPT !.raw = v].there = dir[u].there
        /\ [dir[u] EXCEPT !.raw = v].meta = dir[u].meta
    BY <1>0, DirFields
  <2>4. QED
    BY <1>0, <2>2, <2>3, OneDir
<1>4. ASSUME NEW c \in Definer, RemoveItem(c)
      PROVE  dir'[t].there = dir[t].there /\ dir'[t].meta \in {dir[t].meta, 0}
  <2>1. PICK u \in subject[c] : \E i \in Items(u) : dir' = [dir EXCEPT ![u] = Without(@, i)]
    BY <1>4 DEF RemoveItem
  <2>2. PICK i \in Items(u) : dir' = [dir EXCEPT ![u] = Without(dir[u], i)]
    BY <2>1
  <2>3. i[1] \in {"meta", "part", "raw"}
    BY DEF Items
  <2>4. Without(dir[u], i).there = dir[u].there /\ Without(dir[u], i).meta \in {dir[u].meta, 0}
    BY <1>0, <2>3 DEF Without, DirType
  <2>5. QED
    BY <1>0, <2>2, <2>4
<1>5. ASSUME NEW c \in Definer, RemoveDir(c)
      PROVE  dir'[t] = dir[t] \/ (PastRemoval(c, t) /\ dir'[t] = NoDir)
  <2>1. PICK u \in subject[c] : /\ pc[c] \in {"rm", "rm all"}
                                /\ dir' = dir \/ dir' = [dir EXCEPT ![u] = NoDir]
    BY <1>5 DEF RemoveDir, Emptied
  <2>2. PastRemoval(c, u)
    BY <2>1 DEF PastRemoval
  <2>3. QED
    BY <1>0, <2>1, <2>2, OneDir
<1>6. ASSUME NEW u \in Table, NEW w, SaveRaw(w, u)
      PROVE  IF t = u THEN dir'[t].there ELSE dir'[t] = dir[t]
  BY <1>0, <1>6 DEF SaveRaw, DirType
<1>7. ASSUME NEW c \in Inserter, InsertWrite(c)
      PROVE  dir'[t] = dir[t] \/ (t \in subject[c] /\ dir'[t].there)
  <2>1. PICK u \in subject[c] : SaveRaw(c, u)
    BY <1>7 DEF InsertWrite
  <2>2. QED
    BY <1>0, <1>6, <2>1
<1>8. ASSUME NEW c \in Inserter, InsertRename(c)
      PROVE  dir'[t].there = dir[t].there /\ dir'[t].meta = dir[t].meta
  <2>1. PICK u \in subject[c] :
           \/ dir' = dir
           \/ dir' = [dir EXCEPT ![u] = [dir[u] EXCEPT !.raw = @ \ {c}, !.parts = @ \cup {schema[c]}]]
    BY <1>8, ZenonT(40) DEF InsertRename
  <2>2. \E v, w : dir' = dir \/ dir' = [dir EXCEPT ![u] = [dir[u] EXCEPT !.raw = v, !.parts = w]]
    BY <2>1
  <2>3. PICK v, w : dir' = dir \/ dir' = [dir EXCEPT ![u] = [dir[u] EXCEPT !.raw = v, !.parts = w]]
    BY <2>2
  <2>4. /\ [dir[u] EXCEPT !.raw = v, !.parts = w].there = dir[u].there
        /\ [dir[u] EXCEPT !.raw = v, !.parts = w].meta = dir[u].meta
    BY <1>0, DirFields
  <2>5. QED
    BY <1>0, <2>3, <2>4, OneDir
<1>9. ASSUME MergeSave
      PROVE  dir'[t] = dir[t] \/ (t \in mtable /\ dir'[t].there)
  <2>1. PICK u \in mtable : SaveRaw(Merger, u)
    BY <1>9 DEF MergeSave
  <2>2. QED
    BY <1>0, <1>6, <2>1
<1>10. ASSUME MergeMove
       PROVE  dir'[t].there = dir[t].there /\ dir'[t].meta = dir[t].meta
  <2>1. PICK u \in mtable :
           dir' = dir \/ \E v : dir' = [dir EXCEPT ![u] = [dir[u] EXCEPT !.raw = v]]
    BY <1>10 DEF MergeMove
  <2>2. PICK v : dir' = dir \/ dir' = [dir EXCEPT ![u] = [dir[u] EXCEPT !.raw = v]]
    BY <2>1
  <2>3. /\ [dir[u] EXCEPT !.raw = v].there = dir[u].there
        /\ [dir[u] EXCEPT !.raw = v].meta = dir[u].meta
    BY <1>0, DirFields
  <2>4. QED
    BY <1>0, <2>2, <2>3, OneDir
<1>11. ASSUME NEW c \in Definer,
              \/ CreateDatabase(c) \/ CreateIssue(c) \/ CreateEntry(c) \/ CreatePublish(c)
              \/ DropTableIssue(c) \/ DropCheck(c) \/ DropRemove(c) \/ DropDatabaseIssue(c)
              \/ Retain(c) \/ Open(c) \/ RemoveDatabase(c) \/ RemovalFails(c)
       PROVE  UNCHANGED dir
  BY <1>11 DEF CreateDatabase, CreateIssue, CreateEntry, CreatePublish, DropTableIssue,
     DropCheck, DropRemove, DropDatabaseIssue, Retain, Open, RemoveDatabase, RemovalFails
<1>12. ASSUME (\E c \in Inserter : InsertPlan(c) \/ InsertLock(c)) \/ MergeFind
       PROVE  UNCHANGED dir
  BY <1>12 DEF InsertPlan, InsertLock, MergeFind
<1>13. QED
  BY <1>1, <1>2, <1>3, <1>r, <1>4, <1>5, <1>7, <1>8, <1>9, <1>10, <1>11, <1>12
     DEF Next, Create, Drop, Insert, Merge

(* A DROP gets past the removal of an entry only where nobody holds the    *)
(* lock, and leaves no entry.                                              *)
LEMMA PastSteps ==
    ASSUME CInv, Next, ~Crash, ~Start, NEW t \in Table, NEW c \in Client, PastRemoval(c, t)'
    PROVE  PastRemoval(c, t) \/ (entry'[t] = 0 /\ lock[t] = NoOne)
<1>0. TypeOK /\ RoleInv /\ Definer \cap Inserter = {}
  BY CatalogAssumption DEF CInv
<1>1. /\ t \in subject'[c]
      /\ pc'[c] \in {"open", "open all", "rm", "rm all"} \/ (pc'[c] = "retain" /\ t \notin shards'[c])
  BY DEF PastRemoval
<1>2. ASSUME NEW d \in Client, Apart(d), d # c PROVE PastRemoval(c, t)
  BY <1>1, <1>2 DEF Apart, PastRemoval
<1>3. ASSUME c \in Definer, Drop(c) PROVE PastRemoval(c, t) \/ (entry'[t] = 0 /\ lock[t] = NoOne)
  <2>1. CASE DropTableIssue(c)
    BY <1>0, <1>1, <2>1 DEF DropTableIssue, Issue, Goto, TypeOK
  <2>2. CASE DropCheck(c)
    BY <1>0, <1>1, <2>2, AnswerApart DEF DropCheck, Goto, TypeOK
  <2>3. CASE DropRemove(c)
    BY <1>0, <1>1, <2>3 DEF DropRemove
  <2>4. CASE DropDatabaseIssue(c)
    BY <1>0, <1>1, <2>4 DEF DropDatabaseIssue, Issue, Goto, TypeOK
  <2>5. CASE Retain(c)
    <3>1. PICK u \in shards[c] :
             /\ lock[u] = NoOne /\ entry' = [entry EXCEPT ![u] = 0]
             /\ shards' = [shards EXCEPT ![c] = shards[c] \ {u}]
             /\ IF shards[c] = {u} THEN Goto(c, "open all") ELSE UNCHANGED pc
      BY <2>5 DEF Retain
    <3>2. pc[c] = "retain" /\ subject' = subject
      BY <2>5 DEF Retain
    <3>3. CASE t = u
      BY <1>0, <3>1, <3>3 DEF TypeOK
    <3>4. CASE t # u
      <4>1. t \notin shards[c]
        BY <1>0, <1>1, <3>1, <3>2, <3>4 DEF Goto, TypeOK
      <4>2. QED
        BY <1>1, <3>2, <4>1 DEF PastRemoval
    <3>5. QED
      BY <3>3, <3>4
  <2>6. CASE Open(c)
    BY <1>0, <1>1, <2>6, AnswerApart DEF Open, PastRemoval
  <2>7. CASE RemoveItem(c)
    BY <1>1, <2>7 DEF RemoveItem, PastRemoval
  <2>8. CASE RemoveDir(c)
    BY <1>0, <1>1, <2>8, AnswerApart DEF RemoveDir, Emptied, PastRemoval
  <2>9. CASE RemoveDatabase(c) \/ RemovalFails(c)
    BY <1>0, <1>1, <2>9, AnswerApart DEF RemoveDatabase, RemovalFails
  <2>10. QED
    BY <1>3, <2>1, <2>2, <2>3, <2>4, <2>5, <2>6, <2>7, <2>8, <2>9 DEF Drop
<1>4. ASSUME c \in Definer, Create(c) PROVE PastRemoval(c, t)
  <2>0. c \in Client
    OBVIOUS
  <2>1. CASE CreateDatabase(c)
    BY <1>1, <2>1 DEF CreateDatabase, commands, PastRemoval
  <2>2. CASE CreateIssue(c) \/ CreateMeta(c)
    BY <1>0, <1>1, <2>2 DEF CreateIssue, CreateMeta, Issue, Goto, TypeOK
  <2>3. CASE CreateEntry(c) \/ CreateDir(c)
    BY <1>0, <1>1, <2>3, AnswerApart DEF CreateEntry, CreateDir, Goto, TypeOK
  <2>4. CASE CreateMetaFails(c) \/ CreateCleanUpFails(c) \/ CreatePublish(c)
    BY <1>0, <1>1, <2>4, AnswerApart DEF CreateMetaFails, CreateCleanUpFails, CreatePublish
  <2>5. QED
    BY <1>4, <2>1, <2>2, <2>3, <2>4 DEF Create
<1>5. ASSUME c \in Inserter, Insert(c) PROVE FALSE
  BY <1>1, <1>5, InsertMoves
<1>6. ASSUME Merge PROVE PastRemoval(c, t)
  BY <1>1, <1>6, MergeApart DEF commands, PastRemoval
<1>7. QED
  BY <1>2, <1>3, <1>4, <1>5, <1>6, CreateApart, DropApart, InsertApart DEF Next, Client

LEMMA OverlapsGrow ==
    ASSUME Next, ~Start
    PROVE  overlapped \subseteq overlapped'
BY DEF Next, Create, CreateDatabase, CreateIssue, CreateEntry, CreateDir, CreateMeta,
   CreateMetaFails, CreateCleanUpFails, CreatePublish, Drop, DropTableIssue, DropCheck, DropRemove,
   DropDatabaseIssue, Retain, Open, RemoveItem, RemoveDir, RemoveDatabase, RemovalFails, Insert,
   InsertPlan, InsertLock, InsertWrite, InsertRename, Merge, MergeFind, MergeSave,
   MergeMove, Crash, history

(* What is sound stays so, but for the table of a CREATE that fails, as    *)
(* long as nobody removes the entry.                                       *)
LEMMA SoundStays ==
    ASSUME CInv, Next, ~Crash, ~Start, NEW t \in Table, Sound(t),
           entry'[t] # 0 \/ lock[t] # NoOne,
           \A c \in Definer : CreateMetaFails(c) => t \notin subject[c]
    PROVE  Sound(t)'
<1>1. dir'[t].there
  BY DirSteps DEF Sound, EmptyDir, NoDir, Client
<1>2. \A c \in Client : ~PastRemoval(c, t)'
  BY PastSteps DEF Sound
<1>3. QED
  BY <1>1, <1>2 DEF Sound

LEMMA DirNext ==
    ASSUME CInv, Next, ~Crash, ~Start
    PROVE  DirInv'
<1>0. /\ DirInv /\ HoldInv /\ TypeOK /\ Definer \subseteq Client /\ NoOne \notin Client
      /\ overlapped \subseteq overlapped'
  BY CatalogAssumption, OverlapsGrow DEF CInv, Client
<1>f. ASSUME NEW c \in Definer, CreateMetaFails(c), NEW t \in subject[c]
      PROVE  t \in Table /\ lock[t] = c /\ entry[t] = 0 /\ entry' = entry /\ pc'[c] = "idle"
  <2>1. pc[c] = "create meta" /\ Answer(c) /\ entry' = entry /\ c \in Client
    BY <1>0, <1>f DEF CreateMetaFails
  <2>2. \E u \in Table : subject[c] = {u} /\ lock[u] = c /\ entry[u] = 0
    BY <1>0, <2>1 DEF HoldInv, Making
  <2>3. QED
    BY <1>0, <1>f, <2>1, <2>2, AnswerApart
<1>1. ASSUME NEW t \in Table PROVE dir'[t].meta # 0 => dir'[t].there
  <2>1. NoDir.meta = 0 /\ EmptyDir.meta = 0
    BY DEF NoDir, EmptyDir
  <2>2. dir[t].meta # 0 => dir[t].there
    BY <1>0 DEF DirInv
  <2>3. QED
    BY <2>1, <2>2, DirSteps
<1>2. ASSUME NEW t \in Table \ overlapped', entry'[t] # 0 PROVE Sound(t)'
  <2>1. \A c \in Definer : CreateMetaFails(c) => t \notin subject[c]
    BY <1>2, <1>f
  <2>2. Sound(t)
    <3>1. CASE entry[t] # 0
      BY <1>0, <1>2, <3>1 DEF DirInv
    <3>2. CASE \E c \in Definer : CreatePublish(c) /\ subject[c] = {t}
      <4>1. PICK c \in Definer : pc[c] = "create publish" /\ subject[c] = {t}
        BY <3>2 DEF CreatePublish
      <4>2. QED
        BY <1>0, <1>2, <4>1 DEF DirInv
    <3>3. QED
      BY <1>2, <3>1, <3>2, EntrySteps
  <2>3. QED
    BY <1>2, <2>1, <2>2, SoundStays
<1>3. ASSUME NEW d \in Definer, pc'[d] \in {"create meta", "create publish"},
             NEW t \in subject'[d] \ overlapped'
      PROVE  Sound(t)'
  <2>1. d \in Client /\ t \in Table /\ subject'[d] = {t} /\ lock'[t] = d
    <3>1. \E u \in Table : subject'[d] = {u} /\ lock'[u] = d
      BY <1>3, HoldNext DEF HoldInv, Making
    <3>2. QED
      BY <1>0, <1>3, <3>1
  <2>2. CASE CreateDir(d)
    <3>1. PICK u \in subject[d] : /\ dir' = [dir EXCEPT ![u] = EmptyDir]
                                  /\ overlapped' = overlapped \cup BeingRemoved({u})
                                  /\ UNCHANGED <<lock, subject, schema, shards, listed>>
      BY <1>0, <1>3, <2>1, <2>2, AnswerApart DEF CreateDir
    <3>2. u = t /\ pc' = [pc EXCEPT ![d] = "create meta"] /\ pc[d] = "create dir"
      BY <1>0, <1>3, <2>1, <2>2, <3>1, AnswerApart DEF CreateDir, Goto
    <3>3. dir'[t].there
      BY <1>0, <2>1, <3>1, <3>2 DEF TypeOK, EmptyDir, NoDir
    <3>4. ASSUME NEW c \in Client, PastRemoval(c, t)' PROVE FALSE
      <4>1. PastRemoval(c, t)
        BY <1>0, <2>1, <3>1, <3>2, <3>4 DEF PastRemoval, TypeOK
      <4>2. t \in BeingRemoved({t})
        BY <4>1 DEF BeingRemoved
      <4>3. QED
        BY <1>3, <3>1, <3>2, <4>2
    <3>5. QED
      BY <3>3, <3>4 DEF Sound
  <2>3. CASE ~CreateDir(d)
    <3> DEFINE Was == /\ pc[d] \in {"create meta", "create publish"}
                      /\ subject'[d] = subject[d] /\ lock[t] = d
    <3>1. ASSUME NEW c \in Client, c # d, Apart(c) PROVE Was
      BY <1>3, <2>1, <3>1 DEF Apart
    <3>2. ASSUME Create(d) PROVE Was
      <4>1. CASE CreateMeta(d)
        BY <2>1, <4>1 DEF CreateMeta
      <4>2. CASE CreateDatabase(d)
        BY <1>3, <2>1, <4>2 DEF CreateDatabase, commands
      <4>3. CASE CreateIssue(d) \/ CreateEntry(d)
        BY <1>0, <1>3, <2>1, <4>3, AnswerApart DEF CreateIssue, CreateEntry, Issue, Goto, TypeOK
      <4>4. CASE CreateMetaFails(d) \/ CreateCleanUpFails(d) \/ CreatePublish(d)
        BY <1>0, <1>3, <2>1, <4>4, AnswerApart DEF CreateMetaFails, CreateCleanUpFails, CreatePublish
      <4>5. QED
        BY <2>3, <3>2, <4>1, <4>2, <4>3, <4>4 DEF Create
    <3>3. ASSUME Drop(d) PROVE Was
      BY <1>3, <3>3, DropMoves DEF Making
    <3>4. ASSUME Merge PROVE Was
      BY <1>3, <2>1, <3>4, MergeApart DEF commands
    <3> HIDE DEF Was
    <3>5. Was
      BY <3>1, <3>2, <3>3, <3>4, CreateApart, DropApart, InsertApart, CatalogAssumption
         DEF Next, Client
    <3>6. Sound(t) /\ lock[t] # NoOne
      BY <1>0, <1>3, <2>1, <3>5 DEF DirInv, Was
    <3>7. \A c \in Definer : CreateMetaFails(c) => t \notin subject[c]
      BY <1>3, <1>f, <3>5 DEF Was
    <3>8. QED
      BY <2>1, <3>6, <3>7, SoundStays
  <2>4. QED
    BY <2>2, <2>3
<1>4. QED
  BY <1>1, <1>2, <1>3 DEF DirInv

(* An INSERT writes into a table that has an entry. *)
LEMMA InsertKnows ==
    ASSUME CInv, NEW c \in Inserter, InsertWrite(c), NEW t \in subject[c]
    PROVE  entry[t] # 0
<1>1. pc[c] = "insert write" /\ InsertInv
  BY DEF InsertWrite, CInv
<1>2. \E u \in Table : subject[c] = {u} /\ lock[u] = c /\ entry[u] # 0
  BY <1>1 DEF InsertInv
<1>3. QED
  BY <1>2

LEMMA DirDown ==
    ASSUME CInv, Crash \/ Start
    PROVE  DirInv'
<1>0. DirInv /\ DownInv /\ TypeOK
  BY DEF CInv
<1>1. CASE Crash
  BY <1>0, <1>1 DEF Crash, DirInv, Client
<1>2. CASE Start
  <2>1. \A c \in Client : pc'[c] = "idle"
    BY <1>0, <1>2 DEF Start, commands, DownInv
  <2>2. \A t \in Table : dir'[t].there = dir[t].there /\ dir'[t].meta = dir[t].meta
    BY <1>0, <1>2 DEF Start, TypeOK
  <2>3. \A t \in Table : entry'[t] # 0 => dir[t].meta # 0
    BY <1>0, <1>2 DEF Start, DownInv
  <2>4. QED
    BY <1>0, <2>1, <2>2, <2>3 DEF DirInv, Sound, PastRemoval, Client
<1>3. QED
  BY <1>1, <1>2

LEMMA NextInv ==
    ASSUME CInv, [Next]_vars
    PROVE  CInv'
<1>1. CASE Next
  BY <1>1, TypeNext, ControlNext, HoldNext, InsertNext, DirNext, DirDown DEF CInv
<1>2. CASE UNCHANGED vars
  <2>1. TypeOK' /\ ListedOK'
    BY <1>2 DEF CInv, vars, commands, merge, bounds, history, TypeOK, ListedOK
  <2>2. RoleInv' /\ OneTable' /\ DownInv' /\ HoldInv' /\ InsertInv'
    BY <1>2 DEF CInv, vars, commands, merge, RoleInv, OneTable, DownInv, HoldInv, InsertInv
  <2>3. DirInv'
    BY <1>2 DEF CInv, vars, commands, history, DirInv, Sound, PastRemoval
  <2>4. QED
    BY <2>1, <2>2, <2>3 DEF CInv
<1>3. QED
  BY <1>1, <1>2

(* The invariant holds in every state. *)
THEOREM Invariance == Spec => []CInv
BY InitInv, NextInv, PTL DEF Spec

(* Every variable stays in its set, however commands, merges and crashes   *)
(* interleave (src/src/sql/execution/create.rs, drop.rs).                  *)
THEOREM TypeCorrect == Spec => []TypeOK
<1>1. CInv => TypeOK
  BY DEF CInv
<1>2. QED
  BY <1>1, Invariance, PTL

(* No CREATE TABLE replaces a table, and neither does start-up: the vacant *)
(* entry is a lock from the look-up to the insertion                       *)
(* (create_table, src/src/sql/execution/create.rs:57).                     *)
THEOREM NoTableReplaced == Spec => EntryNeverReplaced
<1>1. CInv /\ [Next]_vars => [\A t \in Table : entry[t] # 0 => entry'[t] \in {entry[t], 0}]_vars
  <2> SUFFICES ASSUME CInv, Next, NEW t \in Table, entry[t] # 0
               PROVE  entry'[t] \in {entry[t], 0}
    OBVIOUS
  <2>1. CASE Crash
    BY <2>1 DEF Crash
  <2>2. CASE Start
    BY <2>2 DEF Start, CInv, DownInv
  <2>3. QED
    BY <2>1, <2>2, EntrySteps
<1>2. QED
  BY <1>1, Invariance, PTL DEF Spec, EntryNeverReplaced

(* A directory that is not there appears only when CREATE TABLE creates    *)
(* it, unless the table was created or written by a merge between a DROP's *)
(* removal of the entry and of the directory: no INSERT brings a dropped   *)
(* table back (save_raw, src/src/storage/table_part.rs:254, under the lock *)
(* of try_from_mut).                                                       *)
THEOREM OnlyMergesRevive == Spec => OnlyOverlapsRevive
<1> DEFINE Created == \A t \in Table \ overlapped' : ~dir[t].there /\ dir'[t].there =>
                         \E c \in Definer : pc[c] = "create dir" /\ t \in subject[c]
<1>1. CInv /\ [Next]_vars => [Created]_vars
  <2> SUFFICES ASSUME CInv, Next, NEW t \in Table \ overlapped', ~dir[t].there, dir'[t].there
               PROVE  \E c \in Definer : pc[c] = "create dir" /\ t \in subject[c]
    OBVIOUS
  <2>1. ~Crash /\ ~Start
    <3>1. dir \in [Table -> DirType]
      BY DEF CInv, TypeOK, DirType
    <3>2. CASE Crash
      BY <3>2 DEF Crash
    <3>3. CASE Start
      <4>1. dir'[t] = dir[t] \/ dir'[t] = [dir[t] EXCEPT !.raw = {}]
        BY <3>3 DEF Start
      <4>2. dir[t] \in DirType
        BY <3>1
      <4>3. dir'[t].there = dir[t].there
        BY <4>1, <4>2 DEF DirType
      <4>4. QED
        BY <4>3
    <3>4. QED
      BY <3>2, <3>3
  <2>0. entry[t] = 0
    BY <2>1, OverlapsGrow DEF CInv, DirInv, Sound
  <2>2. ASSUME NEW c \in Inserter, InsertWrite(c), t \in subject[c] PROVE FALSE
    BY <2>0, <2>2, InsertKnows
  <2>3. ASSUME MergeSave, t \in mtable PROVE FALSE
    BY <2>0, <2>3 DEF MergeSave
  <2>4. ~NoDir.there
    BY DEF NoDir
  <2>5. QED
    BY <2>1, <2>2, <2>3, <2>4, DirSteps DEF CreateDir
<1>2. QED
  BY <1>1, Invariance, PTL DEF Spec, OnlyOverlapsRevive

-----------------------------------------------------------------------------
(* Memory and disk: that the entries and the directories agree again       *)
(* whenever no command is under way, and what is left for the next start.  *)


(* A CREATE TABLE has made the directory of t, and no entry yet. *)
Creating(t) ==
    \E c \in Definer : pc[c] \in {"create meta", "create publish"} /\ t \in subject[c]

(* An entry has the schema of its metadata file. *)
MetaInv ==
    /\ \A t \in Table \ overlapped : entry[t] # 0 => dir[t].meta = entry[t]
    /\ \A c \in Definer : pc[c] = "create publish" =>
          \A t \in subject[c] \ overlapped : dir[t].meta = schema[c]

(* A table that is there again, where a DROP is past its removal of the    *)
(* entry, is marked.                                                       *)
PassInv ==
    \A t \in Table, c \in Definer :
        PastRemoval(c, t) /\ (entry[t] # 0 \/ Creating(t)) => t \in overlapped

(* All that is in the directory of t is on the list of c's walk. *)
Covered(c, t) == \A i \in Items(t) \cup {DirEntry} : <<t, i>> \in listed[c]

WalkInv ==
    \A c \in Definer : pc[c] \in {"rm", "rm all"} =>
        \A t \in subject[c] \ overlapped : dir[t].there => Covered(c, t)

(* A directory without an entry is being made or being removed, or is what *)
(* a removal that failed left.                                             *)
WorkInv ==
    status = "up" => \A t \in Table \ overlapped : dir[t].there /\ entry[t] = 0 =>
        t \in leftover \/ Creating(t) \/ \E c \in Definer : PastRemoval(c, t)

(* What a failing removal left has no entry, and nobody brings it back.    *)
StayInv ==
    \A t \in leftover \ overlapped : dir[t].there /\ entry[t] = 0 /\ ~Creating(t)

(* Nothing is in a directory that is not there. *)
BareInv ==
    /\ \A t \in Table : dir[t].there => DatabaseOf[t] \in databases
    /\ \A t \in Table : Items(t) # {} => dir[t].there

(* DROP DATABASE is about all tables of a database. *)
WholeInv ==
    \A c \in Definer :
        /\ pc[c] \in {"retain", "open all", "rm all"} =>
              \E d \in Database : subject[c] = TablesOf(d)
        /\ pc[c] = "retain" => shards[c] \subseteq subject[c]

(* What a process that was not killed inside a CREATE or a DROP leaves. *)
LeftInv ==
    /\ status # "up" /\ ~interrupted =>
          \A t \in Table \ (overlapped \cup leftover) : dir[t].there => dir[t].meta # 0
    /\ status = "refused" => \E t \in Table : dir[t].there /\ dir[t].meta = 0

(* CREATE TABLE was given a schema. *)
SchemaInv ==
    \A c \in Definer : pc[c] \in {"create entry"} \cup Making => schema[c] # 0

DiskInv == MetaInv /\ PassInv /\ WalkInv /\ WorkInv /\ StayInv /\ BareInv /\ WholeInv
           /\ LeftInv /\ SchemaInv

-----------------------------------------------------------------------------
LEMMA InitDisk ==
    ASSUME Init
    PROVE  DiskInv
<1>1. \A t \in Table : Items(t) = {} /\ ~dir[t].there
  BY DEF Init, Items, NoDir
<1>2. \A c \in Definer : pc[c] = "idle"
  BY DEF Init, Client
<1>3. \A t \in Table : entry[t] = 0
  BY DEF Init
<1>4. status = "up" /\ leftover = {}
  BY DEF Init
<1>5. QED
  BY <1>1, <1>2, <1>3, <1>4 DEF DiskInv, MetaInv, PassInv, WalkInv, WorkInv, StayInv,
     BareInv, WholeInv, LeftInv, SchemaInv, Making, PastRemoval, Creating

(* A step of a command leaves the listings of the others alone. *)
LEMMA ListedApart ==
    ASSUME CInv, NEW c \in Client,
           \/ c \in Definer /\ (Create(c) \/ Drop(c))
           \/ c \in Inserter /\ Insert(c)
    PROVE  \A d \in Client \ {c} : listed'[d] = listed[d]
<1>0. listed = [d \in Client |-> listed[d]]
  BY DEF CInv, ListedOK
<1>1. ASSUME \E l : listed' = [listed EXCEPT ![c] = l]
      PROVE  \A d \in Client \ {c} : listed'[d] = listed[d]
  BY <1>0, <1>1
<1>2. CASE Answer(c) \/ UNCHANGED listed
  BY <1>1, <1>2 DEF Answer
<1>3. CASE c \in Definer /\ Create(c)
  BY <1>2, <1>3 DEF Create, CreateDatabase, CreateIssue, CreateEntry, CreateDir, CreateMeta,
     CreateMetaFails, CreateCleanUpFails, CreatePublish, commands
<1>4. CASE c \in Definer /\ (DropTableIssue(c) \/ DropCheck(c) \/ DropRemove(c)
                             \/ DropDatabaseIssue(c) \/ Retain(c) \/ RemoveDatabase(c)
                             \/ RemovalFails(c))
  BY <1>2, <1>4 DEF DropTableIssue, DropCheck, DropRemove, DropDatabaseIssue, Retain,
     RemoveDatabase, RemovalFails
<1>5. CASE c \in Definer /\ (Open(c) \/ RemoveItem(c) \/ RemoveDir(c))
  <2>1. Answer(c) \/ \E l : listed' = [listed EXCEPT ![c] = l]
    BY <1>5 DEF Open, RemoveItem, RemoveDir
  <2>2. QED
    BY <1>1, <1>2, <2>1
<1>6. CASE c \in Inserter /\ Insert(c)
  BY <1>2, <1>6 DEF Insert, InsertPlan, InsertLock, InsertWrite, InsertRename
<1>7. QED
  BY <1>3, <1>4, <1>5, <1>6 DEF Drop

Acts(c) == \/ c \in Definer /\ (Create(c) \/ Drop(c))
           \/ c \in Inserter /\ Insert(c)

(* A client that does not act keeps its locals and its locks. *)
LEMMA Still ==
    ASSUME CInv, Next, ~Crash, ~Start, NEW c \in Client, ~Acts(c)
    PROVE  /\ pc'[c] = pc[c] /\ subject'[c] = subject[c] /\ shards'[c] = shards[c]
           /\ schema'[c] = schema[c] /\ listed'[c] = listed[c]
           /\ \A t \in Table : lock'[t] = c <=> lock[t] = c
<1>1. CASE Merge
  BY <1>1, MergeApart DEF commands
<1>2. CASE \E d \in Client : Acts(d)
  <2>1. PICK d \in Client : Acts(d)
    BY <1>2
  <2>2. d # c /\ Apart(d)
    BY <2>1, CreateApart, DropApart, InsertApart DEF Acts
  <2>3. listed'[c] = listed[c]
    BY <2>1, <2>2, ListedApart DEF Acts
  <2>4. QED
    BY <2>2, <2>3 DEF Apart
<1>3. QED
  BY <1>1, <1>2 DEF Next, Acts, Client

(* A command is about the same tables until it is answered. *)
LEMMA SubjectStays ==
    ASSUME CInv, Next, ~Crash, ~Start, NEW c \in Client, pc[c] # "idle"
    PROVE  subject'[c] = subject[c] \/ (pc'[c] = "idle" /\ subject'[c] = {})
<1>1. CASE ~Acts(c)
  BY <1>1, Still
<1>2. CASE Answer(c)
  BY <1>2, AnswerApart DEF CInv
<1>3. CASE c \in Definer /\ Create(c) /\ ~Answer(c)
  BY <1>3 DEF Create, CreateDatabase, CreateIssue, CreateEntry, CreateDir, CreateMeta,
     CreateMetaFails, CreateCleanUpFails, CreatePublish, Issue
<1>4. CASE c \in Definer /\ Drop(c) /\ ~Answer(c)
  BY <1>4 DEF Drop, DropTableIssue, DropCheck, DropRemove, DropDatabaseIssue, Retain, Open,
     RemoveItem, RemoveDir, RemoveDatabase, RemovalFails, Issue
<1>5. CASE c \in Inserter /\ Insert(c) /\ ~Answer(c)
  BY <1>5 DEF Insert, InsertPlan, InsertLock, InsertWrite, InsertRename, Issue
<1>6. QED
  BY <1>1, <1>2, <1>3, <1>4, <1>5 DEF Acts

(* A CREATE TABLE past its directory made it, or was there before. *)
LEMMA CreatorSteps ==
    ASSUME CInv, Next, ~Crash, ~Start, NEW c \in Definer, NEW t \in subject'[c],
           pc'[c] \in {"create meta", "create publish"}
    PROVE  /\ t \in Table /\ subject[c] = {t} /\ lock[t] = c /\ entry[t] = 0
           /\ schema'[c] = schema[c]
           /\ \/ ~Acts(c) /\ pc[c] = pc'[c]
              \/ CreateMeta(c) /\ pc[c] = "create meta" /\ pc'[c] = "create publish"
              \/ /\ CreateDir(c) /\ pc[c] = "create dir" /\ pc'[c] = "create meta"
                 /\ ~dir[t].there /\ dir'[t].there
                 /\ overlapped' = overlapped \cup BeingRemoved({t})
<1>0. TypeOK /\ HoldInv /\ c \in Client /\ NoOne \notin Client /\ c \notin Inserter
  BY CatalogAssumption DEF CInv, Client
<1>h. ASSUME pc[c] \in Making, t \in subject[c]
      PROVE  t \in Table /\ subject[c] = {t} /\ lock[t] = c /\ entry[t] = 0
  <2>1. PICK u \in Table : subject[c] = {u} /\ lock[u] = c /\ entry[u] = 0
    BY <1>0, <1>h DEF HoldInv
  <2>2. QED
    BY <1>h, <2>1
<1>1. CASE ~Acts(c)
  BY <1>0, <1>1, <1>h, Still DEF Making
<1>2. CASE Drop(c)
  BY <1>2, DropMoves DEF Making
<1>3. CASE Create(c)
  <2>1. ~Answer(c)
    BY <1>0, AnswerApart
  <2>2. CASE CreateMeta(c)
    <3>1. pc[c] = "create meta" /\ pc'[c] = "create publish" /\ UNCHANGED <<subject, schema>>
      BY <1>0, <2>2 DEF CreateMeta, Goto, TypeOK
    <3>2. QED
      BY <1>h, <2>2, <3>1 DEF Making
  <2>3. CASE CreateDir(c)
    <3>1. PICK u \in subject[c] : /\ dir' = [dir EXCEPT ![u] = EmptyDir]
                                  /\ overlapped' = overlapped \cup BeingRemoved({u})
                                  /\ Goto(c, "create meta") /\ ~dir[u].there
                                  /\ UNCHANGED <<subject, schema>>
      BY <2>1, <2>3 DEF CreateDir
    <3>2. pc[c] = "create dir" /\ pc'[c] = "create meta"
      BY <1>0, <2>3, <3>1 DEF CreateDir, Goto, TypeOK
    <3>3. t \in Table /\ subject[c] = {t} /\ lock[t] = c /\ entry[t] = 0 /\ u = t
      BY <1>h, <3>1, <3>2 DEF Making
    <3>4. dir'[t].there
      BY <1>0, <3>1, <3>3 DEF TypeOK, EmptyDir, NoDir
    <3>5. QED
      BY <2>3, <3>1, <3>2, <3>3, <3>4
  <2>4. CASE CreateDatabase(c)
    <3>1. pc'[c] = "idle"
      BY <2>4 DEF CreateDatabase, commands
    <3>2. QED
      BY <3>1
  <2>5. CASE CreateIssue(c) \/ CreateEntry(c)
    BY <1>0, <2>1, <2>5 DEF CreateIssue, CreateEntry, Issue, Goto, TypeOK
  <2>6. CASE CreateMetaFails(c) \/ CreateCleanUpFails(c) \/ CreatePublish(c)
    BY <2>1, <2>6 DEF CreateMetaFails, CreateCleanUpFails, CreatePublish
  <2>7. QED
    BY <1>3, <2>2, <2>3, <2>4, <2>5, <2>6 DEF Create
<1>4. QED
  BY <1>0, <1>1, <1>2, <1>3 DEF Acts

(* An INSERT that writes is about one table, whose entry it keeps. *)
LEMMA InserterHolds ==
    ASSUME CInv, NEW c \in Inserter, InsertWrite(c) \/ InsertRename(c), NEW t \in subject[c]
    PROVE  t \in Table /\ subject[c] = {t} /\ lock[t] = c /\ entry[t] # 0 /\ c \in Client
<1>1. pc[c] \in {"insert write", "insert rename"} /\ InsertInv /\ c \in Client
  BY DEF InsertWrite, InsertRename, CInv, Client
<1>2. PICK u \in Table : subject[c] = {u} /\ lock[u] = c /\ entry[u] # 0
  BY <1>1 DEF InsertInv
<1>3. QED
  BY <1>1, <1>2

(* The items of a directory. *)
ItemsOf(d) ==
    {<<"meta", v>> : v \in {d.meta} \ {0}} \cup {<<"part", v>> : v \in d.parts}
    \cup {<<"raw", w>> : w \in d.raw}

LEMMA ItemsAre ==
    ASSUME NEW t \in Table
    PROVE  Items(t) = ItemsOf(dir[t]) /\ Items(t)' = ItemsOf(dir'[t])
BY DEF Items, ItemsOf

(* The directory itself is none of them. *)
LEMMA ItemKinds == \A d, i : i \in ItemsOf(d) => i # DirEntry
<1> SUFFICES ASSUME NEW d, NEW i \in ItemsOf(d) PROVE i # DirEntry
  OBVIOUS
<1>1. i[1] \in {"meta", "part", "raw"}
  BY DEF ItemsOf
<1>2. DirEntry[1] = "dir"
  BY DEF DirEntry
<1>3. QED
  BY <1>1, <1>2

LEMMA NoItems == ItemsOf(NoDir) = {} /\ ItemsOf(EmptyDir) = {} /\ ~NoDir.there
                 /\ EmptyDir.there /\ NoDir.meta = 0 /\ EmptyDir.meta = 0
BY DEF ItemsOf, NoDir, EmptyDir

LEMMA WithoutItem ==
    ASSUME NEW d \in DirType, NEW i \in ItemsOf(d)
    PROVE  /\ Without(d, i).there = d.there
           /\ Without(d, i).meta \in {d.meta, 0}
           /\ ItemsOf(Without(d, i)) \subseteq ItemsOf(d) \ {i}
<1>1. CASE i[1] = "meta"
  <2>1. Without(d, i) = [d EXCEPT !.meta = 0]
    BY <1>1 DEF Without
  <2>2. /\ Without(d, i).there = d.there /\ Without(d, i).meta = 0
        /\ Without(d, i).parts = d.parts /\ Without(d, i).raw = d.raw
    BY <2>1 DEF DirType
  <2>3. QED
    BY <1>1, <2>2 DEF ItemsOf
<1>2. CASE i[1] = "part"
  <2>1. Without(d, i) = [d EXCEPT !.parts = d.parts \ {i[2]}]
    BY <1>2 DEF Without
  <2>2. /\ Without(d, i).there = d.there /\ Without(d, i).meta = d.meta
        /\ Without(d, i).parts = d.parts \ {i[2]} /\ Without(d, i).raw = d.raw
    BY <2>1 DEF DirType
  <2>3. QED
    BY <1>2, <2>2 DEF ItemsOf
<1>3. CASE i[1] = "raw"
  <2>1. Without(d, i) = [d EXCEPT !.raw = d.raw \ {i[2]}]
    BY <1>3 DEF Without
  <2>2. /\ Without(d, i).there = d.there /\ Without(d, i).meta = d.meta
        /\ Without(d, i).parts = d.parts /\ Without(d, i).raw = d.raw \ {i[2]}
    BY <2>1 DEF DirType
  <2>3. QED
    BY <1>3, <2>2 DEF ItemsOf
<1>4. i[1] \in {"meta", "part", "raw"}
  BY DEF ItemsOf
<1>5. QED
  BY <1>1, <1>2, <1>3, <1>4

(* A directory loses an item or nothing. *)
Shrinks(t) ==
    /\ dir'[t].there = dir[t].there /\ Items(t)' \subseteq Items(t)
    /\ \/ dir'[t].meta = dir[t].meta
       \/ \E c \in Definer : PastRemoval(c, t)

(* A writer of t adds what it writes. *)
Grows(t) ==
    /\ dir'[t].meta = dir[t].meta
    /\ dir'[t].there \/ (dir'[t].there = dir[t].there /\ Items(t)' \subseteq Items(t))

(* What can happen to a directory, and by whom. *)
LEMMA DirChanges ==
    ASSUME CInv, BareInv, Next, ~Crash, ~Start, NEW t \in Table
    PROVE  \/ Shrinks(t)
           \/ \E c \in Definer : CreateMetaFails(c) /\ subject[c] = {t} /\ dir'[t] = NoDir
           \/ \E c \in Definer : RemoveDir(c) /\ PastRemoval(c, t) /\ dir'[t] = NoDir
           \/ \E c \in Definer : /\ CreateDir(c) /\ Acts(c) /\ subject[c] = {t}
                                 /\ pc'[c] = "create meta" /\ dir'[t] = EmptyDir
                                 /\ overlapped' = overlapped \cup BeingRemoved({t})
           \/ \E c \in Definer : /\ CreateMeta(c) /\ subject[c] = {t}
                                 /\ dir[t].there /\ dir'[t].there /\ dir'[t].meta = schema[c]
           \/ \E c \in Inserter : Insert(c) /\ subject[c] = {t} /\ entry[t] # 0 /\ Grows(t)
           \/ MergeSave /\ t \in mtable /\ dir'[t].there /\ dir'[t].meta = dir[t].meta
<1>0. /\ dir \in [Table -> DirType] /\ mtable \subseteq Table
      /\ \A c \in Definer \cup Inserter : c \in Client /\ subject[c] \subseteq Table
      /\ \A c \in Definer : pc[c] \notin Free => \E u \in Table : subject[c] = {u}
  BY DEF CInv, TypeOK, DirType, Client, OneTable, Free
<1>a. dir[t] \in DirType
  BY <1>0
<1>m. ASSUME NEW c \in Definer, pc[c] = "create meta", NEW u \in subject[c]
      PROVE  subject[c] = {u} /\ u \in Table
  <2>1. pc[c] \notin Free
    BY <1>m DEF Free
  <2>2. QED
    BY <1>0, <1>m, <2>1
<1>s. ASSUME dir'[t] = dir[t] PROVE Shrinks(t)
  BY <1>s, ItemsAre DEF Shrinks
<1>1. ASSUME NEW c \in Definer, CreateDir(c)
      PROVE  Shrinks(t) \/ (/\ Acts(c) /\ subject[c] = {t}
                             /\ pc'[c] = "create meta" /\ dir'[t] = EmptyDir
                             /\ overlapped' = overlapped \cup BeingRemoved({t}))
  <2>1. PICK u \in subject[c] : \/ dir' = dir
                                \/ /\ dir' = [dir EXCEPT ![u] = EmptyDir]
                                   /\ Goto(c, "create meta") /\ UNCHANGED subject
                                   /\ overlapped' = overlapped \cup BeingRemoved({u})
    BY <1>1 DEF CreateDir
  <2>2. subject[c] = {u} /\ u \in Table /\ Acts(c) /\ pc \in [Client -> Where] /\ c \in Client
    <3>1. pc[c] \notin Free /\ Acts(c)
      BY <1>1 DEF CreateDir, Free, Acts, Create
    <3>2. subject[c] = {u} /\ u \in Table /\ c \in Client
      <4>1. c \in Client /\ subject[c] \subseteq Table
        BY <1>0
      <4>2. PICK v \in Table : subject[c] = {v}
        BY <1>0, <3>1
      <4>3. QED
        BY <4>1, <4>2
    <3>3. pc \in [Client -> Where]
      BY DEF CInv, TypeOK
    <3>4. QED
      BY <3>1, <3>2, <3>3
  <2>3. Goto(c, "create meta") => pc'[c] = "create meta"
    BY <2>2 DEF Goto
  <2>4. QED
    BY <1>0, <1>s, <2>1, <2>2, <2>3, OneDir
<1>2. ASSUME NEW c \in Definer, CreateMeta(c)
      PROVE  Shrinks(t) \/ (subject[c] = {t} /\ dir[t].there /\ dir'[t].there
                            /\ dir'[t].meta = schema[c])
  <2>1. PICK u \in subject[c] : dir[u].there /\ dir' = [dir EXCEPT ![u].meta = schema[c]]
    BY <1>2 DEF CreateMeta
  <2>2. subject[c] = {u} /\ u \in Table
    BY <1>m, <1>2, <2>1 DEF CreateMeta
  <2>3. dir' = [dir EXCEPT ![u] = [dir[u] EXCEPT !.meta = schema[c]]]
    BY <1>0, <2>1
  <2>4. dir'[t] = IF t = u THEN [dir[u] EXCEPT !.meta = schema[c]] ELSE dir[t]
    BY <1>0, <2>2, <2>3, OneDir
  <2>5. /\ [dir[u] EXCEPT !.meta = schema[c]].there = dir[u].there
        /\ [dir[u] EXCEPT !.meta = schema[c]].meta = schema[c]
    <3>1. dir[u] \in DirType
      BY <1>0, <2>2
    <3>2. QED
      BY <3>1 DEF DirType
  <2>6. QED
    BY <1>s, <2>1, <2>2, <2>4, <2>5
<1>3. ASSUME NEW c \in Definer, CreateMetaFails(c)
      PROVE  Shrinks(t) \/ (subject[c] = {t} /\ dir'[t] = NoDir)
  <2>1. PICK u \in subject[c] : dir' = [dir EXCEPT ![u] = NoDir]
    BY <1>3 DEF CreateMetaFails
  <2>2. subject[c] = {u} /\ u \in Table
    BY <1>m, <1>3, <2>1 DEF CreateMetaFails
  <2>3. QED
    BY <1>0, <1>s, <2>1, <2>2, OneDir
<1>r. ASSUME NEW c \in Definer, CreateCleanUpFails(c) PROVE Shrinks(t)
  <2>1. PICK u \in subject[c] : \E left \in SUBSET dir[u].raw :
           dir' = [dir EXCEPT ![u] = [dir[u] EXCEPT !.raw = left]]
    BY <1>r DEF CreateCleanUpFails
  <2>2. PICK left \in SUBSET dir[u].raw :
           dir' = [dir EXCEPT ![u] = [dir[u] EXCEPT !.raw = left]]
    BY <2>1
  <2>3. CASE t = u
    <3>1. dir'[t] = [dir[t] EXCEPT !.raw = left]
      BY <1>0, <2>2, <2>3
    <3>2. /\ dir'[t].there = dir[t].there /\ dir'[t].meta = dir[t].meta
          /\ dir'[t].parts = dir[t].parts /\ dir'[t].raw \subseteq dir[t].raw
      BY <1>a, <2>2, <2>3, <3>1 DEF DirType
    <3>3. ItemsOf(dir'[t]) \subseteq ItemsOf(dir[t])
      BY <3>2 DEF ItemsOf
    <3>4. QED
      BY <3>2, <3>3, ItemsAre DEF Shrinks
  <2>4. CASE t # u
    <3>1. u \in Table
      BY <1>0, <2>1
    <3>2. QED
      BY <1>0, <1>s, <2>2, <2>4, <3>1, OneDir
  <2>5. QED
    BY <2>3, <2>4
<1>4. ASSUME NEW c \in Definer, RemoveItem(c) PROVE Shrinks(t)
  <2>1. PICK u \in subject[c] : \E i \in Items(u) : dir' = [dir EXCEPT ![u] = Without(dir[u], i)]
    BY <1>4 DEF RemoveItem
  <2>2. PICK i \in Items(u) : dir' = [dir EXCEPT ![u] = Without(dir[u], i)]
    BY <2>1
  <2>3. u \in Table /\ PastRemoval(c, u)
    BY <1>0, <1>4 DEF RemoveItem, PastRemoval
  <2>4. CASE t = u
    <3>1. i \in ItemsOf(dir[t]) /\ dir'[t] = Without(dir[t], i)
      BY <1>0, <2>2, <2>4, ItemsAre
    <3>2. QED
      BY <1>a, <2>3, <2>4, <3>1, WithoutItem, ItemsAre DEF Shrinks
  <2>5. CASE t # u
    BY <1>0, <1>s, <2>2, <2>3, <2>5, OneDir
  <2>6. QED
    BY <2>4, <2>5
<1>5. ASSUME NEW c \in Definer, RemoveDir(c)
      PROVE  Shrinks(t) \/ (PastRemoval(c, t) /\ dir'[t] = NoDir)
  <2>1. PICK u \in subject[c] : /\ pc[c] \in {"rm", "rm all"}
                                /\ dir' = dir \/ dir' = [dir EXCEPT ![u] = NoDir]
    BY <1>5 DEF RemoveDir, Emptied
  <2>2. PastRemoval(c, u) /\ u \in Table
    BY <1>0, <2>1 DEF PastRemoval
  <2>3. QED
    BY <1>0, <1>s, <2>1, <2>2, OneDir
<1>6. ASSUME NEW u \in Table, NEW w, SaveRaw(w, u)
      PROVE  IF t = u THEN dir'[t].there /\ dir'[t].meta = dir[t].meta ELSE dir'[t] = dir[t]
  BY <1>0, <1>6 DEF SaveRaw, DirType
<1>7. ASSUME NEW c \in Inserter, InsertWrite(c)
      PROVE  Shrinks(t) \/ (subject[c] = {t} /\ entry[t] # 0 /\ Grows(t))
  <2>1. PICK u \in subject[c] : SaveRaw(c, u)
    BY <1>7 DEF InsertWrite
  <2>2. subject[c] = {u} /\ entry[u] # 0 /\ u \in Table
    BY <1>7, InserterHolds
  <2>3. QED
    BY <1>s, <1>6, <2>1, <2>2 DEF Grows
<1>8. ASSUME NEW c \in Inserter, InsertRename(c)
      PROVE  Shrinks(t) \/ (subject[c] = {t} /\ entry[t] # 0 /\ Grows(t))
  <2>1. PICK u \in subject[c] :
           dir' = IF c \in dir[u].raw
                  THEN [dir EXCEPT ![u] = [dir[u] EXCEPT !.raw = dir[u].raw \ {c},
                                                         !.parts = dir[u].parts \cup {schema[c]}]]
                  ELSE dir
    BY <1>8 DEF InsertRename
  <2>2. subject[c] = {u} /\ entry[u] # 0 /\ u \in Table
    BY <1>8, InserterHolds
  <2>3. CASE t = u /\ c \in dir[u].raw
    <3>1. dir'[t] = [dir[t] EXCEPT !.raw = dir[t].raw \ {c}, !.parts = dir[t].parts \cup {schema[c]}]
      BY <1>0, <2>1, <2>3
    <3>2. dir'[t].meta = dir[t].meta /\ dir'[t].there = dir[t].there
      BY <1>a, <3>1, DirFields
    <3>3. <<"raw", c>> \in Items(t)
      BY <2>3 DEF Items
    <3>4. dir[t].there
      BY <3>3 DEF BareInv
    <3>5. QED
      BY <2>2, <2>3, <3>2, <3>4 DEF Grows
  <2>4. CASE ~(t = u /\ c \in dir[u].raw)
    BY <1>0, <1>s, <2>1, <2>2, <2>4, OneDir
  <2>5. QED
    BY <2>3, <2>4
<1>9. ASSUME MergeSave
      PROVE  Shrinks(t) \/ (t \in mtable /\ dir'[t].there /\ dir'[t].meta = dir[t].meta)
  <2>1. PICK u \in mtable : SaveRaw(Merger, u)
    BY <1>9 DEF MergeSave
  <2>2. QED
    BY <1>0, <1>s, <1>6, <2>1
<1>10. ASSUME MergeMove PROVE Shrinks(t)
  <2>1. PICK u \in mtable :
           dir' = dir \/ dir' = [dir EXCEPT ![u] = [dir[u] EXCEPT !.raw = dir[u].raw \ {Merger}]]
    BY <1>10 DEF MergeMove
  <2>2. CASE t = u /\ dir' # dir
    <3>1. dir'[t] = [dir[t] EXCEPT !.raw = dir[t].raw \ {Merger}]
      BY <1>0, <2>1, <2>2
    <3>2. /\ dir'[t].there = dir[t].there /\ dir'[t].meta = dir[t].meta
          /\ dir'[t].parts = dir[t].parts /\ dir'[t].raw \subseteq dir[t].raw
      BY <1>a, <3>1 DEF DirType
    <3>3. ItemsOf(dir'[t]) \subseteq ItemsOf(dir[t])
      BY <3>2 DEF ItemsOf
    <3>4. QED
      BY <3>2, <3>3, ItemsAre DEF Shrinks
  <2>3. CASE ~(t = u /\ dir' # dir)
    BY <1>0, <1>s, <2>1, <2>3, OneDir
  <2>4. QED
    BY <2>2, <2>3
<1>11. ASSUME NEW c \in Definer,
              \/ CreateDatabase(c) \/ CreateIssue(c) \/ CreateEntry(c) \/ CreatePublish(c)
              \/ DropTableIssue(c) \/ DropCheck(c) \/ DropRemove(c) \/ DropDatabaseIssue(c)
              \/ Retain(c) \/ Open(c) \/ RemoveDatabase(c) \/ RemovalFails(c)
       PROVE  UNCHANGED dir
  BY <1>11 DEF CreateDatabase, CreateIssue, CreateEntry, CreatePublish, DropTableIssue,
     DropCheck, DropRemove, DropDatabaseIssue, Retain, Open, RemoveDatabase, RemovalFails
<1>12. ASSUME (\E c \in Inserter : InsertPlan(c) \/ InsertLock(c)) \/ MergeFind
       PROVE  UNCHANGED dir
  BY <1>12 DEF InsertPlan, InsertLock, MergeFind
<1>13. ASSUME NEW c \in Definer, Create(c) \/ Drop(c)
       PROVE  \/ Shrinks(t)
              \/ CreateMetaFails(c) /\ subject[c] = {t} /\ dir'[t] = NoDir
              \/ RemoveDir(c) /\ PastRemoval(c, t) /\ dir'[t] = NoDir
              \/ /\ CreateDir(c) /\ Acts(c) /\ subject[c] = {t}
                 /\ pc'[c] = "create meta" /\ dir'[t] = EmptyDir
                 /\ overlapped' = overlapped \cup BeingRemoved({t})
              \/ /\ CreateMeta(c) /\ subject[c] = {t}
                 /\ dir[t].there /\ dir'[t].there /\ dir'[t].meta = schema[c]
  BY <1>s, <1>1, <1>2, <1>3, <1>r, <1>4, <1>5, <1>11, <1>13 DEF Create, Drop
<1>14. ASSUME NEW c \in Inserter, Insert(c)
       PROVE  Shrinks(t) \/ (subject[c] = {t} /\ entry[t] # 0 /\ Grows(t))
  BY <1>s, <1>7, <1>8, <1>12, <1>14 DEF Insert
<1>15. ASSUME Merge
       PROVE  Shrinks(t) \/ (MergeSave /\ t \in mtable /\ dir'[t].there
                             /\ dir'[t].meta = dir[t].meta)
  BY <1>s, <1>9, <1>10, <1>12, <1>15 DEF Merge
<1>16. QED
  BY <1>13, <1>14, <1>15 DEF Next

-----------------------------------------------------------------------------
LEMMA MetaNext ==
    ASSUME CInv, DiskInv, Next, ~Crash, ~Start
    PROVE  MetaInv'
<1>0. /\ MetaInv /\ PassInv /\ BareInv /\ HoldInv /\ TypeOK /\ overlapped \subseteq overlapped'
      /\ Definer \cap Inserter = {} /\ Definer \subseteq Client
  BY CatalogAssumption, OverlapsGrow DEF CInv, DiskInv, Client
<1>h. ASSUME NEW d \in Definer, pc[d] \in Making, NEW t \in subject[d]
      PROVE  subject[d] = {t} /\ lock[t] = d /\ entry[t] = 0
  <2>1. PICK u \in Table : subject[d] = {u} /\ lock[u] = d /\ entry[u] = 0
    BY <1>0, <1>h DEF HoldInv
  <2>2. QED
    BY <1>h, <2>1
<1>p. ASSUME NEW t \in Table \ overlapped, entry[t] # 0 \/ Creating(t), NEW c \in Definer
      PROVE  ~PastRemoval(c, t)
  <2>1. PastRemoval(c, t) => t \in subject[c]
    BY DEF PastRemoval
  <2>2. QED
    BY <1>0, <1>p, <2>1 DEF PassInv
<1>k. ASSUME NEW t \in Table \ overlapped, entry[t] # 0 \/ Creating(t),
             \A d \in Definer :
                 (CreateMeta(d) \/ CreateMetaFails(d) \/ (CreateDir(d) /\ Acts(d)))
                     => t \notin subject[d]
      PROVE  dir'[t].meta = dir[t].meta
  <2>1. \A c \in Definer : ~PastRemoval(c, t)
    BY <1>k, <1>p
  <2>2. ASSUME NEW d \in Definer, subject[d] = {t} PROVE t \in subject[d]
    BY <2>2
  <2>3. \/ Shrinks(t) \/ Grows(t)
        \/ dir'[t].meta = dir[t].meta
    BY <1>0, <1>k, <2>1, <2>2, DirChanges
  <2>4. QED
    BY <2>1, <2>3 DEF Shrinks, Grows
<1>1. ASSUME NEW t \in Table \ overlapped', entry'[t] # 0
      PROVE  dir'[t].meta = entry'[t]
  <2>1. CASE entry'[t] = entry[t]
    <3>1. ASSUME NEW d \in Definer, CreateMeta(d) \/ CreateMetaFails(d) \/ CreateDir(d)
          PROVE  t \notin subject[d]
      <4>1. pc[d] \in Making
        BY <3>1 DEF CreateMeta, CreateMetaFails, CreateCleanUpFails, CreateDir, Making
      <4>2. QED
        BY <1>1, <1>h, <2>1, <4>1
    <3>2. dir'[t].meta = dir[t].meta
      BY <1>0, <1>1, <1>k, <2>1, <3>1
    <3>3. QED
      BY <1>0, <1>1, <2>1, <3>2 DEF MetaInv
  <2>2. CASE \E c \in Definer : CreatePublish(c) /\ subject[c] = {t}
    <3>1. PICK c \in Definer : CreatePublish(c) /\ subject[c] = {t}
      BY <2>2
    <3>2. pc[c] = "create publish" /\ dir' = dir /\ entry'[t] = schema[c]
      BY <3>1 DEF CreatePublish
    <3>3. QED
      BY <1>0, <1>1, <3>1, <3>2 DEF MetaInv
  <2>3. QED
    BY <1>1, <2>1, <2>2, EntrySteps
<1>2. ASSUME NEW c \in Definer, pc'[c] = "create publish", NEW t \in subject'[c] \ overlapped'
      PROVE  dir'[t].meta = schema'[c]
  <2>1. /\ t \in Table /\ subject[c] = {t} /\ lock[t] = c /\ schema'[c] = schema[c]
        /\ (~Acts(c) /\ pc[c] = "create publish") \/ (CreateMeta(c) /\ pc[c] = "create meta")
    BY <1>2, CreatorSteps, ZenonT(40)
  <2>2. CASE CreateMeta(c)
    <3>1. PICK u \in subject[c] : dir' = [dir EXCEPT ![u].meta = schema[c]]
      BY <2>2 DEF CreateMeta
    <3>2. dir[t] \in DirType /\ dir'[t] = [dir[t] EXCEPT !.meta = schema[c]]
      BY <1>0, <2>1, <3>1 DEF TypeOK, DirType
    <3>3. QED
      BY <2>1, <3>2 DEF DirType
  <2>3. CASE ~Acts(c) /\ pc[c] = "create publish"
    <3>1. Creating(t)
      BY <2>1, <2>3 DEF Creating
    <3>2. ASSUME NEW d \in Definer, CreateMeta(d) \/ CreateMetaFails(d) \/ CreateDir(d)
          PROVE  t \notin subject[d]
      <4>1. pc[d] \in Making /\ Acts(d)
        BY <3>2 DEF CreateMeta, CreateMetaFails, CreateCleanUpFails, CreateDir, Making, Acts, Create
      <4>2. QED
        BY <1>h, <2>1, <2>3, <4>1
    <3>3. dir'[t].meta = dir[t].meta
      BY <1>0, <1>2, <1>k, <2>1, <3>1, <3>2
    <3>4. dir[t].meta = schema[c]
      BY <1>0, <1>2, <2>1, <2>3 DEF MetaInv
    <3>5. QED
      BY <2>1, <3>3, <3>4
  <2>4. QED
    BY <2>1, <2>2, <2>3
<1>3. QED
  BY <1>1, <1>2 DEF MetaInv

(* A DROP is past its removal of t with the tables it had before. *)
LEMMA PastStays ==
    ASSUME CInv, Next, ~Crash, ~Start, NEW t \in Table, NEW c \in Definer, PastRemoval(c, t)'
    PROVE  \/ PastRemoval(c, t) /\ subject'[c] = subject[c]
           \/ entry'[t] = 0 /\ lock[t] = NoOne
<1>1. t \in subject'[c] /\ c \in Client
  BY DEF PastRemoval, Client
<1>2. PastRemoval(c, t) => pc[c] # "idle"
  BY DEF PastRemoval
<1>3. QED
  BY <1>1, <1>2, PastSteps, SubjectStays

LEMMA PassNext ==
    ASSUME CInv, DiskInv, Next, ~Crash, ~Start
    PROVE  PassInv'
<1>0. PassInv /\ overlapped \subseteq overlapped' /\ NoOne \notin Client /\ Definer \subseteq Client
  BY CatalogAssumption, OverlapsGrow DEF DiskInv, Client
<1> SUFFICES ASSUME NEW t \in Table, NEW c \in Definer, PastRemoval(c, t)',
                    entry'[t] # 0 \/ Creating(t)'
             PROVE  t \in overlapped'
  BY DEF PassInv
<1>1. CASE Creating(t)'
  <2>1. PICK d \in Definer : pc'[d] \in {"create meta", "create publish"} /\ t \in subject'[d]
    BY <1>1 DEF Creating
  <2>2. /\ subject[d] = {t} /\ lock[t] = d
        /\ \/ pc[d] \in {"create meta", "create publish"}
           \/ overlapped' = overlapped \cup BeingRemoved({t})
    <3>1. d \in Definer /\ t \in subject'[d] /\ pc'[d] \in {"create meta", "create publish"}
      BY <2>1
    <3>2. /\ subject[d] = {t} /\ lock[t] = d
          /\ \/ ~Acts(d) /\ pc[d] = pc'[d]
             \/ CreateMeta(d) /\ pc[d] = "create meta" /\ pc'[d] = "create publish"
             \/ overlapped' = overlapped \cup BeingRemoved({t})
      BY <3>1, CreatorSteps, ZenonT(40)
    <3>3. QED
      BY <3>1, <3>2
  <2>3. PastRemoval(c, t) /\ subject'[c] = subject[c]
    BY <1>0, <2>2, PastStays
  <2>4. CASE pc[d] \in {"create meta", "create publish"}
    <3>1. Creating(t)
      BY <2>2, <2>4 DEF Creating
    <3>2. QED
      BY <1>0, <2>3, <3>1 DEF PassInv
  <2>5. CASE overlapped' = overlapped \cup BeingRemoved({t})
    BY <1>0, <2>3, <2>5 DEF BeingRemoved
  <2>6. QED
    BY <2>2, <2>4, <2>5
<1>2. CASE entry'[t] # 0
  <2>1. PastRemoval(c, t) /\ subject'[c] = subject[c]
    BY <1>2, PastStays
  <2>2. entry[t] # 0 \/ Creating(t)
    <3>1. ASSUME NEW d \in Definer, CreatePublish(d), subject[d] = {t} PROVE Creating(t)
      BY <3>1 DEF CreatePublish, Creating
    <3>2. QED
      BY <1>2, <3>1, EntrySteps
  <2>3. QED
    BY <1>0, <2>1, <2>2 DEF PassInv
<1>3. QED
  BY <1>1, <1>2

(* What the walk of a DROP does when it does not end it. *)
LEMMA WalkSteps ==
    ASSUME CInv, Next, ~Crash, ~Start, NEW c \in Definer, Acts(c),
           pc'[c] \in {"rm", "rm all"}
    PROVE  /\ subject'[c] = subject[c]
           /\ \/ Open(c) /\ listed'[c] = Listing(subject[c]) /\ dir' = dir
              \/ /\ RemoveItem(c) /\ pc[c] = pc'[c]
                 /\ \E u \in subject[c] : \E i \in Items(u) :
                       /\ dir' = [dir EXCEPT ![u] = Without(dir[u], i)]
                       /\ listed'[c] = listed[c] \ {<<u, i>>}
              \/ /\ RemoveDir(c) /\ pc[c] = pc'[c] /\ pc[c] = "rm all"
                 /\ \E u \in subject[c] :
                       /\ dir' = [dir EXCEPT ![u] = NoDir]
                       /\ listed'[c] = {e \in listed[c] : e[1] # u}
<1>0. TypeOK /\ listed = [d \in Client |-> listed[d]] /\ c \in Client /\ c \notin Inserter
  BY CatalogAssumption DEF CInv, ListedOK, Client
<1>1. ~Answer(c)
  BY <1>0, AnswerApart
<1>2. CASE Create(c)
  <2>1. CASE CreateDatabase(c)
    BY <2>1 DEF CreateDatabase, commands
  <2>2. CASE CreateIssue(c)
    BY <1>0, <2>2 DEF CreateIssue, Issue, Goto, TypeOK
  <2>3. CASE CreateEntry(c)
    BY <1>0, <1>1, <2>3 DEF CreateEntry, Goto, TypeOK
  <2>4. CASE CreateDir(c)
    BY <1>0, <1>1, <2>4 DEF CreateDir, Goto, TypeOK
  <2>5. CASE CreateMeta(c)
    BY <1>0, <2>5 DEF CreateMeta, Goto, TypeOK
  <2>6. CASE CreateMetaFails(c) \/ CreateCleanUpFails(c) \/ CreatePublish(c)
    BY <1>1, <2>6 DEF CreateMetaFails, CreateCleanUpFails, CreatePublish
  <2>7. QED
    BY <1>2, <2>1, <2>2, <2>3, <2>4, <2>5, <2>6 DEF Create
<1>3. CASE Drop(c)
  <2>1. CASE DropTableIssue(c) \/ DropDatabaseIssue(c)
    BY <1>0, <2>1 DEF DropTableIssue, DropDatabaseIssue, Issue, Goto, TypeOK
  <2>2. CASE DropCheck(c)
    BY <1>0, <1>1, <2>2 DEF DropCheck, Goto, TypeOK
  <2>3. CASE DropRemove(c)
    BY <1>0, <2>3 DEF DropRemove, Goto, TypeOK
  <2>4. CASE Retain(c)
    BY <1>0, <2>4 DEF Retain, Goto, TypeOK
  <2>5. CASE Open(c)
    BY <1>0, <1>1, <2>5 DEF Open
  <2>6. CASE RemoveItem(c)
    <3>1. PICK u \in subject[c] : \E i \in Items(u) :
             /\ dir' = [dir EXCEPT ![u] = Without(dir[u], i)]
             /\ listed' = [listed EXCEPT ![c] = listed[c] \ {<<u, i>>}]
      BY <2>6 DEF RemoveItem
    <3>2. UNCHANGED <<pc, subject>>
      BY <2>6 DEF RemoveItem
    <3>3. QED
      BY <1>0, <2>6, <3>1, <3>2
  <2>7. CASE RemoveDir(c)
    <3>1. PICK u \in subject[c] :
             /\ dir' = [dir EXCEPT ![u] = NoDir] /\ pc[c] # "rm"
             /\ listed' = [listed EXCEPT ![c] = {e \in listed[c] : e[1] # u}]
             /\ UNCHANGED <<pc, subject>>
      BY <1>1, <2>7 DEF RemoveDir
    <3>2. QED
      BY <1>0, <2>7, <3>1
  <2>8. CASE RemoveDatabase(c) \/ RemovalFails(c)
    BY <1>1, <2>8 DEF RemoveDatabase, RemovalFails
  <2>9. QED
    BY <1>3, <2>1, <2>2, <2>3, <2>4, <2>5, <2>6, <2>7, <2>8 DEF Drop
<1>4. QED
  BY <1>0, <1>2, <1>3 DEF Acts

LEMMA WalkNext ==
    ASSUME CInv, DiskInv, Next, ~Crash, ~Start
    PROVE  WalkInv'
<1>0. /\ WalkInv /\ PassInv /\ BareInv /\ TypeOK /\ overlapped \subseteq overlapped'
      /\ \A d \in Definer : d \in Client /\ subject[d] \subseteq Table
      /\ dir \in [Table -> DirType]
  BY OverlapsGrow DEF CInv, DiskInv, TypeOK, DirType, Client
<1> SUFFICES ASSUME NEW c \in Definer, pc'[c] \in {"rm", "rm all"},
                    NEW t \in subject'[c] \ overlapped', dir'[t].there
             PROVE  Covered(c, t)'
  BY DEF WalkInv
<1>c. ASSUME pc[c] \in {"rm", "rm all"}, NEW u \in subject[c] \ overlapped, dir[u].there
      PROVE  \A i \in Items(u) \cup {DirEntry} : <<u, i>> \in listed[c]
  BY <1>0, <1>c DEF WalkInv, Covered
<1>1. CASE ~Acts(c)
  <2>1. /\ pc[c] = pc'[c] /\ subject'[c] = subject[c] /\ listed'[c] = listed[c]
        /\ t \in Table /\ PastRemoval(c, t)
    BY <1>0, <1>1, Still DEF PastRemoval
  <2>2. entry[t] = 0 /\ ~Creating(t)
    BY <1>0, <2>1 DEF PassInv
  <2>3. ~MergeSave \/ t \notin mtable
    BY <2>2 DEF MergeSave
  <2>4. ASSUME NEW d \in Definer, CreateMeta(d), subject[d] = {t} PROVE FALSE
    BY <2>2, <2>4 DEF CreateMeta, Creating
  <2>5. overlapped' # overlapped \cup BeingRemoved({t})
    BY <1>0, <2>1 DEF BeingRemoved
  <2>6. Shrinks(t)
    BY <1>0, <2>1, <2>2, <2>3, <2>4, <2>5, DirChanges, NoItems
  <2>7. dir[t].there /\ Items(t)' \subseteq Items(t)
    BY <2>6 DEF Shrinks
  <2>8. QED
    BY <1>0, <1>c, <2>1, <2>7 DEF Covered
<1>2. CASE Acts(c)
  <2>1. subject'[c] = subject[c]
    BY <1>2, WalkSteps
  <2>2. CASE Open(c) /\ listed'[c] = Listing(subject[c]) /\ dir' = dir
    <3>1. Items(t)' = Items(t) /\ dir[t].there
      BY <1>0, <2>1, <2>2, ItemsAre
    <3>2. \A i \in Items(t) \cup {DirEntry} : <<t, i>> \in Listing(subject[c])
      <4>1. t \in {u \in subject[c] : dir[u].there}
        BY <2>1, <3>1
      <4>2. {<<t, i>> : i \in Items(t) \cup {DirEntry}} \in
              {{<<v, i>> : i \in Items(v) \cup {DirEntry}} : v \in {u \in subject[c] : dir[u].there}}
        BY <4>1
      <4>3. QED
        BY <4>2 DEF Listing
    <3>3. QED
      BY <2>2, <3>1, <3>2 DEF Covered
  <2>3. CASE RemoveItem(c) /\ pc[c] = pc'[c]
             /\ \E u \in subject[c] : \E i \in Items(u) :
                   /\ dir' = [dir EXCEPT ![u] = Without(dir[u], i)]
                   /\ listed'[c] = listed[c] \ {<<u, i>>}
    <3>1. PICK u \in subject[c] : \E i \in Items(u) :
                   /\ dir' = [dir EXCEPT ![u] = Without(dir[u], i)]
                   /\ listed'[c] = listed[c] \ {<<u, i>>}
      BY <2>3
    <3>2. PICK i \in Items(u) : /\ dir' = [dir EXCEPT ![u] = Without(dir[u], i)]
                                /\ listed'[c] = listed[c] \ {<<u, i>>}
      BY <3>1
    <3>3. t \in Table /\ u \in Table
      BY <1>0, <2>1
    <3>4. CASE t = u
      <4>1. i \in ItemsOf(dir[t]) /\ dir'[t] = Without(dir[t], i) /\ dir[t] \in DirType
        BY <1>0, <3>2, <3>3, <3>4, ItemsAre
      <4>2. dir[t].there /\ Items(t)' \subseteq Items(t) \ {i}
        <5>1. /\ Without(dir[t], i).there = dir[t].there
              /\ ItemsOf(Without(dir[t], i)) \subseteq ItemsOf(dir[t]) \ {i}
          BY <4>1, WithoutItem
        <5>2. dir[t].there
          BY <4>1, <5>1
        <5>3. Items(t)' = ItemsOf(Without(dir[t], i)) /\ Items(t) = ItemsOf(dir[t])
          BY <3>3, <4>1, ItemsAre
        <5>4. QED
          BY <5>1, <5>2, <5>3
      <4>3. i # DirEntry
        BY <4>1, ItemKinds
      <4>4. QED
        BY <1>0, <1>c, <2>1, <2>3, <3>2, <3>4, <4>2, <4>3 DEF Covered
    <3>5. CASE t # u
      <4>1. dir'[t] = dir[t] /\ Items(t)' = Items(t)
        BY <1>0, <3>2, <3>3, <3>5, OneDir, ItemsAre
      <4>2. QED
        BY <1>0, <1>c, <2>1, <2>3, <3>2, <3>5, <4>1 DEF Covered
    <3>6. QED
      BY <3>4, <3>5
  <2>4. CASE RemoveDir(c) /\ pc[c] = pc'[c]
             /\ \E u \in subject[c] : /\ dir' = [dir EXCEPT ![u] = NoDir]
                                      /\ listed'[c] = {e \in listed[c] : e[1] # u}
    <3>1. PICK u \in subject[c] : /\ dir' = [dir EXCEPT ![u] = NoDir]
                                  /\ listed'[c] = {e \in listed[c] : e[1] # u}
      BY <2>4
    <3>2. t \in Table /\ u \in Table
      BY <1>0, <2>1
    <3>3. t # u /\ dir'[t] = dir[t] /\ Items(t)' = Items(t)
      BY <1>0, <3>1, <3>2, OneDir, NoItems, ItemsAre
    <3>4. QED
      BY <1>0, <1>c, <2>1, <2>4, <3>1, <3>3 DEF Covered
  <2>5. QED
    BY <1>2, <2>2, <2>3, <2>4, WalkSteps
<1>3. QED
  BY <1>1, <1>2

(* What ends a DROP that is past its removal of t. *)
LEMMA DropEnds ==
    ASSUME CInv, DiskInv, Next, ~Crash, ~Start, NEW t \in Table \ overlapped', dir'[t].there,
           entry'[t] = 0, NEW c \in Definer, PastRemoval(c, t)
    PROVE  PastRemoval(c, t)' \/ t \in leftover'
<1>0. /\ TypeOK /\ WalkInv /\ PassInv /\ BareInv /\ overlapped \subseteq overlapped' /\ c \in Client
      /\ c \notin Inserter /\ subject[c] \subseteq Table /\ dir \in [Table -> DirType]
      /\ ListedOK
  BY OverlapsGrow, CatalogAssumption DEF CInv, DiskInv, TypeOK, DirType, Client
<1>1. /\ t \in subject[c] /\ t \notin overlapped
      /\ \/ pc[c] \in {"open", "open all", "rm", "rm all"}
         \/ pc[c] = "retain" /\ t \notin shards[c]
  BY <1>0 DEF PastRemoval
<1>t. pc[c] \in {"open", "rm"} => subject[c] = {t}
  <2>1. pc[c] \in {"open", "rm"} => \E u \in Table : subject[c] = {u}
    BY <1>0 DEF CInv, OneTable
  <2>2. QED
    BY <1>1, <2>1
<1>2. CASE ~Acts(c)
  BY <1>0, <1>1, <1>2, Still DEF PastRemoval
<1>3. CASE Create(c)
  <2>1. CASE CreateDatabase(c)
    BY <1>1, <2>1 DEF CreateDatabase
  <2>2. QED
    BY <1>1, <1>3, <2>1 DEF Create, CreateIssue, CreateEntry, CreateDir, CreateMeta, CreateMetaFails, CreateCleanUpFails,
       CreatePublish, Issue
<1>4. CASE DropTableIssue(c) \/ DropDatabaseIssue(c) \/ DropCheck(c) \/ DropRemove(c)
  BY <1>1, <1>4 DEF DropTableIssue, DropDatabaseIssue, DropCheck, DropRemove, Issue
<1>5. CASE Retain(c)
  <2>1. PICK u \in shards[c] :
           /\ shards' = [shards EXCEPT ![c] = shards[c] \ {u}]
           /\ IF shards[c] = {u} THEN Goto(c, "open all") ELSE UNCHANGED pc
    BY <1>5 DEF Retain
  <2>2. pc[c] = "retain" /\ subject' = subject
    BY <1>5 DEF Retain
  <2>3. pc'[c] \in {"retain", "open all"} /\ t \notin shards'[c]
    BY <1>0, <1>1, <2>1, <2>2 DEF Goto, TypeOK
  <2>4. QED
    BY <1>1, <2>2, <2>3 DEF PastRemoval
<1>6. CASE Open(c)
  <2>1. dir' = dir /\ dir[t].there
    BY <1>6 DEF Open
  <2>2. Listing(subject[c]) # {}
    <3>1. t \in {u \in subject[c] : dir[u].there}
      BY <1>1, <2>1
    <3>2. {<<t, i>> : i \in Items(t) \cup {DirEntry}} \in
              {{<<v, i>> : i \in Items(v) \cup {DirEntry}} : v \in {u \in subject[c] : dir[u].there}}
      BY <3>1
    <3>3. <<t, DirEntry>> \in Listing(subject[c])
      BY <3>2 DEF Listing
    <3>4. QED
      BY <3>3
  <2>3. DatabaseOf[t] \in databases
    BY <1>0, <2>1 DEF BareInv
  <2>4. Goto(c, IF pc[c] = "open" THEN "rm" ELSE "rm all") /\ subject' = subject
    BY <1>1, <1>6, <2>2, <2>3 DEF Open
  <2>5. pc'[c] \in {"rm", "rm all"}
    BY <1>0, <2>4 DEF Goto, TypeOK
  <2>6. QED
    BY <1>1, <2>4, <2>5 DEF PastRemoval
<1>7. CASE RemoveItem(c)
  BY <1>1, <1>7 DEF RemoveItem, PastRemoval
<1>l. ASSUME LeavesBehind(c), dir' = dir PROVE t \in leftover'
  BY <1>1, <1>l DEF LeavesBehind
<1>8. CASE RemoveDir(c)
  <2>1. PICK u \in subject[c] :
          /\ Emptied(c, u)
          /\ IF Items(u) = {}
             THEN /\ dir' = [dir EXCEPT ![u] = NoDir]
                  /\ pc[c] # "rm" => UNCHANGED <<pc, subject>>
             ELSE LeavesBehind(c) /\ dir' = dir
    BY <1>8 DEF RemoveDir
  <2>2. pc[c] \in {"rm", "rm all"}
    BY <2>1 DEF Emptied
  <2>3. CASE Items(u) = {}
    <3>1. t # u
      BY <1>0, <2>1, <2>3, NoItems
    <3>2. pc[c] # "rm"
      BY <1>t, <3>1
    <3>3. UNCHANGED <<pc, subject>>
      BY <2>1, <2>3, <3>2
    <3>4. QED
      BY <1>1, <2>2, <3>3 DEF PastRemoval
  <2>4. QED
    BY <1>l, <2>1, <2>3
<1>9. CASE RemoveDatabase(c) \/ RemovalFails(c)
  BY <1>l, <1>9 DEF RemoveDatabase, RemovalFails
<1>10. QED
  BY <1>0, <1>2, <1>3, <1>4, <1>5, <1>6, <1>7, <1>8, <1>9 DEF Acts, Drop

(* An entry goes when a DROP gets past it. *)
LEMMA EntryGoes ==
    ASSUME CInv, WholeInv, Next, ~Crash, ~Start, NEW t \in Table, entry[t] # 0, entry'[t] = 0
    PROVE  \E c \in Definer : PastRemoval(c, t)'
<1>0. /\ TypeOK /\ Definer \subseteq Client
      /\ \A c \in Definer : subject[c] \subseteq Table /\ shards[c] \subseteq Table
  BY DEF CInv, TypeOK, Client
<1>1. ASSUME NEW c \in Definer, CreatePublish(c) PROVE FALSE
  <2>1. PICK u \in Table : subject[c] = {u} /\ entry[u] = 0
    BY <1>1 DEF CreatePublish, CInv, HoldInv, Making
  <2>2. u # t => entry'[t] = entry[t]
    BY <1>0, <1>1, <2>1 DEF CreatePublish, TypeOK
  <2>3. QED
    BY <2>1, <2>2
<1>2. ASSUME NEW c \in Definer, DropRemove(c) PROVE PastRemoval(c, t)'
  <2>1. t \in subject[c] /\ subject' = subject /\ pc'[c] = "open"
    BY <1>0, <1>2 DEF DropRemove, Goto, TypeOK
  <2>2. QED
    BY <2>1 DEF PastRemoval
<1>3. ASSUME NEW c \in Definer, Retain(c) PROVE PastRemoval(c, t)'
  <2>1. PICK u \in shards[c] : /\ entry' = [entry EXCEPT ![u] = 0]
                               /\ shards' = [shards EXCEPT ![c] = shards[c] \ {u}]
                               /\ IF shards[c] = {u} THEN Goto(c, "open all") ELSE UNCHANGED pc
    BY <1>3 DEF Retain
  <2>2. pc[c] = "retain" /\ subject' = subject
    BY <1>3 DEF Retain
  <2>3. u = t
    BY <1>0, <2>1 DEF TypeOK
  <2>4. pc'[c] \in {"retain", "open all"} /\ t \notin shards'[c]
    BY <1>0, <2>1, <2>2, <2>3, ZenonT(40) DEF Goto, TypeOK
  <2>5. t \in subject[c]
    BY <2>1, <2>2, <2>3 DEF WholeInv
  <2>6. QED
    BY <2>2, <2>4, <2>5 DEF PastRemoval
<1>4. ASSUME NEW c \in Definer,
             \/ CreateDatabase(c) \/ CreateIssue(c) \/ CreateEntry(c) \/ CreateDir(c)
             \/ CreateMeta(c) \/ CreateMetaFails(c) \/ CreateCleanUpFails(c)
             \/ DropTableIssue(c) \/ DropCheck(c) \/ DropDatabaseIssue(c) \/ Open(c)
             \/ RemoveItem(c) \/ RemoveDir(c) \/ RemoveDatabase(c) \/ RemovalFails(c)
      PROVE  entry' = entry
  BY <1>4 DEF CreateDatabase, CreateIssue, CreateEntry, CreateDir, CreateMeta,
     CreateMetaFails, CreateCleanUpFails, DropTableIssue, DropCheck, DropDatabaseIssue, Open, RemoveItem,
     RemoveDir, RemoveDatabase, RemovalFails
<1>5. ASSUME NEW c \in Inserter, Insert(c) PROVE entry' = entry
  BY <1>5 DEF Insert, InsertPlan, InsertLock, InsertWrite, InsertRename
<1>6. ASSUME Merge PROVE entry' = entry
  BY <1>6 DEF Merge, MergeFind, MergeSave, MergeMove
<1>7. QED
  BY <1>1, <1>2, <1>3, <1>4, <1>5, <1>6 DEF Next, Create, Drop

(* Nothing leaves `leftover` while the process runs but what is removed,   *)
(* and nothing joins it but what a failing removal leaves.                 *)
LEMMA LeftoverSteps ==
    ASSUME Next, ~Crash, ~Start
    PROVE  \/ leftover' = leftover
           \/ \E c \in Definer :
                 /\ RemoveDir(c)
                 /\ \E t \in subject[c] : leftover' = leftover \ {t}
                                       /\ dir' = [dir EXCEPT ![t] = NoDir]
           \/ \E c \in Definer : LeavesBehind(c) /\ CreateCleanUpFails(c)
           \/ \E c \in Definer : /\ LeavesBehind(c) /\ Drop(c) /\ Answer(c) /\ dir' = dir
                                 /\ pc[c] \in {"open", "open all", "rm", "rm all"}
<1>1. ASSUME NEW c \in Definer, Create(c), ~CreateCleanUpFails(c) PROVE leftover' = leftover
  BY <1>1 DEF Create, CreateDatabase, CreateIssue, CreateEntry, CreateDir, CreateMeta,
     CreateMetaFails, CreatePublish, history
<1>2. ASSUME NEW c \in Definer, CreateCleanUpFails(c) PROVE LeavesBehind(c)
  BY <1>2 DEF CreateCleanUpFails
<1>3. ASSUME NEW c \in Definer, Drop(c), ~RemoveDir(c), ~RemoveDatabase(c), ~RemovalFails(c)
      PROVE  leftover' = leftover
  BY <1>3 DEF Drop, DropTableIssue, DropCheck, DropRemove, DropDatabaseIssue, Retain, Open,
     RemoveItem, history
<1>4. ASSUME NEW c \in Definer, RemoveDatabase(c) \/ RemovalFails(c)
      PROVE  /\ LeavesBehind(c) /\ Answer(c) /\ dir' = dir
             /\ pc[c] \in {"open", "open all", "rm", "rm all"}
  BY <1>4 DEF RemoveDatabase, RemovalFails
<1>5. ASSUME NEW c \in Definer, RemoveDir(c)
      PROVE  \/ \E t \in subject[c] : leftover' = leftover \ {t} /\ dir' = [dir EXCEPT ![t] = NoDir]
             \/ /\ LeavesBehind(c) /\ Answer(c) /\ dir' = dir
                /\ pc[c] \in {"open", "open all", "rm", "rm all"}
  BY <1>5 DEF RemoveDir, Emptied
<1>6. ASSUME NEW c \in Inserter, Insert(c) PROVE leftover' = leftover
  BY <1>6 DEF Insert, InsertPlan, InsertLock, InsertWrite, InsertRename, history
<1>7. ASSUME Merge PROVE leftover' = leftover
  BY <1>7 DEF Merge, MergeFind, MergeSave, MergeMove, history
<1>8. ASSUME NEW c \in Definer, RemoveDir(c) \/ RemoveDatabase(c) \/ RemovalFails(c) PROVE Drop(c)
  BY <1>8 DEF Drop
<1>9. QED
  BY <1>1, <1>2, <1>3, <1>4, <1>5, <1>6, <1>7, <1>8 DEF Next

LEMMA WorkNext ==
    ASSUME CInv, DiskInv, Next, ~Crash, ~Start
    PROVE  WorkInv'
<1>0. /\ TypeOK /\ WorkInv /\ HoldInv /\ BareInv /\ overlapped \subseteq overlapped'
      /\ Definer \subseteq Client /\ status = "up" /\ NoOne \notin Client
  <2>1. status = "up"
    BY CreateMoves, DropMoves, InsertMoves, MergeApart DEF Next
  <2>2. QED
    BY <2>1, OverlapsGrow, CatalogAssumption DEF CInv, DiskInv, Client
<1> SUFFICES ASSUME NEW t \in Table \ overlapped', dir'[t].there, entry'[t] = 0,
                    ~Creating(t)'
             PROVE  t \in leftover' \/ \E c \in Definer : PastRemoval(c, t)'
  BY DEF WorkInv
<1>1. CASE ~dir[t].there
  <2>1. ASSUME NEW c \in Definer, subject[c] = {t}, pc'[c] = "create meta", CreateDir(c),
               dir'[t] = EmptyDir
        PROVE  FALSE
    <3>1. ~Answer(c) /\ c \in Client
      BY <1>0, <2>1, AnswerApart
    <3>2. subject' = subject
      BY <2>1, <3>1 DEF CreateDir
    <3>3. QED
      BY <2>1, <3>2 DEF Creating
  <2>2. ASSUME entry[t] # 0 PROVE \E c \in Definer : PastRemoval(c, t)'
    BY <1>0, <1>1, <2>2 DEF CInv, DirInv, Sound
  <2>3. ASSUME entry[t] = 0, MergeSave, t \in mtable PROVE FALSE
    BY <2>3 DEF MergeSave
  <2>4. ~Shrinks(t) /\ dir'[t] # NoDir
    BY <1>1, NoItems DEF Shrinks
  <2>5. entry[t] # 0
    BY <1>0, <1>1, <2>1, <2>3, <2>4, DirChanges
  <2>6. QED
    BY <2>2, <2>5
<1>2. CASE dir[t].there /\ entry[t] = 0
  <2>1. CASE Creating(t)
    <3>1. PICK d \in Definer : pc[d] \in {"create meta", "create publish"} /\ t \in subject[d]
      BY <2>1 DEF Creating
    <3>2. d \in Client /\ subject[d] = {t} /\ lock[t] = d
      <4>1. \E u \in Table : subject[d] = {u} /\ lock[u] = d
        BY <1>0, <3>1 DEF HoldInv, Making
      <4>2. QED
        BY <1>0, <3>1, <4>1
    <3>3. CASE ~Acts(d)
      BY <3>1, <3>2, <3>3, Still DEF Creating
    <3>4. CASE Acts(d)
      <4>1. d \notin Inserter
        BY CatalogAssumption
      <4>2. CASE CreateMeta(d)
        <5>1. pc'[d] = "create publish" /\ subject' = subject
          BY <1>0, <3>2, <4>2 DEF CreateMeta, Goto, TypeOK
        <5>2. QED
          BY <3>1, <5>1 DEF Creating
      <4>3. CASE CreateMetaFails(d)
        <5>1. dir' = [dir EXCEPT ![t] = NoDir]
          BY <3>2, <4>3 DEF CreateMetaFails
        <5>2. QED
          BY <1>0, <5>1, NoItems DEF TypeOK
      <4>r. CASE CreateCleanUpFails(d)
        BY <1>2, <3>2, <4>r DEF CreateCleanUpFails, LeavesBehind
      <4>4. CASE CreatePublish(d)
        <5>1. entry'[t] = schema[d] /\ pc[d] = "create publish" /\ dir' = dir
          BY <3>2, <4>4 DEF CreatePublish
        <5>2. QED
          BY <5>1 DEF DiskInv, SchemaInv, Making
      <4>5. QED
        BY <3>1, <3>4, <4>1, <4>2, <4>3, <4>r, <4>4 DEF Acts, Create, CreateDatabase, CreateIssue, CreateEntry,
           CreateDir, Drop, DropTableIssue, DropCheck, DropRemove, DropDatabaseIssue, Retain, Open,
           RemoveItem, RemoveDir, Emptied, RemoveDatabase, RemovalFails, Issue
    <3>5. QED
      BY <3>3, <3>4
  <2>2. CASE \E c \in Definer : PastRemoval(c, t)
    BY <2>2, DropEnds
  <2>3. CASE t \in leftover
    <3>1. ASSUME t \notin leftover' PROVE FALSE
      <4>1. PICK u : leftover' = leftover \ {u} /\ dir' = [dir EXCEPT ![u] = NoDir]
        BY <2>3, <3>1, LeftoverSteps DEF LeavesBehind
      <4>2. u = t
        BY <2>3, <3>1, <4>1
      <4>3. QED
        BY <1>0, <4>1, <4>2, NoItems DEF TypeOK
    <3>2. QED
      BY <3>1
  <2>4. QED
    BY <1>0, <1>2, <2>1, <2>2, <2>3 DEF WorkInv
<1>3. CASE entry[t] # 0
  BY <1>3, EntryGoes DEF DiskInv
<1>4. QED
  BY <1>1, <1>2, <1>3

(* Nobody makes the table of a directory that is there. *)
LEMMA CreatingStays ==
    ASSUME CInv, Next, ~Crash, ~Start, NEW t \in Table, dir[t].there, Creating(t)'
    PROVE  Creating(t)
<1>1. PICK d \in Definer : pc'[d] \in {"create meta", "create publish"} /\ t \in subject'[d]
  BY DEF Creating
<1>2. /\ subject[d] = {t}
      /\ \/ ~Acts(d) /\ pc[d] = pc'[d]
         \/ CreateMeta(d) /\ pc[d] = "create meta" /\ pc'[d] = "create publish"
         \/ /\ CreateDir(d) /\ pc[d] = "create dir" /\ pc'[d] = "create meta"
            /\ ~dir[t].there /\ dir'[t].there
            /\ overlapped' = overlapped \cup BeingRemoved({t})
  BY <1>1, CreatorSteps, ZenonT(40)
<1>3. QED
  BY <1>1, <1>2 DEF Creating

LEMMA StayNext ==
    ASSUME CInv, DiskInv, Next, ~Crash, ~Start
    PROVE  StayInv'
<1>0. /\ TypeOK /\ HoldInv' /\ StayInv /\ PassInv /\ overlapped \subseteq overlapped'
      /\ NoOne \notin Client /\ Definer \subseteq Client /\ dir \in [Table -> DirType]
  BY CatalogAssumption, OverlapsGrow, HoldNext DEF CInv, DiskInv, TypeOK, DirType, Client
<1> SUFFICES ASSUME NEW t \in leftover' \ overlapped'
             PROVE  dir'[t].there /\ entry'[t] = 0 /\ ~Creating(t)'
  BY DEF StayInv
<1>t. t \in Table
  BY TypeNext DEF TypeOK
<1>1. CASE t \in leftover
  <2>1. dir[t].there /\ entry[t] = 0 /\ ~Creating(t)
    BY <1>0, <1>1 DEF StayInv
  <2>2. ~Creating(t)'
    BY <1>t, <2>1, CreatingStays
  <2>3. entry'[t] = 0
    <3>1. ASSUME NEW c \in Definer, CreatePublish(c), subject[c] = {t} PROVE FALSE
      BY <2>1, <3>1 DEF CreatePublish, Creating
    <3>2. QED
      BY <1>t, <2>1, <3>1, EntrySteps
  <2>4. dir'[t].there
    <3>1. ASSUME NEW c \in Definer, CreateMetaFails(c), subject[c] = {t} PROVE FALSE
      BY <2>1, <3>1 DEF CreateMetaFails, Creating
    <3>2. ASSUME NEW c \in Definer, RemoveDir(c), dir'[t] = NoDir PROVE FALSE
      <4>1. PICK u \in subject[c] : \/ dir' = dir
                                    \/ dir' = [dir EXCEPT ![u] = NoDir] /\ leftover' = leftover \ {u}
        BY <3>2 DEF RemoveDir
      <4>2. u = t /\ leftover' = leftover \ {u}
        BY <1>0, <1>t, <2>1, <3>2, <4>1, NoItems
      <4>3. QED
        BY <4>2
    <3>3. Shrinks(t) \/ Grows(t) => dir'[t].there
      BY <2>1 DEF Shrinks, Grows
    <3>4. QED
      BY <1>0, <1>t, <3>1, <3>2, <3>3, DirChanges, NoItems DEF DiskInv
  <2>5. QED
    BY <2>2, <2>3, <2>4
<1>2. CASE t \notin leftover
  <2>1. PICK c \in Definer : /\ LeavesBehind(c)
                             /\ \/ CreateCleanUpFails(c)
                                \/ /\ Drop(c) /\ Answer(c) /\ dir' = dir
                                   /\ pc[c] \in {"open", "open all", "rm", "rm all"}
    BY <1>2, LeftoverSteps
  <2>2. t \in subject[c] /\ dir[t].there
    BY <1>2, <2>1 DEF LeavesBehind
  <2>3. CASE CreateCleanUpFails(c)
    <3>1. subject[c] = {t} /\ lock[t] = c /\ entry[t] = 0
      <4>1. PICK u \in Table : subject[c] = {u} /\ lock[u] = c /\ entry[u] = 0
        BY <2>3 DEF CreateCleanUpFails, CInv, HoldInv, Making
      <4>2. QED
        BY <2>2, <4>1
    <3>2. entry'[t] = 0 /\ lock'[t] = NoOne
      BY <1>t, <2>3, <3>1 DEF CreateCleanUpFails, Answer
    <3>3. ~Creating(t)'
      <4>1. ASSUME NEW d \in Definer, pc'[d] \in {"create meta", "create publish"}, t \in subject'[d]
            PROVE  FALSE
        <5>1. \E u \in Table : subject'[d] = {u} /\ lock'[u] = d
          BY <1>0, <4>1 DEF HoldInv, Making
        <5>2. QED
          BY <1>0, <3>2, <4>1, <5>1
      <4>2. QED
        BY <4>1 DEF Creating
    <3>4. dir'[t].there
      <4>1. PICK v : dir' = [dir EXCEPT ![t] = [dir[t] EXCEPT !.raw = v]]
        BY <2>3, <3>1 DEF CreateCleanUpFails
      <4>2. QED
        BY <1>0, <1>t, <2>2, <4>1, DirFields, OneDir
    <3>5. QED
      BY <3>2, <3>3, <3>4
  <2>4. CASE /\ Drop(c) /\ Answer(c) /\ dir' = dir
             /\ pc[c] \in {"open", "open all", "rm", "rm all"}
    <3>1. PastRemoval(c, t) /\ t \notin overlapped
      BY <1>0, <2>2, <2>4 DEF PastRemoval
    <3>2. entry[t] = 0 /\ ~Creating(t)
      BY <1>0, <1>t, <3>1 DEF PassInv
    <3>3. ~Creating(t)'
      BY <1>t, <2>2, <3>2, CreatingStays
    <3>4. ASSUME NEW d \in Definer, CreatePublish(d), subject[d] = {t} PROVE FALSE
      BY <3>2, <3>4 DEF CreatePublish, Creating
    <3>5. entry'[t] = 0
      BY <1>t, <3>2, <3>4, EntrySteps
    <3>6. QED
      BY <2>2, <2>4, <3>3, <3>5
  <2>5. QED
    BY <2>1, <2>3, <2>4
<1>3. QED
  BY <1>1, <1>2

LEMMA BareNext ==
    ASSUME CInv, DiskInv, Next, ~Crash, ~Start
    PROVE  BareInv'
<1>0. /\ BareInv /\ WholeInv /\ WorkInv /\ TypeOK /\ dir \in [Table -> DirType]
      /\ \A c \in Definer \cup Inserter : subject[c] \subseteq Table /\ c \in Client
      /\ mtable \subseteq Table
      /\ \A c \in Definer : pc[c] = "create dir" => \E u \in Table : subject[c] = {u}
  BY DEF CInv, DiskInv, TypeOK, DirType, OneTable, Client
<1>1. ASSUME NEW t \in Table, Items(t)' # {} PROVE dir'[t].there
  <2>1. CASE Shrinks(t)
    BY <1>0, <1>1, <2>1 DEF Shrinks, BareInv
  <2>2. CASE Grows(t)
    BY <1>0, <1>1, <2>2 DEF Grows, BareInv
  <2>3. dir'[t] # NoDir
    BY <1>1, NoItems, ItemsAre
  <2>4. QED
    BY <1>0, <2>1, <2>2, <2>3, DirChanges, NoItems
<1>2. ASSUME NEW t \in Table, dir'[t].there PROVE DatabaseOf[t] \in databases'
  <2>1. ASSUME dir[t].there PROVE DatabaseOf[t] \in databases'
    <3>1. DatabaseOf[t] \in databases
      BY <1>0, <2>1 DEF BareInv
    <3>2. ASSUME NEW c \in Definer, RemoveDatabase(c) PROVE DatabaseOf[t] \in databases'
      <4>1. PICK d \in Database : subject[c] = TablesOf(d)
        BY <1>0, <3>2 DEF RemoveDatabase, WholeInv
      <4>2. CASE \E u \in subject[c] : dir[u].there
        BY <3>1, <3>2, <4>2 DEF RemoveDatabase
      <4>3. CASE ~ \E u \in subject[c] : dir[u].there
        <5>1. DatabaseOf[t] # d
          BY <2>1, <4>1, <4>3 DEF TablesOf
        <5>2. \A u \in subject[c] : DatabaseOf[u] = d
          BY <4>1 DEF TablesOf
        <5>3. databases' = databases \ {DatabaseOf[u] : u \in subject[c]}
          BY <3>2, <4>3 DEF RemoveDatabase
        <5>4. QED
          BY <3>1, <5>1, <5>2, <5>3
      <4>4. QED
        BY <4>2, <4>3
    <3>3. ASSUME NEW c \in Definer, Create(c) PROVE databases \subseteq databases'
      BY <3>3 DEF Create, CreateDatabase, CreateIssue, CreateEntry, CreateDir, CreateMeta,
         CreateMetaFails, CreateCleanUpFails, CreatePublish
    <3>4. ASSUME NEW c \in Definer, Drop(c), ~RemoveDatabase(c) PROVE databases \subseteq databases'
      BY <3>4 DEF Drop, DropTableIssue, DropCheck, DropRemove, DropDatabaseIssue, Retain, Open,
         RemoveItem, RemoveDir, RemovalFails
    <3>5. ASSUME NEW c \in Inserter, Insert(c) PROVE databases \subseteq databases'
      BY <3>5 DEF Insert, InsertPlan, InsertLock, InsertWrite, InsertRename, SaveRaw
    <3>6. ASSUME Merge PROVE databases \subseteq databases'
      BY <3>6 DEF Merge, MergeFind, MergeSave, MergeMove, SaveRaw
    <3>7. QED
      BY <3>1, <3>2, <3>3, <3>4, <3>5, <3>6 DEF Next
  <2>2. ASSUME ~dir[t].there PROVE DatabaseOf[t] \in databases'
    <3>1. ASSUME NEW c \in Definer, CreateDir(c) PROVE DatabaseOf[t] \in databases'
      <4>1. PICK u \in subject[c] : \/ dir' = dir
                                    \/ dir' = [dir EXCEPT ![u] = EmptyDir] /\ DatabaseOf[u] \in databases
        BY <3>1 DEF CreateDir
      <4>2. databases' = databases
        BY <3>1 DEF CreateDir
      <4>3. u = t /\ DatabaseOf[u] \in databases
        BY <1>0, <1>2, <2>2, <4>1, OneDir
      <4>4. QED
        BY <4>2, <4>3
    <3>2. ASSUME NEW w, NEW u \in Table, SaveRaw(w, u) PROVE DatabaseOf[t] \in databases'
      <4>1. dir'[t] = dir[t] \/ t = u
        BY <1>0, <3>2 DEF SaveRaw
      <4>2. QED
        BY <1>2, <2>2, <3>2, <4>1 DEF SaveRaw
    <3>3. ASSUME NEW c \in Inserter, InsertWrite(c) PROVE DatabaseOf[t] \in databases'
      BY <1>0, <3>2, <3>3 DEF InsertWrite
    <3>4. ASSUME MergeSave PROVE DatabaseOf[t] \in databases'
      BY <1>0, <3>2, <3>4 DEF MergeSave
    <3>5. ASSUME NEW c \in Inserter, InsertRename(c) PROVE dir'[t].there = dir[t].there
      <4>1. PICK u \in subject[c] :
               \/ dir' = dir
               \/ dir' = [dir EXCEPT ![u] = [dir[u] EXCEPT !.raw = @ \ {c}, !.parts = @ \cup {schema[c]}]]
        BY <3>5, ZenonT(40) DEF InsertRename
      <4>2. \E v, w : dir' = dir \/ dir' = [dir EXCEPT ![u] = [dir[u] EXCEPT !.raw = v, !.parts = w]]
        BY <4>1
      <4>3. PICK v, w : dir' = dir \/ dir' = [dir EXCEPT ![u] = [dir[u] EXCEPT !.raw = v, !.parts = w]]
        BY <4>2
      <4>4. u \in Table /\ dir[u] \in DirType
        BY <1>0
      <4>5. [dir[u] EXCEPT !.raw = v, !.parts = w].there = dir[u].there
        BY <4>4, DirFields
      <4>6. QED
        BY <1>0, <4>3, <4>4, <4>5, OneDir
    <3>6. ASSUME NEW c \in Inserter, InsertPlan(c) \/ InsertLock(c) PROVE dir' = dir
      BY <3>6 DEF InsertPlan, InsertLock
    <3>7. ASSUME NEW c \in Inserter, Insert(c) PROVE DatabaseOf[t] \in databases'
      BY <1>2, <2>2, <3>3, <3>5, <3>6, <3>7 DEF Insert
    <3>8. ASSUME ~MergeSave, \A c \in Inserter : ~Insert(c), \A c \in Definer : ~CreateDir(c)
          PROVE  FALSE
      BY <1>0, <1>2, <2>2, <3>8, DirChanges, NoItems DEF Shrinks
    <3>9. QED
      BY <3>1, <3>4, <3>7, <3>8
  <2>3. QED
    BY <2>1, <2>2
<1>3. QED
  BY <1>1, <1>2 DEF BareInv

LEMMA WholeNext ==
    ASSUME CInv, DiskInv, Next, ~Crash, ~Start
    PROVE  WholeInv'
<1>0. WholeInv /\ TypeOK /\ \A c \in Definer : c \in Client /\ c \notin Inserter
  BY CatalogAssumption DEF CInv, DiskInv, Client
<1> SUFFICES ASSUME NEW c \in Definer,
                    pc'[c] \in {"retain", "open all", "rm all"}
             PROVE  /\ \E d \in Database : subject'[c] = TablesOf(d)
                    /\ pc'[c] = "retain" => shards'[c] \subseteq subject'[c]
  BY DEF WholeInv, TablesOf
<1> DEFINE Was == /\ pc[c] \in {"retain", "open all", "rm all"} /\ subject'[c] = subject[c]
                  /\ pc'[c] = "retain" => pc[c] = "retain" /\ shards'[c] \subseteq shards[c]
<1>w. ASSUME Was
      PROVE  /\ \E d \in Database : subject'[c] = TablesOf(d)
             /\ pc'[c] = "retain" => shards'[c] \subseteq subject'[c]
  BY <1>0, <1>w DEF WholeInv
<1>1. CASE ~Acts(c)
  BY <1>0, <1>1, <1>w, Still
<1>2. ASSUME Create(c) PROVE FALSE
  <2>1. ~Answer(c)
    BY <1>0, AnswerApart
  <2>2. CASE CreateDatabase(c)
    BY <2>2 DEF CreateDatabase, commands
  <2>3. CASE CreateIssue(c)
    BY <1>0, <2>3 DEF CreateIssue, Issue, Goto, TypeOK
  <2>4. CASE CreateEntry(c)
    BY <1>0, <2>1, <2>4 DEF CreateEntry, Goto, TypeOK
  <2>5. CASE CreateDir(c)
    BY <1>0, <2>1, <2>5 DEF CreateDir, Goto, TypeOK
  <2>6. CASE CreateMeta(c)
    BY <1>0, <2>6 DEF CreateMeta, Goto, TypeOK
  <2>7. CASE CreateMetaFails(c) \/ CreateCleanUpFails(c) \/ CreatePublish(c)
    BY <2>1, <2>7 DEF CreateMetaFails, CreateCleanUpFails, CreatePublish
  <2>8. QED
    BY <1>2, <2>2, <2>3, <2>4, <2>5, <2>6, <2>7 DEF Create
<1>3. CASE DropDatabaseIssue(c)
  <2>1. PICK d \in Database : /\ subject' = [subject EXCEPT ![c] = TablesOf(d)]
                              /\ shards' = [shards EXCEPT ![c] = TablesOf(d)]
    BY <1>3 DEF DropDatabaseIssue, Issue
  <2>2. subject'[c] = TablesOf(d) /\ shards'[c] = TablesOf(d)
    BY <1>0, <2>1 DEF TypeOK
  <2>3. QED
    BY <2>2
<1>4. CASE Drop(c) /\ ~DropDatabaseIssue(c)
  <2>1. ~Answer(c)
    BY <1>0, AnswerApart
  <2>2. CASE DropTableIssue(c)
    BY <1>0, <2>2 DEF DropTableIssue, Issue, Goto, TypeOK
  <2>3. CASE DropCheck(c)
    BY <1>0, <2>1, <2>3 DEF DropCheck, Goto, TypeOK
  <2>4. CASE DropRemove(c)
    BY <1>0, <2>4 DEF DropRemove, Goto, TypeOK
  <2>5. CASE Retain(c)
    <3>1. /\ pc[c] = "retain" /\ subject' = subject
          /\ \E u \in shards[c] : shards' = [shards EXCEPT ![c] = shards[c] \ {u}]
      BY <2>5 DEF Retain
    <3>2. shards'[c] \subseteq shards[c]
      BY <1>0, <3>1 DEF TypeOK
    <3>3. QED
      BY <1>w, <3>1, <3>2
  <2>6. CASE Open(c)
    <3>1. /\ subject' = subject /\ pc[c] \in {"open", "open all"}
          /\ pc'[c] = IF pc[c] = "open" THEN "rm" ELSE "rm all"
      BY <1>0, <2>1, <2>6 DEF Open, Goto, TypeOK
    <3>2. QED
      BY <1>w, <3>1
  <2>7. CASE RemoveItem(c) \/ RemoveDir(c)
    <3>1. UNCHANGED <<pc, subject>> /\ pc[c] \in {"rm", "rm all"}
      BY <2>1, <2>7 DEF RemoveItem, RemoveDir, Emptied
    <3>2. QED
      BY <1>w, <3>1
  <2>8. CASE RemoveDatabase(c) \/ RemovalFails(c)
    BY <2>1, <2>8 DEF RemoveDatabase, RemovalFails
  <2>9. QED
    BY <1>4, <2>2, <2>3, <2>4, <2>5, <2>6, <2>7, <2>8 DEF Drop
<1>5. QED
  BY <1>0, <1>1, <1>2, <1>3, <1>4 DEF Acts

LEMMA Positive == \A m \in Nat : \A n \in 0..m : n + 1 # 0
OBVIOUS

LEMMA SchemaNext ==
    ASSUME CInv, DiskInv, Next, ~Crash, ~Start
    PROVE  SchemaInv'
<1>0. SchemaInv /\ TypeOK /\ \A c \in Definer : c \in Client /\ c \notin Inserter
  BY CatalogAssumption DEF CInv, DiskInv, Client
<1> SUFFICES ASSUME NEW c \in Definer, pc'[c] \in {"create entry"} \cup Making
             PROVE  schema'[c] # 0
  BY DEF SchemaInv
<1>1. CASE ~Acts(c)
  BY <1>0, <1>1, Still DEF SchemaInv
<1>2. CASE Create(c)
  <2>1. ~Answer(c)
    BY <1>0, AnswerApart DEF Making
  <2>2. CASE CreateDatabase(c)
    BY <2>2 DEF CreateDatabase, commands, Making
  <2>3. CASE CreateIssue(c)
    <3>1. schemas \in 0..MaxSchemas /\ MaxSchemas \in Nat
      BY <1>0, CatalogAssumption DEF TypeOK
    <3>2. schema' = [schema EXCEPT ![c] = schemas + 1]
      BY <2>3 DEF CreateIssue
    <3>3. schema'[c] = schemas + 1
      <4>1. schema \in [Client -> Schema \cup {0}] /\ c \in Client
        BY <1>0 DEF TypeOK
      <4>2. QED
        BY <3>2, <4>1
    <3>4. schemas + 1 # 0
      BY <3>1, Positive
    <3>5. QED
      BY <3>3, <3>4
  <2>4. CASE CreateEntry(c) \/ CreateDir(c) \/ CreateMeta(c)
    BY <1>0, <2>1, <2>4 DEF CreateEntry, CreateDir, CreateMeta, SchemaInv, Making
  <2>5. CASE CreateMetaFails(c) \/ CreateCleanUpFails(c) \/ CreatePublish(c)
    BY <2>1, <2>5 DEF CreateMetaFails, CreateCleanUpFails, CreatePublish
  <2>6. QED
    BY <1>2, <2>2, <2>3, <2>4, <2>5 DEF Create
<1>3. CASE Drop(c)
  <2>1. ~Answer(c) /\ pc'[c] = "create entry"
    BY <1>0, <1>3, AnswerApart, DropMoves DEF Making
  <2>2. CASE DropTableIssue(c) \/ DropDatabaseIssue(c)
    BY <1>0, <2>1, <2>2 DEF DropTableIssue, DropDatabaseIssue, Issue, Goto, TypeOK
  <2>3. CASE DropCheck(c) \/ DropRemove(c)
    BY <1>0, <2>1, <2>3 DEF DropCheck, DropRemove, Goto, TypeOK
  <2>4. CASE Retain(c) \/ Open(c)
    BY <1>0, <2>1, <2>4 DEF Retain, Open, Goto, TypeOK
  <2>5. CASE RemoveItem(c) \/ RemoveDir(c) \/ RemoveDatabase(c) \/ RemovalFails(c)
    BY <2>1, <2>5 DEF RemoveItem, RemoveDir, Emptied, RemoveDatabase, RemovalFails
  <2>6. QED
    BY <1>3, <2>2, <2>3, <2>4, <2>5 DEF Drop
<1>4. QED
  BY <1>0, <1>1, <1>2, <1>3 DEF Acts

LEMMA LeftNext ==
    ASSUME CInv, DiskInv, Next, ~Crash, ~Start
    PROVE  LeftInv'
<1>1. status' = "up"
  BY CreateMoves, DropMoves, InsertMoves, MergeApart DEF Next
<1>2. QED
  BY <1>1 DEF LeftInv

LEMMA CrashDisk ==
    ASSUME CInv, DiskInv, Crash
    PROVE  DiskInv'
<1>0. /\ \A c \in Definer : pc'[c] = "idle"
      /\ \A t \in Table : entry'[t] = 0
      /\ status' = "down" /\ status = "up" /\ UNCHANGED <<dir, databases, overlapped, leftover>>
      /\ interrupted' = (interrupted \/ \E c \in Definer : pc[c] # "idle")
  BY DEF Crash, Client
<1>1. MetaInv' /\ PassInv' /\ WalkInv' /\ WorkInv' /\ WholeInv' /\ SchemaInv'
  BY <1>0 DEF MetaInv, PassInv, PastRemoval, WalkInv, WorkInv, WholeInv, SchemaInv, Making
<1>2. BareInv'
  BY <1>0 DEF DiskInv, BareInv, Items
<1>s. StayInv'
  <2>1. leftover \subseteq Table
    BY DEF CInv, TypeOK
  <2>2. QED
    BY <1>0, <2>1 DEF DiskInv, StayInv, Creating
<1>3. LeftInv'
  <2> SUFFICES ASSUME ~interrupted', NEW t \in Table \ (overlapped \cup leftover), dir[t].there
               PROVE  dir[t].meta # 0
    BY <1>0 DEF LeftInv
  <2>1. \A c \in Definer : pc[c] = "idle"
    BY <1>0
  <2>2. entry[t] # 0
    BY <1>0, <2>1 DEF DiskInv, WorkInv, Creating, PastRemoval
  <2>3. QED
    BY <1>0, <2>2 DEF DiskInv, MetaInv
<1>4. QED
  BY <1>1, <1>s, <1>2, <1>3 DEF DiskInv

LEMMA StartDisk ==
    ASSUME CInv, DiskInv, Start
    PROVE  DiskInv'
<1>0. /\ \A c \in Client : pc[c] = "idle" /\ pc'[c] = "idle"
      /\ \A t \in Table : entry[t] = 0
      /\ status = "down" /\ UNCHANGED databases
  BY DEF Start, commands, CInv, DownInv
<1>d. ASSUME NEW t \in Table
      PROVE  /\ dir'[t].there = dir[t].there /\ dir'[t].meta = dir[t].meta
             /\ Items(t)' \subseteq Items(t)
  <2>1. dir[t] \in DirType
    BY DEF CInv, TypeOK, DirType
  <2>2. dir'[t] = dir[t] \/ dir'[t] = [dir[t] EXCEPT !.raw = {}]
    BY DEF Start
  <2>3. /\ dir'[t].there = dir[t].there /\ dir'[t].meta = dir[t].meta
        /\ dir'[t].parts = dir[t].parts /\ dir'[t].raw \subseteq dir[t].raw
    BY <2>1, <2>2 DEF DirType
  <2>4. ItemsOf(dir'[t]) \subseteq ItemsOf(dir[t])
    BY <2>3 DEF ItemsOf
  <2>5. QED
    BY <2>3, <2>4, ItemsAre
<1>1. PassInv' /\ WalkInv' /\ WholeInv' /\ SchemaInv'
  BY <1>0 DEF PassInv, PastRemoval, WalkInv, WholeInv, SchemaInv, Making, Client
<1>2. BareInv'
  BY <1>0, <1>d DEF DiskInv, BareInv
<1>3. CASE \E t \in Table : dir[t].there /\ dir[t].meta = 0
  <2>1. status' = "refused" /\ entry' = entry
    BY <1>3 DEF Start
  <2>2. UNCHANGED <<dir, history>>
    BY <1>3 DEF Start
  <2>3. MetaInv' /\ WorkInv' /\ LeftInv' /\ StayInv'
    BY <1>0, <1>3, <2>1, <2>2
       DEF MetaInv, WorkInv, LeftInv, StayInv, Creating, DiskInv, history, Client
  <2>4. QED
    BY <1>1, <1>2, <2>3 DEF DiskInv
<1>4. CASE ~ \E t \in Table : dir[t].there /\ dir[t].meta = 0
  <2>1. status' = "up" /\ leftover' = {} /\ \A t \in Table : entry'[t] = dir[t].meta
    BY <1>4 DEF Start
  <2>2. MetaInv' /\ WorkInv' /\ LeftInv' /\ StayInv'
    BY <1>0, <1>d, <1>4, <2>1, ZenonT(40) DEF MetaInv, WorkInv, LeftInv, StayInv, Client
  <2>3. QED
    BY <1>1, <1>2, <2>2 DEF DiskInv
<1>5. QED
  BY <1>3, <1>4

LEMMA NextDisk ==
    ASSUME CInv, DiskInv, [Next]_vars
    PROVE  DiskInv'
<1>1. CASE Next /\ ~Crash /\ ~Start
  BY <1>1, MetaNext, PassNext, WalkNext, WorkNext, StayNext, BareNext, WholeNext,
     SchemaNext, LeftNext
     DEF DiskInv
<1>2. CASE Crash \/ Start
  BY <1>2, CrashDisk, StartDisk
<1>3. CASE UNCHANGED vars
  <2>1. UNCHANGED <<status, entry, lock, databases, dir, pc, subject, schema, shards, listed,
                    interrupted, overlapped, leftover>>
    BY <1>3 DEF vars, commands, history
  <2>2. MetaInv' /\ PassInv' /\ WorkInv' /\ StayInv' /\ WholeInv' /\ SchemaInv'
    BY <2>1, ZenonT(40) DEF DiskInv, MetaInv, PassInv, WorkInv, StayInv, WholeInv, SchemaInv, PastRemoval, Creating
  <2>3. WalkInv' /\ BareInv' /\ LeftInv'
    BY <2>1 DEF DiskInv, WalkInv, Covered, BareInv, LeftInv, Items
  <2>4. QED
    BY <2>2, <2>3 DEF DiskInv
<1>4. QED
  BY <1>1, <1>2, <1>3

(* The catalog and the directories in every state. *)
THEOREM DiskInvariance == Spec => [](CInv /\ DiskInv)
<1>1. Init => CInv /\ DiskInv
  BY InitInv, InitDisk
<1>2. CInv /\ DiskInv /\ [Next]_vars => (CInv /\ DiskInv)'
  BY NextInv, NextDisk
<1>3. QED
  BY <1>1, <1>2, PTL DEF Spec

(* Whenever no command is under way, an entry in memory and the directory  *)
(* on disk agree, in existence and in schema, for every table but those    *)
(* whose removal failed, which have a directory and no entry until the     *)
(* next start, and those that a CREATE or a merge touched behind a DROP    *)
(* (create_table, src/src/sql/execution/create.rs:35; drop.rs:12;          *)
(* native.rs:190).                                                         *)
THEOREM DiskAgrees == Spec => []DisagreementExplained
<1>1. CInv /\ DiskInv => DisagreementExplained
  <2> SUFFICES ASSUME CInv, DiskInv, Idle, NEW t \in Table \ overlapped
               PROVE  IF t \in leftover THEN entry[t] = 0 /\ dir[t].there ELSE Consistent(t)
    BY DEF DisagreementExplained
  <2>1. ~Creating(t) /\ \A c \in Definer : ~PastRemoval(c, t)
    BY DEF Idle, Creating, PastRemoval, Client
  <2>2. t \notin leftover /\ dir[t].there => entry[t] # 0
    BY <2>1 DEF DiskInv, WorkInv, Idle
  <2>3. entry[t] # 0 => dir[t].there /\ dir[t].meta = entry[t]
    BY DEF CInv, DirInv, Sound, DiskInv, MetaInv
  <2>4. dir[t].meta # 0 => dir[t].there
    BY DEF CInv, DirInv
  <2>5. t \in leftover => entry[t] = 0 /\ dir[t].there
    BY DEF DiskInv, StayInv
  <2>6. QED
    BY <2>2, <2>3, <2>4, <2>5 DEF Consistent
<1>2. QED
  BY <1>1, DiskInvariance, PTL

(* Start-up meets a table directory it cannot load only after the process  *)
(* was killed inside a CREATE or a DROP, or where a removal failed, or     *)
(* after such an overlap (load_existing_parts, src/src/lib.rs:137).        *)
THEOREM RefusalsExplained == Spec => []RefusalExplained
<1>1. DiskInv => RefusalExplained
  BY DEF DiskInv, LeftInv, RefusalExplained
<1>2. QED
  BY <1>1, DiskInvariance, PTL
=============================================================================
