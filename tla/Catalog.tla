------------------------------- MODULE Catalog -------------------------------
(***************************************************************************)
(* Which tables exist: the entries of TABLE_DATA and the directories that  *)
(* hold databases and tables.  Clients create and drop them, others INSERT,*)
(* the merge thread writes merged parts, the process dies and starts.      *)
(*                                                                         *)
(* The n-th CREATE TABLE gives its table the schema n; `entry` and the     *)
(* `.metadata` file hold that number, and so does every part, for the      *)
(* schema its columns were checked against.  IF [NOT] EXISTS only chooses  *)
(* between two answers and is left out.  Tables are taken to be in shards  *)
(* of their own, so that one lock guards one table.                        *)
(***************************************************************************)
EXTENDS Integers

CONSTANTS
    Database, Table,
    DatabaseOf,      \* the database of each table
    Definer,         \* clients that CREATE and DROP
    Inserter,        \* clients that INSERT
    Merger, NoOne,
    MaxSchemas,      \* bound: CREATE TABLEs
    MaxInserts,      \* bound: INSERTs
    MaxMerges,       \* bound: merges; in the program, a merge takes two parts
    MaxCrashes       \* bound

Client == Definer \cup Inserter
Schema == 1..MaxSchemas
Writer == Inserter \cup {Merger}

ASSUME CatalogAssumption ==
    /\ DatabaseOf \in [Table -> Database]
    /\ \A d \in Database : \E t \in Table : DatabaseOf[t] = d
    /\ NoOne \notin Client /\ Merger \notin Client /\ NoOne # Merger
    /\ Definer \cap Inserter = {}
    /\ MaxSchemas \in Nat /\ MaxInserts \in Nat /\ MaxMerges \in Nat
    /\ MaxCrashes \in Nat

VARIABLES
    status,       \* the process: "up", "down", or "refused" to start
    entry,        \* TABLE_DATA[t].metadata: a schema, or 0 without entry
    lock,         \* who holds the write lock of t's shard
    databases,    \* database directories
    dir,          \* table directories
    pc,           \* what each client's command is about to do
    subject,      \* the tables each client's command is about
    schema,       \* the schema a command works with
    shards,       \* entries a DROP DATABASE has yet to visit
    listed,       \* directory entries its remove_dir_all found
    mpc, mtable, mschema,       \* the merge under way
    schemas, inserts, merges, crashes,
    \* History since the last start:
    interrupted,  \* a crash hit a CREATE or a DROP
    overlapped,   \* tables that were created while a DROP was past its
                  \* removal of their entry, or written by a merge that
                  \* found its parts before a DROP removed the entry and
                  \* saves after it, be the DROP finished or not
    leftover      \* tables whose directory a failing removal left behind

commands == <<pc, subject, schema, shards, listed>>
merge == <<mpc, mtable, mschema>>
bounds == <<schemas, inserts, merges, crashes>>
history == <<interrupted, overlapped, leftover>>
vars == <<status, entry, lock, databases, dir, commands, merge, bounds, history>>

(* A table directory: its metadata file, its parts, its raw directories.   *)
NoDir == [there |-> FALSE, meta |-> 0, parts |-> {}, raw |-> {}]
EmptyDir == [NoDir EXCEPT !.there = TRUE]

Items(t) ==
    {<<"meta", v>> : v \in {dir[t].meta} \ {0}}
    \cup {<<"part", v>> : v \in dir[t].parts}
    \cup {<<"raw", w>> : w \in dir[t].raw}

Without(d, item) ==
    CASE item[1] = "meta" -> [d EXCEPT !.meta = 0]
      [] item[1] = "part" -> [d EXCEPT !.parts = @ \ {item[2]}]
      [] item[1] = "raw"  -> [d EXCEPT !.raw = @ \ {item[2]}]

TablesOf(d) == {t \in Table : DatabaseOf[t] = d}

Init ==
    /\ status = "up"
    /\ entry = [t \in Table |-> 0]
    /\ lock = [t \in Table |-> NoOne]
    /\ databases = {}
    /\ dir = [t \in Table |-> NoDir]
    /\ pc = [c \in Client |-> "idle"]
    /\ subject = [c \in Client |-> {}]
    /\ schema = [c \in Client |-> 0]
    /\ shards = [c \in Client |-> {}]
    /\ listed = [c \in Client |-> {}]
    /\ mpc = "idle" /\ mtable = {} /\ mschema = 0
    /\ schemas = 0 /\ inserts = 0 /\ merges = 0 /\ crashes = 0
    /\ interrupted = FALSE /\ overlapped = {} /\ leftover = {}

Goto(c, where) == pc' = [pc EXCEPT ![c] = where]

(* The command is answered: the locks it held and its locals are gone.     *)
Answer(c) ==
    /\ Goto(c, "idle")
    /\ subject' = [subject EXCEPT ![c] = {}]
    /\ schema' = [schema EXCEPT ![c] = 0]
    /\ shards' = [shards EXCEPT ![c] = {}]
    /\ listed' = [listed EXCEPT ![c] = {}]
    /\ lock' = [t \in Table |-> IF lock[t] = c THEN NoOne ELSE lock[t]]

Issue(c, ts, where) ==
    /\ status = "up" /\ pc[c] = "idle"
    /\ subject' = [subject EXCEPT ![c] = ts]
    /\ Goto(c, where)

-----------------------------------------------------------------------------
(* CREATE DATABASE: one create_dir; an error when it exists. *)
CreateDatabase(c) ==
    /\ status = "up" /\ pc[c] = "idle"
    /\ \E d \in Database \ databases : databases' = databases \cup {d}
    /\ UNCHANGED <<status, entry, lock, dir, commands, merge, bounds, history>>

(***************************************************************************)
(* CREATE TABLE: the vacant entry of DashMap is the shard's write lock,    *)
(* held while the directory and the metadata are written.                  *)
(***************************************************************************)
CreateIssue(c) ==
    /\ schemas < MaxSchemas
    /\ schemas' = schemas + 1
    /\ \E t \in Table : Issue(c, {t}, "create entry")
    /\ schema' = [schema EXCEPT ![c] = schemas + 1]
    /\ UNCHANGED <<status, entry, lock, databases, dir, shards, listed, merge, inserts,
                   merges, crashes, history>>

(* Mutant: the entry is looked up, but not held. *)
CreateEntry_NotHeld(c) ==
    /\ pc[c] = "create entry"
    /\ \E t \in subject[c] :
          /\ lock[t] = NoOne
          /\ IF entry[t] # 0 THEN Answer(c)
             ELSE /\ Goto(c, "create dir")
                  /\ UNCHANGED <<lock, subject, schema, shards, listed>>
    /\ UNCHANGED <<status, entry, databases, dir, merge, bounds, history>>

CreateEntry(c) ==
    /\ pc[c] = "create entry"
    /\ \E t \in subject[c] :
          /\ lock[t] = NoOne
          /\ IF entry[t] # 0 THEN Answer(c)
             ELSE /\ lock' = [lock EXCEPT ![t] = c]
                  /\ Goto(c, "create dir")
                  /\ UNCHANGED <<subject, schema, shards, listed>>
    /\ UNCHANGED <<status, entry, databases, dir, merge, bounds, history>>

(* A DROP has removed the entry of t, or found none, and goes on without a *)
(* lock to remove the directory.                                           *)
PastRemoval(c, t) ==
    /\ t \in subject[c]
    /\ \/ pc[c] \in {"open", "open all", "rm", "rm all"}
       \/ pc[c] = "retain" /\ t \notin shards[c]

(* The tables of ts that a DROP is about to remove the directory of. *)
BeingRemoved(ts) == {t \in ts : \E c \in Client : PastRemoval(c, t)}

(* Mutant: the error path keeps the entry. *)
CreateDir_KeepsLock(c) ==
    /\ pc[c] = "create dir"
    /\ \E t \in subject[c] :
          IF DatabaseOf[t] \in databases /\ ~dir[t].there
          THEN /\ dir' = [dir EXCEPT ![t] = EmptyDir]
               /\ Goto(c, "create meta")
               /\ overlapped' = overlapped \cup BeingRemoved({t})
          ELSE Goto(c, "idle") /\ UNCHANGED <<dir, overlapped>>
    /\ UNCHANGED <<status, entry, lock, databases, subject, schema, shards, listed,
                   merge, bounds, interrupted, leftover>>

(* create_dir fails when the database is missing, when the directory       *)
(* exists, or for any other reason.                                        *)
CreateDir(c) ==
    /\ pc[c] = "create dir"
    /\ \E t \in subject[c] :
          \/ /\ DatabaseOf[t] \in databases /\ ~dir[t].there
             /\ dir' = [dir EXCEPT ![t] = EmptyDir]
             /\ Goto(c, "create meta")
             /\ overlapped' = overlapped \cup BeingRemoved({t})
             /\ UNCHANGED <<lock, subject, schema, shards, listed>>
          \/ Answer(c) /\ UNCHANGED <<dir, overlapped>>
    /\ UNCHANGED <<status, entry, databases, merge, bounds, interrupted, leftover>>

(* write_to renames a complete temporary file to `.metadata`. *)
CreateMeta(c) ==
    /\ pc[c] = "create meta"
    /\ \E t \in subject[c] :
          /\ dir[t].there
          /\ dir' = [dir EXCEPT ![t].meta = schema[c]]
    /\ Goto(c, "create publish")
    /\ UNCHANGED <<status, entry, lock, databases, subject, schema, shards, listed,
                   merge, bounds, history>>

(* It cannot be written, or the directory was removed: clean up. *)
CreateMetaFails(c) ==
    /\ pc[c] = "create meta"
    /\ \E t \in subject[c] : dir' = [dir EXCEPT ![t] = NoDir]
    /\ Answer(c)
    /\ UNCHANGED <<status, entry, databases, merge, bounds, history>>

(* A removal that fails leaves what is there of the tables of c. *)
LeavesBehind(c) == leftover' = leftover \cup {t \in subject[c] : dir[t].there}

(* The clean-up fails as well: the directory stays, without metadata.      *)
CreateCleanUpFails(c) ==
    /\ pc[c] = "create meta"
    /\ \E t \in subject[c] :
          /\ dir[t].there
          /\ \E left \in SUBSET dir[t].raw : dir' = [dir EXCEPT ![t].raw = left]
    /\ LeavesBehind(c)
    /\ Answer(c)
    /\ UNCHANGED <<status, entry, databases, merge, bounds, interrupted, overlapped>>

CreatePublish(c) ==
    /\ pc[c] = "create publish"
    /\ entry' = [t \in Table |-> IF t \in subject[c] THEN schema[c] ELSE entry[t]]
    /\ Answer(c)
    /\ UNCHANGED <<status, databases, dir, merge, bounds, history>>

Create(c) == CreateDatabase(c) \/ CreateIssue(c) \/ CreateEntry(c) \/ CreateDir(c)
             \/ CreateMeta(c) \/ CreateMetaFails(c) \/ CreateCleanUpFails(c)
             \/ CreatePublish(c)

-----------------------------------------------------------------------------
(***************************************************************************)
(* DROP TABLE takes the write lock, releases it, removes the entry and     *)
(* then the directory.  DROP DATABASE removes the entries shard by shard   *)
(* and then the directory with everything below it.                        *)
(***************************************************************************)
DropTableIssue(c) ==
    /\ \E t \in Table : Issue(c, {t}, "drop check")
    /\ UNCHANGED <<status, entry, lock, databases, dir, schema, shards, listed, merge,
                   bounds, history>>

DropCheck(c) ==
    /\ pc[c] = "drop check"
    /\ \A t \in subject[c] : lock[t] = NoOne
    /\ IF \E t \in subject[c] : entry[t] # 0
       THEN Goto(c, "drop remove") /\ UNCHANGED <<lock, subject, schema, shards, listed>>
       ELSE Answer(c)
    /\ UNCHANGED <<status, entry, databases, dir, merge, bounds, history>>

(* Mutant: the entry stays when the table is dropped. *)
DropRemove_KeepsEntry(c) ==
    /\ pc[c] = "drop remove"
    /\ \A t \in subject[c] : lock[t] = NoOne
    /\ Goto(c, "open")
    /\ UNCHANGED <<status, entry, lock, databases, dir, subject, schema, shards,
                   listed, merge, bounds, history>>

DropRemove(c) ==
    /\ pc[c] = "drop remove"
    /\ \A t \in subject[c] : lock[t] = NoOne
    /\ entry' = [t \in Table |-> IF t \in subject[c] THEN 0 ELSE entry[t]]
    /\ Goto(c, "open")
    /\ UNCHANGED <<status, lock, databases, dir, subject, schema, shards, listed, merge,
                   bounds, history>>

DropDatabaseIssue(c) ==
    /\ \E d \in Database :
          /\ Issue(c, TablesOf(d), "retain")
          /\ shards' = [shards EXCEPT ![c] = TablesOf(d)]
    /\ UNCHANGED <<status, entry, lock, databases, dir, schema, listed, merge,
                   bounds, history>>

(* TABLE_DATA.retain, one shard after the other. *)
Retain(c) ==
    /\ pc[c] = "retain"
    /\ \E t \in shards[c] :
          /\ lock[t] = NoOne
          /\ entry' = [entry EXCEPT ![t] = 0]
          /\ shards' = [shards EXCEPT ![c] = @ \ {t}]
          /\ IF shards[c] = {t} THEN Goto(c, "open all") ELSE UNCHANGED pc
    /\ UNCHANGED <<status, lock, databases, dir, subject, schema, listed, merge,
                   bounds, history>>

-----------------------------------------------------------------------------
(***************************************************************************)
(* remove_dir_all, with no lock held: list the directories, remove what is *)
(* in them one by one, then the directories.  An entry that appears after  *)
(* the listing may be met by the walk or not; when it is not, removing its *)
(* directory fails and the DROP is answered with an error.  Any other call *)
(* of the walk may fail too, and the rest of the directories stays.        *)
(***************************************************************************)
DirEntry == <<"dir", 0>>

Listing(ts) ==
    UNION {{<<t, i>> : i \in Items(t) \cup {DirEntry}} : t \in {u \in ts : dir[u].there}}

Open(c) ==
    /\ pc[c] \in {"open", "open all"}
    /\ IF \/ pc[c] = "open" /\ Listing(subject[c]) # {}
          \/ pc[c] = "open all" /\ \E t \in subject[c] : DatabaseOf[t] \in databases
       THEN /\ listed' = [listed EXCEPT ![c] = Listing(subject[c])]
            /\ Goto(c, IF pc[c] = "open" THEN "rm" ELSE "rm all")
            /\ UNCHANGED <<lock, subject, schema, shards>>
       ELSE Answer(c)
    /\ UNCHANGED <<status, entry, databases, dir, merge, bounds, history>>

RemoveItem(c) ==
    /\ pc[c] \in {"rm", "rm all"}
    /\ \E t \in subject[c] : \E i \in Items(t) :
          /\ dir' = [dir EXCEPT ![t] = Without(@, i)]
          /\ listed' = [listed EXCEPT ![c] = @ \ {<<t, i>>}]
    /\ UNCHANGED <<status, entry, lock, databases, pc, subject, schema, shards,
                   merge, bounds, history>>

(* The listed contents of t are gone, by this DROP or by another. *)
Emptied(c, t) ==
    /\ pc[c] \in {"rm", "rm all"}
    /\ <<t, DirEntry>> \in listed[c]
    /\ \A i \in Items(t) : <<t, i>> \notin listed[c]

RemoveDir(c) ==
    /\ \E t \in subject[c] :
          /\ Emptied(c, t)
          /\ IF Items(t) = {}
             THEN /\ dir' = [dir EXCEPT ![t] = NoDir]
                  /\ leftover' = leftover \ {t}
                  /\ IF pc[c] = "rm" THEN Answer(c)
                     ELSE /\ listed' = [listed EXCEPT ![c] =
                                          {e \in @ : e[1] # t}]
                          /\ UNCHANGED <<lock, pc, subject, schema, shards>>
             ELSE Answer(c) /\ LeavesBehind(c) /\ UNCHANGED dir
    /\ UNCHANGED <<status, entry, databases, merge, bounds, interrupted, overlapped>>

RemoveDatabase(c) ==
    /\ pc[c] = "rm all" /\ listed[c] = {}
    /\ databases' =
          IF \E t \in subject[c] : dir[t].there THEN databases
          ELSE databases \ {DatabaseOf[t] : t \in subject[c]}
    /\ LeavesBehind(c)
    /\ Answer(c)
    /\ UNCHANGED <<status, entry, dir, merge, bounds, interrupted, overlapped>>

(* remove_dir_all fails anywhere on its way: the entries are gone, and     *)
(* what it has not removed by then stays.                                  *)
RemovalFails(c) ==
    /\ pc[c] \in {"open", "open all", "rm", "rm all"}
    /\ LeavesBehind(c)
    /\ Answer(c)
    /\ UNCHANGED <<status, entry, databases, dir, merge, bounds, interrupted, overlapped>>

Drop(c) == DropTableIssue(c) \/ DropCheck(c) \/ DropRemove(c)
           \/ DropDatabaseIssue(c) \/ Retain(c)
           \/ Open(c) \/ RemoveItem(c) \/ RemoveDir(c) \/ RemoveDatabase(c)
           \/ RemovalFails(c)

-----------------------------------------------------------------------------
(***************************************************************************)
(* INSERT checks its values against the schema when it is planned, without *)
(* keeping the lock, and writes under the write lock it takes later.       *)
(***************************************************************************)
(* Mutant: the values are checked against no schema. *)
InsertPlan_Unchecked(c) ==
    /\ inserts < MaxInserts
    /\ \E t \in Table : lock[t] = NoOne /\ entry[t] # 0 /\ Issue(c, {t}, "insert lock")
    /\ inserts' = inserts + 1
    /\ UNCHANGED <<status, entry, lock, databases, dir, schema, shards, listed, merge,
                   schemas, merges, crashes, history>>

InsertPlan(c) ==
    /\ inserts < MaxInserts
    /\ \E t \in Table :
          /\ lock[t] = NoOne /\ entry[t] # 0
          /\ Issue(c, {t}, "insert lock")
          /\ schema' = [schema EXCEPT ![c] = entry[t]]
    /\ inserts' = inserts + 1
    /\ UNCHANGED <<status, entry, lock, databases, dir, shards, listed, merge, schemas,
                   merges, crashes, history>>

(* Mutant: a table that was dropped in the meantime is not noticed. *)
InsertLock_NotLookedUp(c) ==
    /\ pc[c] = "insert lock"
    /\ \E t \in subject[c] :
          /\ lock[t] = NoOne
          /\ lock' = [lock EXCEPT ![t] = c]
          /\ Goto(c, "insert write")
    /\ UNCHANGED <<status, entry, databases, dir, subject, schema, shards, listed,
                   merge, bounds, history>>

InsertLock(c) ==
    /\ pc[c] = "insert lock"
    /\ \E t \in subject[c] :
          /\ lock[t] = NoOne
          /\ IF entry[t] = 0 THEN Answer(c)
             ELSE /\ lock' = [lock EXCEPT ![t] = c]
                  /\ Goto(c, "insert write")
                  /\ UNCHANGED <<subject, schema, shards, listed>>
    /\ UNCHANGED <<status, entry, databases, dir, merge, bounds, history>>

(* save_raw: create_dir_all makes every directory that is missing. *)
SaveRaw(w, t) ==
    /\ dir' = [dir EXCEPT ![t].there = TRUE, ![t].raw = @ \cup {w}]
    /\ databases' = databases \cup {DatabaseOf[t]}

InsertWrite(c) ==
    /\ pc[c] = "insert write"
    /\ \E t \in subject[c] : SaveRaw(c, t)
    /\ Goto(c, "insert rename")
    /\ UNCHANGED <<status, entry, lock, subject, schema, shards, listed, merge, bounds,
                   history>>

InsertRename(c) ==
    /\ pc[c] = "insert rename"
    /\ \E t \in subject[c] :
          dir' = IF c \in dir[t].raw
                 THEN [dir EXCEPT ![t].raw = @ \ {c},
                                  ![t].parts = @ \cup {schema[c]}]
                 ELSE dir
    /\ Answer(c)
    /\ UNCHANGED <<status, entry, databases, merge, bounds, history>>

Insert(c) == InsertPlan(c) \/ InsertLock(c) \/ InsertWrite(c) \/ InsertRename(c)

-----------------------------------------------------------------------------
(***************************************************************************)
(* A background merge keeps a copy of the metadata and of the parts' infos *)
(* and saves the merged part without a lock; only the final move takes it. *)
(***************************************************************************)
MergeFind ==
    /\ merges < MaxMerges /\ merges' = merges + 1
    /\ status = "up" /\ mpc = "idle"
    /\ \E t \in Table :
          /\ lock[t] = NoOne /\ entry[t] # 0
          /\ mschema' \in dir[t].parts
          /\ mtable' = {t}
    /\ mpc' = "save"
    /\ UNCHANGED <<status, entry, lock, databases, dir, commands, schemas, inserts,
                   crashes, history>>

MergeSave ==
    /\ mpc = "save"
    /\ \E t \in mtable : SaveRaw(Merger, t)
    /\ mpc' = "move"
    /\ overlapped' = overlapped \cup {t \in mtable : entry[t] = 0}
    /\ UNCHANGED <<status, entry, lock, commands, mtable, mschema, bounds,
                   interrupted, leftover>>

(* atomic_part_move: without the entry or the old parts it gives up. *)
MergeMove ==
    /\ mpc = "move"
    /\ \E t \in mtable :
          /\ lock[t] = NoOne
          /\ dir' = IF entry[t] # 0 /\ mschema \in dir[t].parts
                    THEN [dir EXCEPT ![t].raw = @ \ {Merger}] ELSE dir
    /\ mpc' = "idle" /\ mtable' = {} /\ mschema' = 0
    /\ UNCHANGED <<status, entry, lock, databases, commands, bounds, history>>

Merge == MergeFind \/ MergeSave \/ MergeMove

-----------------------------------------------------------------------------
(* The process dies; nothing but the directories is left. *)
Crash ==
    /\ status = "up" /\ crashes < MaxCrashes
    /\ crashes' = crashes + 1
    /\ status' = "down"
    /\ interrupted' = (interrupted \/ \E c \in Definer : pc[c] # "idle")
    /\ entry' = [t \in Table |-> 0]
    /\ lock' = [t \in Table |-> NoOne]
    /\ pc' = [c \in Client |-> "idle"]
    /\ subject' = [c \in Client |-> {}]
    /\ schema' = [c \in Client |-> 0]
    /\ shards' = [c \in Client |-> {}]
    /\ listed' = [c \in Client |-> {}]
    /\ mpc' = "idle" /\ mtable' = {} /\ mschema' = 0
    /\ UNCHANGED <<databases, dir, schemas, inserts, merges, overlapped, leftover>>

(* Mutant: a left-over raw directory is an error. *)
Start_RefusesRaw ==
    /\ status = "down"
    /\ IF \E t \in Table : dir[t].there /\ (dir[t].meta = 0 \/ dir[t].raw # {})
       THEN status' = "refused" /\ UNCHANGED <<entry, dir, history>>
       ELSE /\ status' = "up"
            /\ entry' = [t \in Table |-> dir[t].meta]
            /\ interrupted' = FALSE /\ overlapped' = {} /\ leftover' = {}
            /\ UNCHANGED dir
    /\ UNCHANGED <<lock, databases, commands, merge, bounds>>

(* load_existing_parts: a table directory without readable metadata is an  *)
(* error, with which main returns; left-over raw directories are removed.  *)
Start ==
    /\ status = "down"
    /\ IF \E t \in Table : dir[t].there /\ dir[t].meta = 0
       THEN status' = "refused" /\ UNCHANGED <<entry, dir, history>>
       ELSE /\ status' = "up"
            /\ entry' = [t \in Table |-> dir[t].meta]
            /\ dir' = [t \in Table |-> [dir[t] EXCEPT !.raw = {}]]
            /\ interrupted' = FALSE /\ overlapped' = {} /\ leftover' = {}
    /\ UNCHANGED <<lock, databases, commands, merge, bounds>>

Next ==
    \/ \E c \in Definer : Create(c) \/ Drop(c)
    \/ \E c \in Inserter : Insert(c)
    \/ Merge
    \/ Crash
    \/ Start

Spec == Init /\ [][Next]_vars

(* Every command runs on a thread of its own, and a lock that is free      *)
(* again and again is granted.  A thread stays where it is until it takes  *)
(* its step, so that strong fairness of all its steps says both.  Nothing  *)
(* is asked of the merge: it keeps no lock from step to step.              *)
Step(c) == CreateDir(c) \/ CreateMeta(c) \/ CreateMetaFails(c) \/ CreatePublish(c)
           \/ Open(c) \/ RemoveItem(c) \/ RemoveDir(c) \/ RemoveDatabase(c)
Locking(c) == CreateEntry(c) \/ DropCheck(c) \/ DropRemove(c) \/ Retain(c)

FairSpec ==
    /\ Spec
    /\ \A c \in Definer : SF_vars(Step(c) \/ Locking(c))
    /\ \A c \in Inserter : SF_vars(InsertLock(c) \/ InsertWrite(c) \/ InsertRename(c))

-----------------------------------------------------------------------------
(* Properties *)

Where == {"idle", "create entry", "create dir", "create meta", "create publish",
          "drop check", "drop remove", "retain", "open", "open all", "rm",
          "rm all", "insert lock", "insert write", "insert rename"}

(* Every variable stays in its set. *)
TypeOK ==
    /\ status \in {"up", "down", "refused"}
    /\ entry \in [Table -> Schema \cup {0}]
    /\ lock \in [Table -> Client \cup {NoOne}]
    /\ databases \subseteq Database
    /\ dir \in [Table -> [there : BOOLEAN, meta : Schema \cup {0},
                          parts : SUBSET Schema, raw : SUBSET Writer]]
    /\ pc \in [Client -> Where]
    /\ subject \in [Client -> SUBSET Table]
    /\ schema \in [Client -> Schema \cup {0}]
    /\ shards \in [Client -> SUBSET Table]
    /\ \A c \in Client : {e[1] : e \in listed[c]} \subseteq subject[c]
    /\ mpc \in {"idle", "save", "move"}
    /\ mtable \subseteq Table /\ mschema \in Schema \cup {0}
    /\ schemas \in 0..MaxSchemas /\ inserts \in 0..MaxInserts
    /\ merges \in 0..MaxMerges
    /\ crashes \in 0..MaxCrashes
    /\ interrupted \in BOOLEAN /\ overlapped \subseteq Table /\ leftover \subseteq Table

Idle == status = "up" /\ \A c \in Client : pc[c] = "idle"

(* However CREATE, DROP, INSERT and merges interleave and wherever the     *)
(* process dies, a table's entry is never replaced by another table's: two *)
(* CREATE TABLEs of the same name cannot both succeed without a DROP in    *)
(* between.  (create_table holds the vacant entry.)                        *)
EntryNeverReplaced ==
    [][\A t \in Table : entry[t] # 0 => entry'[t] \in {entry[t], 0}]_vars

Consistent(t) == (dir[t].there <=> entry[t] # 0) /\ dir[t].meta = entry[t]

(* Between commands the entries in memory are exactly the tables on disk,  *)
(* with the same schema: CREATE TABLE makes an entry, a directory and the  *)
(* metadata, DROP removes them (src/src/sql/execution/create.rs:35,        *)
(* drop.rs:12), when the file system refused no removal.                   *)
EntryMatchesDisk == Idle /\ leftover = {} => \A t \in Table : Consistent(t)

(* However CREATE, DROP, INSERT, merges and crashes interleave and         *)
(* whatever fails, memory and disk disagree about a table in two cases     *)
(* only.  A removal of its directory failed: then the table has no entry,  *)
(* all or a part of its directory stays, and nothing brings it back before *)
(* the next start (native.rs:190, drop.rs:38, create.rs:68).  Or a CREATE  *)
(* or a merge met a DROP of it, as `overlapped` says: DROP removes the     *)
(* directory without a lock (drop.rs:26).                                  *)
DisagreementExplained ==
    Idle => \A t \in Table \ overlapped :
                IF t \in leftover THEN entry[t] = 0 /\ dir[t].there
                                 ELSE Consistent(t)

(* The server refuses to start only after it was killed inside a CREATE or *)
(* a DROP, or for the directory of a table that a failing removal left or  *)
(* that met such an overlap: no INSERT, no merge of a table that stays and *)
(* no other command leaves a directory behind that cannot be loaded.       *)
RefusalExplained ==
    status = "refused" =>
        \/ interrupted
        \/ \E t \in overlapped \cup leftover : dir[t].there /\ dir[t].meta = 0

(* It starts whenever it was killed (docs/arch.md:45).                     *)
StartsAgain == status # "refused"

(* A directory that is not there, because it was deleted by a DROP or not  *)
(* created yet, appears only when CREATE TABLE creates it, or after such   *)
(* an overlap (src/src/sql/execution/drop.rs:12 says DROP deletes it).     *)
(* save_raw creates what is missing: an INSERT is kept from that by its    *)
(* lock, a merge that found its parts before the DROP is not.              *)
OnlyOverlapsRevive ==
    [][\A t \in Table \ overlapped' : ~dir[t].there /\ dir'[t].there =>
         \E c \in Definer : pc[c] = "create dir" /\ t \in subject[c]]_vars

(* The columns of every part were checked against the schema of the table  *)
(* they are in (src/src/sql/logical_plan/insert.rs:18).                    *)
PartsMatchSchema ==
    \A t \in Table : dir[t].meta # 0 => dir[t].parts \subseteq {dir[t].meta}

(* Every command is answered: no error path keeps a lock. *)
CommandsAnswered ==
    \A c \in Client : []<>(pc[c] = "idle")
=============================================================================
