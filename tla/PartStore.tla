------------------------------ MODULE PartStore ------------------------------
(***************************************************************************)
(* The parts of one MergeTree table: clients that INSERT and SELECT, the   *)
(* background merge thread, the directories on disk, crashes and restarts. *)
(*                                                                         *)
(* The n-th INSERT that starts writing creates part n: its UUIDv7 name is  *)
(* taken under the table's write lock, so names grow with n, and Stamp[n]  *)
(* is the millisecond inside that name, the only thing merging compares.   *)
(*                                                                         *)
(* A part directory is a record.  `rows` is what its column files hold;    *)
(* `covers` is the set of INSERTs it stands for: {n} when INSERT n wrote   *)
(* it, the union of what its two sources stood for when a merge wrote it.  *)
(***************************************************************************)
EXTENDS Granules, FiniteSets

CONSTANTS
    Client,          \* connections that issue commands
    Inserter,        \* bound: those of them that issue INSERTs too
    NoOne, Merger,   \* values of `writer` that are not clients
    MaxInserts,      \* bound: INSERTs that reach the table
    RowCount,        \* rows of each INSERT
    Stamp,           \* creation millisecond of each part's name
    LoadThreshold,   \* CONFIG background_merge_available_under
    Faults,          \* file-system calls that may fail
    MaxFaults,       \* bound: failing calls
    MaxCrashes       \* bound: crashes of the process

Part == 1..MaxInserts

FaultKinds == {"save", "rename", "undo", "publish", "remove", "read",
               "skip", "cleanup"}

ASSUME PartStoreAssumption ==
    /\ MaxInserts \in Nat /\ MaxFaults \in Nat /\ MaxCrashes \in Nat
    /\ Inserter \subseteq Client
    /\ NoOne \notin Client /\ Merger \notin Client /\ NoOne # Merger
    /\ RowCount \in [Part -> Nat \ {0}]
    /\ Stamp \in [Part -> Nat]
    /\ \A m, n \in Part : m <= n => Stamp[m] <= Stamp[n]
    /\ LoadThreshold \in Nat
    /\ Faults \subseteq FaultKinds

VARIABLES
    up,        \* the process runs
    infos,     \* TABLE_DATA[table].infos: names of the parts, in their order
    normal,    \* <table>/<n>: the part directory, or Absent
    old,       \* <table>/<n>.old
    oldDirs,   \* the n for which <table>/<n>.old exists and is not empty
    raw,       \* <table>/raw/<n>, once every file is written
    writer,    \* who holds the DashMap shard's write lock
    readers,   \* SELECTs that hold it for reading
    pc,        \* what each client's command is about to do
    cur,       \* the part an INSERT is writing
    want,      \* INSERTs acknowledged when a SELECT was issued
    at,        \* the part a SELECT read last; 0 before the first
    seen,      \* the parts a SELECT has read
    next,      \* name the next INSERT takes
    acked,     \* INSERTs answered with success
    failed,    \* INSERTs answered with an error
    mpc,       \* what the merge thread is about to do
    p1, p2,    \* its PartsToMerge: the older and the newer part
    merged,    \* what it has loaded from them
    faults, crashes

memory == <<infos, writer, readers>>
disk == <<normal, old, oldDirs, raw>>
clients == <<pc, cur, want, at, seen, next, acked, failed>>
merge == <<mpc, p1, p2, merged>>
vars == <<up, memory, disk, clients, merge, faults, crashes>>

Row == Part \X Nat
PartDir == [covers : SUBSET Part, rows : Seq(Row)]
Absent == [covers |-> {}, rows |-> <<>>]

(* The part INSERT n writes. *)
Fresh(n) == [covers |-> {n}, rows |-> [i \in 1..RowCount[n] |-> <<n, i>>]]

Live == {n \in Part : normal[n] # Absent}
RowsOf == [n \in Part |-> normal[n].rows]

(***************************************************************************)
(* A call of kind k fails.  It may only when the run allows it.            *)
(***************************************************************************)
Fail(k) == /\ k \in Faults
           /\ faults < MaxFaults
           /\ faults' = faults + 1

NoFail == UNCHANGED faults

(* DATABASE_LOAD: complexity 2 for each INSERT and 4 for each SELECT. *)
Inserting == {c \in Client : pc[c] \in {"insert", "save", "publish"}}
Selecting == {c \in Client : pc[c] \in {"select", "scan"}}
Load == 2 * Cardinality(Inserting) + 4 * Cardinality(Selecting)

-----------------------------------------------------------------------------
Init ==
    /\ up = TRUE
    /\ infos = <<>>
    /\ normal = [n \in Part |-> Absent]
    /\ old = [n \in Part |-> Absent]
    /\ oldDirs = {}
    /\ raw = [n \in Part |-> Absent]
    /\ writer = NoOne /\ readers = {}
    /\ pc = [c \in Client |-> "idle"]
    /\ cur = [c \in Client |-> 0]
    /\ want = [c \in Client |-> {}]
    /\ at = [c \in Client |-> 0]
    /\ seen = [c \in Client |-> {}]
    /\ next = 1 /\ acked = {} /\ failed = {}
    /\ mpc = "idle" /\ p1 = 0 /\ p2 = 0 /\ merged = Absent
    /\ faults = 0 /\ crashes = 0

Goto(c, where) == pc' = [pc EXCEPT ![c] = where]

-----------------------------------------------------------------------------
(* INSERT *)

InsertIssue(c) ==
    /\ up /\ pc[c] = "idle"
    /\ c \in Inserter
    /\ next + Cardinality({d \in Client : pc[d] = "insert"}) <= MaxInserts
    /\ Goto(c, "insert")
    /\ UNCHANGED <<up, memory, disk, cur, want, at, seen, next, acked, failed,
                   merge, faults, crashes>>

(* try_from_mut: the whole INSERT runs under the write lock. *)
InsertLock(c) ==
    /\ pc[c] = "insert"
    /\ writer = NoOne /\ readers = {}
    /\ next <= MaxInserts            \* the bound, kept by InsertIssue
    /\ writer' = c
    /\ cur' = [cur EXCEPT ![c] = next]
    /\ next' = next + 1
    /\ Goto(c, "save")
    /\ UNCHANGED <<up, infos, readers, disk, want, at, seen, acked, failed,
                   merge, faults, crashes>>

(* TablePart::try_new and save_raw. *)
InsertSave(c) ==
    /\ pc[c] = "save"
    /\ raw' = [raw EXCEPT ![cur[c]] = Fresh(cur[c])]
    /\ Goto(c, "publish")
    /\ NoFail
    /\ UNCHANGED <<up, memory, normal, old, oldDirs, cur, want, at, seen, next,
                   acked, failed, merge, crashes>>

InsertSaveFails(c) ==
    /\ pc[c] = "save"
    /\ Fail("save")
    /\ failed' = failed \cup {cur[c]}
    /\ cur' = [cur EXCEPT ![c] = 0]
    /\ writer' = NoOne
    /\ Goto(c, "idle")
    /\ UNCHANGED <<up, infos, readers, disk, want, at, seen, next, acked,
                   merge, crashes>>

(* move_to_normal: push the info, rename; a failing rename pops it again.  *)
(* The lock is released when the command returns.                          *)
InsertPublish(c) ==
    /\ pc[c] = "publish"
    /\ infos' = Append(infos, cur[c])
    /\ normal' = [normal EXCEPT ![cur[c]] = raw[cur[c]]]
    /\ raw' = [raw EXCEPT ![cur[c]] = Absent]
    /\ writer' = NoOne
    /\ Goto(c, "done")
    /\ UNCHANGED <<up, readers, old, oldDirs, cur, want, at, seen, next, acked,
                   failed, merge, faults, crashes>>

(* Mutant: the failing INSERT keeps the write lock. *)
InsertPublishFails_KeepsLock(c) ==
    /\ pc[c] = "publish"
    /\ Fail("rename")
    /\ failed' = failed \cup {cur[c]}
    /\ cur' = [cur EXCEPT ![c] = 0]
    /\ Goto(c, "idle")
    /\ UNCHANGED <<up, memory, disk, want, at, seen, next, acked, merge, crashes>>

(* Mutant: the error comes although the directory is already in place. *)
InsertPublishFails_TooLate(c) ==
    /\ pc[c] = "publish"
    /\ Fail("rename")
    /\ normal' = [normal EXCEPT ![cur[c]] = raw[cur[c]]]
    /\ failed' = failed \cup {cur[c]}
    /\ cur' = [cur EXCEPT ![c] = 0]
    /\ writer' = NoOne
    /\ Goto(c, "idle")
    /\ UNCHANGED <<up, infos, readers, old, oldDirs, raw, want, at, seen, next,
                   acked, merge, crashes>>

(* Mutant: the info of the failing INSERT is not popped. *)
InsertPublishFails_NoPop(c) ==
    /\ pc[c] = "publish"
    /\ Fail("rename")
    /\ infos' = Append(infos, cur[c])
    /\ failed' = failed \cup {cur[c]}
    /\ cur' = [cur EXCEPT ![c] = 0]
    /\ writer' = NoOne
    /\ Goto(c, "idle")
    /\ UNCHANGED <<up, readers, disk, want, at, seen, next, acked, merge, crashes>>

InsertPublishFails(c) ==
    /\ pc[c] = "publish"
    /\ Fail("rename")
    /\ failed' = failed \cup {cur[c]}
    /\ cur' = [cur EXCEPT ![c] = 0]
    /\ writer' = NoOne
    /\ Goto(c, "idle")
    /\ UNCHANGED <<up, infos, readers, disk, want, at, seen, next, acked,
                   merge, crashes>>

(* handle_connection sends the answer. *)
InsertAck(c) ==
    /\ pc[c] = "done"
    /\ acked' = acked \cup {cur[c]}
    /\ cur' = [cur EXCEPT ![c] = 0]
    /\ Goto(c, "idle")
    /\ UNCHANGED <<up, memory, disk, want, at, seen, next, failed, merge,
                   faults, crashes>>

-----------------------------------------------------------------------------
(* SELECT: NativeStorage keeps the read lock for the whole scan. *)

SelectIssue(c) ==
    /\ up /\ pc[c] = "idle"
    /\ want' = [want EXCEPT ![c] = acked]
    /\ Goto(c, "select")
    /\ UNCHANGED <<up, memory, disk, cur, at, seen, next, acked, failed, merge,
                   faults, crashes>>

SelectLock(c) ==
    /\ pc[c] = "select"
    /\ writer = NoOne
    /\ readers' = readers \cup {c}
    /\ Goto(c, "scan")
    /\ UNCHANGED <<up, infos, writer, disk, cur, want, at, seen, next, acked,
                   failed, merge, faults, crashes>>

(* The part advance_chunk_metadata turns to when the last one is used up. *)
ScanNext(c) ==
    IF at[c] = 0 THEN (IF infos = <<>> THEN {} ELSE {infos[1]})
    ELSE After(infos, at[c])

SelectRead(c) ==
    /\ pc[c] = "scan"
    /\ \E n \in ScanNext(c) :
          /\ n \in Live
          /\ at' = [at EXCEPT ![c] = n]
          /\ seen' = [seen EXCEPT ![c] = @ \cup {n}]
    /\ UNCHANGED <<up, memory, disk, pc, cur, want, next, acked, failed, merge,
                   faults, crashes>>

(* The command is over: its lock is released and its locals are gone. *)
SelectLeave(c) ==
    /\ readers' = readers \ {c}
    /\ want' = [want EXCEPT ![c] = {}]
    /\ at' = [at EXCEPT ![c] = 0]
    /\ seen' = [seen EXCEPT ![c] = {}]
    /\ Goto(c, "idle")

(* Mutant: the storage is gone and its lock is not. *)
SelectEnd_KeepsLock(c) ==
    /\ pc[c] = "scan"
    /\ ScanNext(c) = {}
    /\ want' = [want EXCEPT ![c] = {}]
    /\ at' = [at EXCEPT ![c] = 0]
    /\ seen' = [seen EXCEPT ![c] = {}]
    /\ Goto(c, "idle")
    /\ UNCHANGED <<up, memory, disk, cur, next, acked, failed, merge, faults,
                   crashes>>

SelectEnd(c) ==
    /\ pc[c] = "scan"
    /\ ScanNext(c) = {}
    /\ SelectLeave(c)
    /\ UNCHANGED <<up, infos, writer, disk, cur, next, acked, failed, merge,
                   faults, crashes>>

(* gen_next_chunk cannot open a column file: the SELECT answers an error. *)
SelectReadFails(c) ==
    /\ pc[c] = "scan"
    /\ \E n \in ScanNext(c) :
          \/ n \notin Live /\ NoFail
          \/ n \in Live /\ Fail("read")
    /\ SelectLeave(c)
    /\ UNCHANGED <<up, infos, writer, disk, cur, next, acked, failed, merge,
                   crashes>>

-----------------------------------------------------------------------------
(* The background merge thread. *)

MergeGoto(where) == mpc' = where

(* The loop starts over, and what it knew of the two parts is gone. *)
MergeRestart ==
    /\ MergeGoto("idle")
    /\ p1' = 0 /\ p2' = 0 /\ merged' = Absent

MergeGate ==
    /\ up /\ mpc = "idle"
    /\ Load < LoadThreshold
    /\ MergeGoto("find")
    /\ UNCHANGED <<up, memory, disk, clients, p1, p2, merged, faults, crashes>>

(* Mutant: any two parts, not the two oldest. *)
Oldest_AnyPair(m, n) ==
    /\ {m, n} \subseteq Members(infos) /\ m # n
    /\ Stamp[m] <= Stamp[n]

(* The two first names of the list sorted by creation time.  For names of  *)
(* the same millisecond cmp_uuid_strs_asc answers Less both ways, so that  *)
(* either may come first.                                                  *)
Oldest(m, n) ==
    /\ {m, n} \subseteq Members(infos) /\ m # n
    /\ Stamp[m] <= Stamp[n]
    /\ \A r \in Members(infos) \ {m, n} : Stamp[n] <= Stamp[r]

(* Mutant: two parts are not enough. *)
MergeFind_OffByOne ==
    /\ mpc = "find" /\ writer = NoOne
    /\ IF Len(infos) > 2
       THEN /\ \E m, n \in Part : Oldest(m, n) /\ p1' = m /\ p2' = n
            /\ MergeGoto("load1")
       ELSE MergeGoto("idle") /\ UNCHANGED <<p1, p2>>
    /\ UNCHANGED <<up, memory, disk, clients, merged, faults, crashes>>

MergeFind ==
    /\ mpc = "find" /\ writer = NoOne
    /\ IF Len(infos) > 1
       THEN /\ \E m, n \in Part : Oldest(m, n) /\ p1' = m /\ p2' = n
            /\ MergeGoto("load1")
       ELSE MergeGoto("idle") /\ UNCHANGED <<p1, p2>>
    /\ UNCHANGED <<up, memory, disk, clients, merged, faults, crashes>>

(* The part being loaded, and the parts whose files that opens. *)
Source == IF mpc = "load1" THEN p1 ELSE p2
Opened == {Source} \cup After(infos, Source)

(* load_part_cols under the read lock, then combine_cols. *)
MergeLoad ==
    /\ mpc \in {"load1", "load2"} /\ writer = NoOne
    /\ Opened \subseteq Live
    /\ ~MergeReadPanics(infos, RowsOf, Source)
    /\ merged' = [covers |-> merged.covers \cup normal[Source].covers,
                  rows |-> merged.rows \o MergeRead(infos, RowsOf, Source)]
    /\ MergeGoto(IF mpc = "load1" THEN "load2" ELSE "save")
    /\ UNCHANGED <<up, memory, disk, clients, p1, p2, faults, crashes>>

MergeLoadFails ==
    /\ mpc \in {"load1", "load2"} /\ writer = NoOne
    /\ \/ ~(Opened \subseteq Live) /\ NoFail
       \/ Opened \subseteq Live /\ Fail("read")
    /\ MergeRestart
    /\ UNCHANGED <<up, memory, disk, clients, crashes>>

(* The panic ends the thread.  Nothing starts it again before a restart. *)
MergeLoadPanics ==
    /\ mpc \in {"load1", "load2"} /\ writer = NoOne
    /\ Opened \subseteq Live
    /\ MergeReadPanics(infos, RowsOf, Source)
    /\ MergeGoto("dead")
    /\ UNCHANGED <<up, memory, disk, clients, p1, p2, merged, faults, crashes>>

(* TablePart::try_new with the name of part 2, and save_raw. *)
MergeSave ==
    /\ mpc = "save"
    /\ \/ /\ raw' = [raw EXCEPT ![p2] = merged]
          /\ MergeGoto("lock") /\ NoFail
          /\ merged' = Absent          \* only raw/<p2> is needed from here on
          /\ UNCHANGED <<p1, p2>>
       \/ /\ Fail("save")
          /\ MergeRestart /\ UNCHANGED raw
    /\ UNCHANGED <<up, memory, normal, old, oldDirs, clients, crashes>>

(* Mutant: the move does not wait for running SELECTs. *)
MergeLock_IgnoresReaders ==
    /\ mpc = "lock"
    /\ writer = NoOne
    /\ writer' = Merger
    /\ MergeGoto("rename1")
    /\ UNCHANGED <<up, infos, readers, disk, clients, p1, p2, merged, faults,
                   crashes>>

(* atomic_part_move holds the write lock from here on. *)
MergeLock ==
    /\ mpc = "lock"
    /\ writer = NoOne /\ readers = {}
    /\ writer' = Merger
    /\ MergeGoto("rename1")
    /\ UNCHANGED <<up, infos, readers, disk, clients, p1, p2, merged, faults,
                   crashes>>

(* rename <n> to <n>.old: refused when <n> is gone or <n>.old is in the way *)
CanShelve(n) == n \in Live /\ n \notin oldDirs

(* Mutant: the part is copied, not moved. *)
Shelve_Copies(n) ==
    /\ old' = [old EXCEPT ![n] = normal[n]]
    /\ oldDirs' = oldDirs \cup {n}
    /\ UNCHANGED normal

Shelve(n) ==
    /\ old' = [old EXCEPT ![n] = normal[n]]
    /\ oldDirs' = oldDirs \cup {n}
    /\ normal' = [normal EXCEPT ![n] = Absent]

MergeRename1 ==
    /\ mpc = "rename1"
    /\ CanShelve(p1) /\ Shelve(p1)
    /\ MergeGoto("rename2")
    /\ UNCHANGED <<up, memory, raw, clients, p1, p2, merged, faults, crashes>>

MergeRename1Fails ==
    /\ mpc = "rename1"
    /\ \/ ~CanShelve(p1) /\ NoFail
       \/ CanShelve(p1) /\ Fail("rename")
    /\ MergeRestart /\ writer' = NoOne
    /\ UNCHANGED <<up, infos, readers, disk, clients, crashes>>

MergeRename2 ==
    /\ mpc = "rename2"
    /\ CanShelve(p2) /\ Shelve(p2)
    /\ MergeGoto("publish")
    /\ UNCHANGED <<up, memory, raw, clients, p1, p2, merged, faults, crashes>>

(* Mutant: the failing rename is not noticed, and clean-up follows. *)
MergeRename2Fails_Ignored ==
    /\ mpc = "rename2"
    /\ \/ ~CanShelve(p2) /\ NoFail
       \/ CanShelve(p2) /\ Fail("rename")
    /\ MergeGoto("remove1")
    /\ UNCHANGED <<up, memory, disk, clients, p1, p2, merged, crashes>>

MergeRename2Fails ==
    /\ mpc = "rename2"
    /\ \/ ~CanShelve(p2) /\ NoFail
       \/ CanShelve(p2) /\ Fail("rename")
    /\ MergeGoto("undo")
    /\ UNCHANGED <<up, memory, disk, clients, p1, p2, merged, crashes>>

(* Rename <p1>.old back.  When that fails too, the part stays shelved. *)
MergeUndo ==
    /\ mpc = "undo"
    /\ \/ /\ normal' = [normal EXCEPT ![p1] = old[p1]]
          /\ old' = [old EXCEPT ![p1] = Absent]
          /\ oldDirs' = oldDirs \ {p1}
          /\ NoFail
       \/ /\ Fail("undo")
          /\ UNCHANGED <<normal, old, oldDirs>>
    /\ MergeRestart /\ writer' = NoOne
    /\ UNCHANGED <<up, infos, readers, raw, clients, crashes>>

(* Vec::retain without one of the names. *)
Forget(s, n) ==
    LET i == Position(s, n)
    IN  IF i = 0 THEN s ELSE SubSeq(s, 1, i - 1) \o SubSeq(s, i + 1, Len(s))

(* Drop both infos, push the new one, rename raw/<p2> to <p2>. *)
MergePublish ==
    /\ mpc = "publish"
    /\ infos' = Append(Forget(Forget(infos, p1), p2), p2)
    /\ normal' = [normal EXCEPT ![p2] = raw[p2]]
    /\ raw' = [raw EXCEPT ![p2] = Absent]
    /\ MergeGoto("remove1")
    /\ UNCHANGED <<up, writer, readers, old, oldDirs, clients, p1, p2, merged,
                   faults, crashes>>

(* Mutant: the failing publication is not noticed, and clean-up follows. *)
MergePublishFails_Ignored ==
    /\ mpc = "publish"
    /\ Fail("publish")
    /\ infos' = Forget(Forget(infos, p1), p2)
    /\ MergeGoto("remove1")
    /\ UNCHANGED <<up, writer, readers, disk, clients, p1, p2, merged, crashes>>

(* move_to_normal fails and pops its info.  The error branch then asks for *)
(* TABLE_DATA.get_mut of the same key while `config` still holds it: the   *)
(* thread waits for itself.  No action leaves "stuck" but a crash.         *)
MergePublishFails ==
    /\ mpc = "publish"
    /\ Fail("publish")
    /\ infos' = Forget(Forget(infos, p1), p2)
    /\ MergeGoto("stuck")
    /\ UNCHANGED <<up, writer, readers, disk, clients, p1, p2, merged, crashes>>

(* remove_dir_all of <n>.old; an error leaves some of its files behind. *)
RemoveOld(n) ==
    \/ /\ old' = [old EXCEPT ![n] = Absent]
       /\ oldDirs' = oldDirs \ {n}
       /\ NoFail
    \/ /\ Fail("remove")
       /\ old' \in {old, [old EXCEPT ![n] = Absent]}
       /\ UNCHANGED oldDirs

MergeRemove1 ==
    /\ mpc = "remove1"
    /\ RemoveOld(p1)
    /\ MergeGoto("remove2")
    /\ UNCHANGED <<up, memory, normal, raw, clients, p1, p2, merged, crashes>>

MergeRemove2 ==
    /\ mpc = "remove2"
    /\ RemoveOld(p2)
    /\ MergeRestart /\ writer' = NoOne
    /\ UNCHANGED <<up, infos, readers, normal, raw, clients, crashes>>

-----------------------------------------------------------------------------
(* The process dies between any two steps.  What it was removing may be    *)
(* half gone.                                                              *)
Crash ==
    /\ up /\ crashes < MaxCrashes
    /\ crashes' = crashes + 1
    /\ up' = FALSE
    /\ infos' = <<>> /\ writer' = NoOne /\ readers' = {}
    /\ pc' = [c \in Client |-> "idle"]
    /\ cur' = [c \in Client |-> 0]
    /\ want' = [c \in Client |-> {}]
    /\ at' = [c \in Client |-> 0]
    /\ seen' = [c \in Client |-> {}]
    /\ MergeRestart
    /\ \/ old' = old
       \/ mpc = "remove1" /\ old' = [old EXCEPT ![p1] = Absent]
       \/ mpc = "remove2" /\ old' = [old EXCEPT ![p2] = Absent]
    /\ UNCHANGED <<normal, oldDirs, raw, next, acked, failed, faults>>

(* Mutant: the `raw` directory, which is no part, is listed as one. *)
Orderings_RawListed(S) ==
    {Append(s, 0) : s \in {f \in [1..Cardinality(S) -> S] :
        \A i, j \in DOMAIN f : f[i] = f[j] => i = j}}

Orderings(S) ==
    {s \in [1..Cardinality(S) -> S] : \A i, j \in DOMAIN s : s[i] = s[j] => i = j}

(* load_existing_parts: directories come in any order, `.old` ones are     *)
(* skipped, `raw` is removed, an unreadable part is skipped with a warning *)
Restart ==
    /\ ~up
    /\ up' = TRUE
    /\ \/ /\ infos' \in Orderings(Live)
          /\ raw' = [n \in Part |-> Absent]
          /\ NoFail
       \/ /\ Fail("cleanup")
          /\ infos' \in Orderings(Live)
          /\ UNCHANGED raw
       \/ /\ Fail("skip")
          /\ \E n \in Live : infos' \in Orderings(Live \ {n})
          /\ raw' = [n \in Part |-> Absent]
    /\ UNCHANGED <<writer, readers, normal, old, oldDirs, clients, merge,
                   crashes>>

-----------------------------------------------------------------------------
Insert(c) ==
    \/ InsertIssue(c) \/ InsertLock(c) \/ InsertSave(c) \/ InsertSaveFails(c)
    \/ InsertPublish(c) \/ InsertPublishFails(c) \/ InsertAck(c)

Select(c) ==
    \/ SelectIssue(c) \/ SelectLock(c) \/ SelectRead(c) \/ SelectEnd(c)
    \/ SelectReadFails(c)

Merge ==
    \/ MergeGate \/ MergeFind \/ MergeLoad \/ MergeLoadFails \/ MergeLoadPanics
    \/ MergeSave \/ MergeLock \/ MergeRename1 \/ MergeRename1Fails
    \/ MergeRename2 \/ MergeRename2Fails \/ MergeUndo \/ MergePublish
    \/ MergePublishFails \/ MergeRemove1 \/ MergeRemove2

Next ==
    \/ \E c \in Client : Insert(c) \/ Select(c)
    \/ Merge
    \/ Crash
    \/ Restart

Spec == Init /\ [][Next]_vars

-----------------------------------------------------------------------------
(* Fairness.  The operating system schedules every thread, and a lock      *)
(* request is granted in the end if the lock is free for it again and      *)
(* again; nothing keeps readers from overlapping for ever.  A thread stays *)
(* where it is until it takes its step, so that one strong fairness per    *)
(* thread says both.  Issuing commands, failing calls, crashes and         *)
(* restarts are never forced.                                              *)

ClientStep(c) ==
    \/ InsertSave(c) \/ InsertSaveFails(c) \/ InsertPublish(c)
    \/ InsertPublishFails(c) \/ InsertAck(c)
    \/ SelectRead(c) \/ SelectEnd(c) \/ SelectReadFails(c)

MergeStep ==
    \/ MergeGate \/ MergeSave \/ MergeRename1 \/ MergeRename1Fails
    \/ MergeRename2 \/ MergeRename2Fails \/ MergeUndo \/ MergePublish
    \/ MergePublishFails \/ MergeRemove1 \/ MergeRemove2

(* The steps that wait for the lock; a thread is at one of them at a time. *)
ClientLock(c) == InsertLock(c) \/ SelectLock(c)
MergeWaits == MergeFind \/ MergeLoad \/ MergeLoadFails \/ MergeLoadPanics
              \/ MergeLock

Fairness ==
    /\ \A c \in Client : SF_vars(ClientStep(c) \/ ClientLock(c))
    /\ SF_vars(MergeStep \/ MergeWaits)

FairSpec == Spec /\ Fairness

-----------------------------------------------------------------------------
(* Properties *)

ClientPC == {"idle", "insert", "save", "publish", "done", "select", "scan"}
MergePC == {"idle", "find", "load1", "load2", "save", "lock", "rename1",
            "rename2", "undo", "publish", "stuck", "remove1", "remove2", "dead"}

(* Every variable stays in its set. *)
TypeOK ==
    /\ up \in BOOLEAN
    /\ infos \in Seq(Part)
    /\ normal \in [Part -> PartDir]
    /\ old \in [Part -> PartDir]
    /\ oldDirs \subseteq Part
    /\ raw \in [Part -> PartDir]
    /\ writer \in Client \cup {NoOne, Merger}
    /\ readers \subseteq Client
    /\ pc \in [Client -> ClientPC]
    /\ cur \in [Client -> Part \cup {0}]
    /\ want \in [Client -> SUBSET Part]
    /\ at \in [Client -> Part \cup {0}]
    /\ seen \in [Client -> SUBSET Part]
    /\ next \in 1..(MaxInserts + 1)
    /\ acked \subseteq Part /\ failed \subseteq Part
    /\ mpc \in MergePC
    /\ p1 \in Part \cup {0} /\ p2 \in Part \cup {0}
    /\ merged \in PartDir
    /\ faults \in 0..MaxFaults /\ crashes \in 0..MaxCrashes

Covered(dirs) == UNION {dirs[n].covers : n \in Part}

(* An acknowledged INSERT always has a complete directory on disk that     *)
(* stands for it, as a part or as a `.old` part, whatever renames fail and *)
(* wherever the process dies: save_raw comes before the first rename, and  *)
(* `.old` is removed only after the merged part is in place.               *)
AckedCovered == acked \subseteq Covered(normal) \cup Covered(old)

(* No two part directories stand for the same INSERT, so that neither a    *)
(* SELECT nor load_existing_parts ever counts it twice: both sources of a  *)
(* merge are out of the way before the merged part gets its name.          *)
EachInsertOnce ==
    \A m, n \in Part : m # n => normal[m].covers \cap normal[n].covers = {}

(* Whenever nobody holds the write lock, the list in memory names exactly  *)
(* the part directories on disk, each once, whichever step failed before:  *)
(* move_to_normal pops its info and atomic_part_move renames back.         *)
MemoryMatchesDisk ==
    up /\ writer = NoOne =>
        /\ Members(infos) = Live
        /\ \A i, j \in DOMAIN infos : infos[i] = infos[j] => i = j

(* An INSERT that answered an error never shows up, neither at once nor    *)
(* through a later merge or a restart that finds its directory.            *)
FailedNeverVisible ==
    \A n \in Part : /\ failed \cap normal[n].covers = {}
                    /\ \A r \in Members(normal[n].rows) : r[1] \notin failed

(* Parts follow each other in the order of their INSERTs: of two parts     *)
(* whose names differ in their millisecond, everything in the earlier one  *)
(* was inserted in an earlier millisecond than everything in the later     *)
(* one.  Merging the two first parts under the name of the second must     *)
(* keep it so, although INSERTs come and go meanwhile and names of one     *)
(* millisecond are taken in any order; ReplacingMergeTree relies on it to  *)
(* tell the newest row.                                                    *)
PartsInAgeOrder ==
    \A m, n \in Live : Stamp[m] < Stamp[n] =>
        \A a \in normal[m].covers, b \in normal[n].covers : Stamp[a] < Stamp[b]

(* A SELECT that comes to its end has read every INSERT acknowledged when  *)
(* it was issued: merges and other INSERTs running meanwhile hide none.    *)
ScanCoversAcked ==
    \A c \in Client : pc[c] = "scan" /\ ScanNext(c) = {} =>
        want[c] \subseteq UNION {normal[n].covers : n \in seen[c]}

(* A shelved directory is emptied only while a part stands for all of it   *)
(* or because it was renamed back.                                         *)
OldRemovedOnlyWhenReplaced ==
    [][\A n \in Part : old[n] # Absent /\ old'[n] = Absent =>
            old[n].covers \subseteq Covered(normal')]_vars

(* Every issued command is answered.  One that never is waits for a merge  *)
(* thread that waits for its own lock (MergePublishFails), or is an INSERT *)
(* kept off by SELECTs that read and overlap for ever: the lock lets       *)
(* readers in while a writer waits.                                        *)
Reading == {c \in readers : pc[c] = "scan"}
CommandsAnswered ==
    \A c \in Client : <>[](pc[c] # "idle") =>
        <>[](mpc = "stuck" \/ (pc[c] = "insert" /\ Reading # {}))

(* The merge thread goes on no more: it died over a part of one granule    *)
(* (MergeLoadPanics), it waits for its own lock, or the directory of a     *)
(* part it needs is shelved, or its place is taken, by a `.old` directory  *)
(* that was not removed or not renamed back.                               *)
MergingEnded ==
    \/ mpc = "dead" /\ \E n \in Live : Len(normal[n].rows) <= Granularity
    \/ mpc = "stuck"
    \/ \E n \in Members(infos) : n \in oldDirs

(* When clients leave the server alone, merging ends with a single part    *)
(* ("When database load is below threshold and two parts exist, merges     *)
(* them into a single part", src/background_merge.rs), unless it ended     *)
(* before in one of the ways above.                                        *)
Quiet == \A c \in Client : pc[c] = "idle"
MergesConverge == <>[]Quiet => <>[](Len(infos) <= 1 \/ MergingEnded)

-----------------------------------------------------------------------------
(* What the repository says and the code does not keep. *)

(* "merges them into a single part": a part holds each row of the INSERTs  *)
(* it stands for, once.                                                    *)
RowsOfInserts(S) == UNION {{<<n, i>> : i \in 1..RowCount[n]} : n \in S}
PartsHoldTheirRows ==
    \A n \in Live : /\ Members(normal[n].rows) = RowsOfInserts(normal[n].covers)
                    /\ Len(normal[n].rows) = Cardinality(Members(normal[n].rows))

(* "Runs indefinitely until the process is terminated": the merge thread.  *)
MergerRuns == mpc # "dead"

(* "Atomically replaces old parts with the merged part": an acknowledged   *)
(* INSERT can be read whenever the table can be.                           *)
AckedVisible ==
    up /\ writer = NoOne =>
        acked \subseteq UNION {normal[n].covers : n \in Members(infos)}

(* "Rolls back on failure": a failing publication ends with the sources    *)
(* back in place.                                                          *)
RollsBack == mpc = "stuck" ~> mpc = "idle"
=============================================================================
