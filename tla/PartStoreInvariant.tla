------------------------- MODULE PartStoreInvariant -------------------------
(***************************************************************************)
(* Why an acknowledged INSERT keeps its directory: the facts about the     *)
(* directories, the lock and the merge thread's position that every step   *)
(* of PartStore preserves.  TLC checks the conjunction on the small        *)
(* instances; PartStore_proofs proves it for all.                          *)
(***************************************************************************)
EXTENDS PartStore

Writing(c) == pc[c] \in {"save", "publish"}
Moving == {"rename1", "rename2", "undo", "publish", "stuck", "remove1", "remove2"}
Chosen == Moving \cup {"load1", "load2", "save", "lock"}

(* Whoever writes holds the write lock, and nothing else does. *)
LockInv ==
    /\ \A c \in Client : Writing(c) => writer = c
    /\ mpc \in Moving <=> writer = Merger
    /\ \A c \in Client : writer = c => Writing(c)
    /\ ~up => writer = NoOne /\ mpc = "idle" /\ \A c \in Client : pc[c] = "idle"

(* Names in use were handed out; a part that exists stands for something   *)
(* and has rows; what a `.old` directory holds makes it not empty.         *)
NameInv ==
    /\ \A n \in Part : normal[n] # Absent => n < next /\ normal[n].rows # <<>>
    /\ \A n \in Part : normal[n].covers \cup old[n].covers \subseteq 1..(next - 1)
    /\ \A n \in Part : old[n] # Absent => n \in oldDirs
    /\ \A n \in Part : normal[n].covers = {} => normal[n] = Absent
    /\ \A n \in Part : old[n] # Absent => old[n].rows # <<>> /\ n < next
                                          /\ old[n].covers # {}
    /\ Members(infos) \subseteq 1..(next - 1)

(* The part an INSERT is writing is new: no directory and no list knows it,*)
(* and the merge thread has not chosen it.                                 *)
FreshInv ==
    \A c \in Client : Writing(c) =>
        /\ cur[c] \in 1..(next - 1)
        /\ cur[c] \in Part
        /\ normal[cur[c]] = Absent
        /\ \A n \in Part : cur[c] \notin normal[n].covers \cup old[n].covers
        /\ cur[c] \notin {p1, p2}
        /\ pc[c] = "publish" => raw[cur[c]] = Fresh(cur[c])

(* What the merge thread holds at each step of a merge. *)
MergeInv ==
    /\ mpc \notin Chosen \cup {"dead"} => merged = Absent /\ p1 = 0 /\ p2 = 0
    /\ mpc \in Chosen => p1 \in Part /\ p2 \in Part /\ p1 # p2
    /\ p1 < next /\ p2 < next
    /\ mpc = "load1" => merged = Absent
    /\ mpc = "load2" => /\ merged.covers = normal[p1].covers
                        /\ merged.covers # {} /\ merged.rows # <<>>
    /\ mpc = "save" => /\ merged.covers = normal[p1].covers \cup normal[p2].covers
                       /\ merged.covers # {} /\ merged.rows # <<>>
    /\ mpc \in {"lock", "rename1"} =>
          raw[p2].covers = normal[p1].covers \cup normal[p2].covers
    /\ mpc = "rename2" => raw[p2].covers = old[p1].covers \cup normal[p2].covers
    /\ mpc \in {"publish", "stuck"} =>
          /\ raw[p2].covers = old[p1].covers \cup old[p2].covers
          /\ normal[p1] = Absent /\ normal[p2] = Absent
    /\ mpc \in {"rename2", "undo"} => normal[p1] = Absent /\ old[p1] # Absent
    /\ mpc \in {"lock", "rename1", "rename2", "publish", "stuck"} =>
          raw[p2].covers # {} /\ raw[p2].rows # <<>>
    /\ mpc = "remove1" =>
          old[p1].covers \cup old[p2].covers \subseteq normal[p2].covers
    /\ mpc = "remove2" => old[p2].covers \subseteq normal[p2].covers

(* Directories on their way from `normal` to the merged part share no      *)
(* INSERT with the parts in place.                                         *)
ApartInv ==
    /\ mpc \in {"rename2", "undo"} =>
          \A n \in Part : old[p1].covers \cap normal[n].covers = {}
    /\ mpc \in {"publish", "stuck"} =>
          \A n \in Part : (old[p1].covers \cup old[p2].covers)
                              \cap normal[n].covers = {}

(* Every INSERT answered with success, or about to be, has a directory. *)
Stands(n) == \E m \in Part : n \in normal[m].covers \cup old[m].covers
PromiseInv ==
    /\ \A n \in acked : Stands(n)
    /\ \A c \in Client : pc[c] = "done" => Stands(cur[c])

IInv ==
    /\ TypeOK /\ LockInv /\ NameInv /\ FreshInv
    /\ MergeInv /\ ApartInv /\ PromiseInv /\ EachInsertOnce
=============================================================================
