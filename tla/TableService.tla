---------------------------- MODULE TableService ----------------------------
(***************************************************************************)
(* What a table promises its clients while the process runs: an INSERT     *)
(* takes effect at one instant between its call and its answer or never    *)
(* does, and a SELECT answers from the rows of one such instant.  Parts,   *)
(* locks and merging do not exist here.                                    *)
(***************************************************************************)
CONSTANTS Client, Batch      \* a batch is the rows of one INSERT

VARIABLES
    batches,    \* what a SELECT taken now would return
    call,       \* where each client's command stands
    result      \* the batches a running SELECT will return

serviceVars == <<batches, call, result>>

Init ==
    /\ batches = {}
    /\ call = [c \in Client |-> "idle"]
    /\ result = [c \in Client |-> {}]

Step(c, from, to) ==
    /\ call[c] = from
    /\ call' = [call EXCEPT ![c] = to]

Call(c) == /\ Step(c, "idle", "insert") \/ Step(c, "idle", "select")
           /\ UNCHANGED <<batches, result>>

TakeEffect(c) ==
    /\ Step(c, "insert", "done")
    /\ \E b \in Batch \ batches : batches' = batches \cup {b}
    /\ UNCHANGED result

Refuse(c) == Step(c, "insert", "idle") /\ UNCHANGED <<batches, result>>

Confirm(c) == Step(c, "done", "idle") /\ UNCHANGED <<batches, result>>

Snapshot(c) ==
    /\ Step(c, "select", "scan")
    /\ result' = [result EXCEPT ![c] = batches]
    /\ UNCHANGED batches

Answer(c) ==
    /\ Step(c, "scan", "idle")
    /\ result' = [result EXCEPT ![c] = {}]
    /\ UNCHANGED batches

Next == \E c \in Client : \/ Call(c) \/ TakeEffect(c) \/ Refuse(c)
                          \/ Confirm(c) \/ Snapshot(c) \/ Answer(c)

Spec == Init /\ [][Next]_serviceVars
=============================================================================
