------------------------------ MODULE Engines ------------------------------
(***************************************************************************)
(* The table engines: order_columns of MergeTreeEngine and of              *)
(* ReplacingMergeTreeEngine (src/src/engines).  They order the rows of     *)
(* INSERTs and merges, and MergeTree orders every SELECT's answer.         *)
(* Data comes as columns: a sequence of equally long sequences of values.  *)
(* Keys are the positions of the columns to order by.                      *)
(***************************************************************************)
EXTENDS Values, Scans

RowCount(cols) == Len(cols[1])
RowAt(cols, i) == [c \in DOMAIN cols |-> cols[c][i]]

SameUpTo(a, b, keys, k) == \A j \in 1..(k - 1) : a[keys[j]] = b[keys[j]]
Below(a, b, keys) ==
    \E k \in DOMAIN keys : SameUpTo(a, b, keys, k) /\ Precedes(a[keys[k]], b[keys[k]])
SameKey(a, b, keys) == SameUpTo(a, b, keys, Len(keys) + 1)

(* partial_cmp(...).expect(...): rows that agree up to a column of which   *)
(* they hold values of different types, that is Null and something else,   *)
(* cannot be ordered without comparing two such values.                    *)
OrderPanics(cols, keys) ==
    \E i, j \in 1..RowCount(cols), k \in DOMAIN keys :
        LET a == RowAt(cols, i)  b == RowAt(cols, j)
        IN  SameUpTo(a, b, keys, k) /\ ~Comparable(a[keys[k]], b[keys[k]])

(* Every order of the rows that is sorted: what sort_unstable_by may       *)
(* answer.  An order says which row comes first, second, ...               *)
Orders(n) == {p \in [1..n -> 1..n] : \A x \in 1..n : \E i \in 1..n : p[i] = x}
SortedOrders(cols, keys) ==
    {p \in Orders(RowCount(cols)) :
        \A i, j \in DOMAIN p : i < j =>
            ~Below(RowAt(cols, p[j]), RowAt(cols, p[i]), keys)}

(* The one order among them that sort_by, which is stable, answers.        *)
StableOrder(cols, keys) ==
    CHOOSE p \in SortedOrders(cols, keys) :
        \A i, j \in DOMAIN p :
            /\ i < j
            /\ SameKey(RowAt(cols, p[i]), RowAt(cols, p[j]), keys)
            => p[i] < p[j]

(***************************************************************************)
(* apply_permutation_in_place: follow each cycle of the order and swap     *)
(* every element with the one that belongs in its place.                   *)
(***************************************************************************)
(* Mutant: the element is copied, not swapped. *)
Swapped_Copied(data, i, j) == [data EXCEPT ![i] = data[j]]

Swapped(data, i, j) == [data EXCEPT ![i] = data[j], ![j] = data[i]]

(* One turn of the inner loop, which ends where the cycle began.           *)
Followed(state, order, start) ==
    LET next == order[state.current]
    IN  IF next = start THEN state
        ELSE [data |-> Swapped(state.data, state.current, next),
              visited |-> state.visited \cup {state.current}, current |-> next]

(* A cycle is no longer than the data: turns beyond its end change nothing.*)
FollowCycle(state, order, start) ==
    LET after[turns \in 0..Len(state.data)] ==
            IF turns = 0 THEN [state EXCEPT !.current = start]
            ELSE Followed(after[turns - 1], order, start)
        end == after[Len(state.data)]
    IN  [end EXCEPT !.visited = @ \cup {end.current}]

StartCycle(state, order, start) ==
    IF start \in state.visited THEN state ELSE FollowCycle(state, order, start)

ApplyPermutation(data, order) ==
    LET after[start \in 0..Len(data)] ==
            IF start = 0 THEN [data |-> data, visited |-> {}, current |-> 0]
            ELSE StartCycle(after[start - 1], order, start)
    IN  after[Len(data)].data

MergeTreeResults(cols, keys) ==
    {[c \in DOMAIN cols |-> ApplyPermutation(cols[c], p)] :
        p \in SortedOrders(cols, keys)}

(***************************************************************************)
(* ReplacingMergeTree: order the rows, then keep the last of each run of   *)
(* neighbours that agree on the primary key (reverse, dedup_by, reverse).  *)
(***************************************************************************)
LastOfRuns(cols, p, primary) ==
    {i \in DOMAIN p : i < Len(p) =>
        ~SameKey(RowAt(cols, p[i]), RowAt(cols, p[i + 1]), primary)}

ReplacingResult(cols, keys, primary) ==
    LET p == StableOrder(cols, keys)
        last == Filtered([i \in DOMAIN p |-> i], LastOfRuns(cols, p, primary))
    IN  [c \in DOMAIN cols |-> [i \in DOMAIN last |-> cols[c][p[last[i]]]]]

(* What a table with the given engine stores of the given columns.         *)
StoreResults(engine, cols, keys, primary) ==
    IF engine = "MergeTree" THEN MergeTreeResults(cols, keys)
    ELSE {ReplacingResult(cols, keys, primary)}
=============================================================================
