----------------------------- MODULE MCTableScan -----------------------------
(* Small instances of TableScan for TLC. *)
EXTENDS TableScan

(* Up to three parts, in the order of their names or not. *)
Lists == {<<>>, <<1>>, <<1, 2>>, <<2, 1>>, <<1, 2, 3>>}

Plain == [kind |-> "rows", keep |-> {}, filtered |-> FALSE, ordered |-> FALSE,
          limit |-> NoLimit, offset |-> 0, literal |-> FALSE, part |-> 0,
          inner |-> <<>>]

Rows(data) == UNION {Members(data[p]) : p \in DOMAIN data}

(* WHERE keeps everything, or what a comparison on the position keeps. *)
Filters(rows) == {{r \in rows : r[2] > k} : k \in 0..2}
                   \cup {{r \in rows : r[2] = 2}, {r \in rows : r[1] = 1}}

Limits == {NoLimit, 0, 1, 2, 3}

(* usize::MAX of the instance, and what is next to it. *)
Huge == {UsizeMax - 1, UsizeMax}
Offsets == 0..2

Ask(kinds, rows) ==
    {[Plain EXCEPT !.kind = k, !.keep = f, !.filtered = f # rows,
                   !.ordered = o, !.limit = l, !.offset = s] :
        k \in kinds, f \in Filters(rows), o \in BOOLEAN,
        l \in Limits, s \in Offsets}

Nested(n) == [i \in 1..n |-> <<0, i>>]

(* SELECTs over the table's rows, and over a nested SELECT's. *)
AskTable(data) == Ask({"rows", "count"}, Rows(data))
AskNested(data) ==
    IF DOMAIN data # {} THEN {}
    ELSE UNION {{[q EXCEPT !.inner = Nested(n)] :
                    q \in Ask({"nested"}, Members(Nested(n)))} : n \in 0..6}
(* SELECT * FROM (SELECT ...) over two full granules. *)
AskNestedLong(data) ==
    IF DOMAIN data # {} THEN {}
    ELSE {[q EXCEPT !.inner = Nested(4)] : q \in Ask({"nested"}, Members(Nested(4)))}
Loads(data) == {[Plain EXCEPT !.kind = "merge", !.part = p] : p \in DOMAIN data}

AskHuge(data) ==
    {[Plain EXCEPT !.kind = k, !.keep = Rows(data), !.limit = l, !.offset = s] :
        k \in {"rows", "count"}, l \in Huge \cup {2}, s \in Huge \cup {1}}

(* SELECT name, 1 FROM ... *)
AskLiteral(data) ==
    {[Plain EXCEPT !.kind = "rows", !.keep = f, !.filtered = f # Rows(data),
                   !.limit = l, !.offset = s, !.literal = TRUE] :
        f \in Filters(Rows(data)), l \in {NoLimit, 1, 2}, s \in 0..1}

AskAll(data) == AskTable(data) \cup AskHuge(data) \cup AskLiteral(data)
                  \cup AskNested(data) \cup Loads(data)
=============================================================================
