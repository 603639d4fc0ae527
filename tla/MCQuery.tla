------------------------------ MODULE MCQuery ------------------------------
(* Small instances of Query for TLC. *)
EXTENDS Query

Num(n) == Value("num", n)       \* literals, before a column types them
Text(n) == Value("str", n)
True == Lit(Value("bool", 1))
False == Lit(Value("bool", 0))

Is(kind) == [kind |-> kind, value |-> Null]
DefaultIs(value) == [kind |-> "default", value |-> value]
Field(name, type, constraints) ==
    [name |-> name, type |-> type, constraints |-> constraints]

Columns == <<Field("k", "int", <<Is("notnull")>>),
             Field("n", "int", <<Is("null")>>),
             Field("s", "str", <<DefaultIs(Text(1)), Is("notnull"), DefaultIs(Text(2))>>)>>
(* NOT NULL, but Null when no value is given.                              *)
NullByDefault ==
    <<Columns[1], Columns[2], Field("s", "str", <<Is("notnull"), DefaultIs(Null)>>)>>

Engine(name) == [key |-> "engine", name |-> name]
Defined(columns, options, order_by, primary_key) ==
    [columns |-> columns, options |-> options, order_by |-> order_by,
     primary_key |-> primary_key]
Define(engine, order_by, primary_key) ==
    Defined(Columns, <<Engine(engine)>>, order_by, primary_key)

IsName(name) == name # "k="

GoodDefinitions ==
    {Defined(Columns, <<>>, <<>>, <<>>), Define("MergeTree", <<"n", "k">>, <<>>),
     Define("ReplacingMergeTree", <<"k", "n">>, <<"k">>),
     Defined(NullByDefault, <<Engine("MergeTree"), Engine("ReplacingMergeTree")>>,
             <<>>, <<"k", "k">>)}
(* The keys are no prefix, repeat or are unknown.                          *)
BadKeys ==
    {Define("ReplacingMergeTree", <<"n", "k">>, <<"k">>),
     Define("MergeTree", <<"k", "k">>, <<>>), Define("MergeTree", <<"z">>, <<"k">>)}
(* No columns; a name, a type, a constraint, a default, an engine or an    *)
(* option that is refused; two columns of a name, two words on NULL.       *)
BadColumns ==
    {<<>>, <<Field("k=", "int", <<>>)>>, <<Field("k", "date", <<>>)>>,
     <<Field("k", "int", <<Is("unique")>>)>>,
     <<Field("k", "int", <<DefaultIs(Text(1)), DefaultIs(Num(1))>>)>>,
     <<Field("k", "int", <<>>), Field("k", "str", <<>>)>>,
     <<Field("k", "int", <<Is("null"), Is("notnull")>>)>>}
BadOptions == {<<Engine("Log")>>, <<[key |-> "comment", name |-> "MergeTree"]>>}

AllDefinitions ==
    GoodDefinitions \cup BadKeys
        \cup {Defined(columns, <<>>, <<>>, <<>>) : columns \in BadColumns}
        \cup {Defined(Columns, options, <<>>, <<>>) : options \in BadOptions}

Given(columns, rows) == [columns |-> columns, rows |-> rows]
All == <<"k", "n", "s">>

(* Rows that repeat the key, repeat both keys, and come in no order.       *)
GoodBatches ==
    {Given(All, <<<<Num(1), Num(2), Text(1)>>, <<Num(2), Num(1), Text(2)>>,
                  <<Num(1), Num(1), Text(2)>>>>),
     Given(All, <<<<Num(2), Num(2), Text(1)>>, <<Num(1), Num(2), Text(1)>>,
                  <<Num(1), Num(2), Text(2)>>>>),
     Given(<<"n", "k">>, <<<<Num(1), Num(2)>>>>)}
NullBatches ==
    {Given(<<"k">>, <<<<Num(1)>>>>),
     Given(<<"k", "n">>, <<<<Num(1), Null>>, <<Num(1), Num(2)>>>>)}
(* No value for k, Null for k, a column twice, a string for a number.      *)
BadBatches ==
    {Given(<<"n">>, <<<<Num(1)>>>>), Given(<<"k">>, <<<<Null>>>>),
     Given(<<"k", "k">>, <<<<Num(1), Num(2)>>>>), Given(<<"k">>, <<<<Text(1)>>>>)}
AllBatches(schema) == GoodBatches \cup NullBatches \cup BadBatches

-----------------------------------------------------------------------------
Item(what, name, alias, fn) == [what |-> what, name |-> name, alias |-> alias, fn |-> fn]
Star == Item("star", "", "", "")
C(name) == Item("col", name, "", "")
Agg(fn, name) == Item("agg", name, "", fn)

Plain(items) ==
    [items |-> items, where |-> Everything, group_by |-> <<>>, having |-> FALSE,
     order_by |-> <<>>, limit |-> NoLimit, offset |-> 0]

(* Every kind of comparison, and constants that decide or do not.          *)
Wheres ==
    {Everything,
     Cmp(Lit(Num(1)), "lt", Col("k")),
     Cmp(Col("n"), "noteq", Lit(Num(1))),
     Cmp(Col("n"), "gteq", Col("k")),
     Or(Cmp(Lit(Num(1)), "gteq", Lit(Num(2))), Cmp(Col("k"), "eq", Lit(Num(2)))),
     Or(Cmp(Col("n"), "eq", Lit(Num(1))), True),
     And(Not(Cmp(Col("s"), "lteq", Lit(Text(1)))), Or(False, Cmp(Col("k"), "lt", Col("n")))),
     And(False, Cmp(Col("z"), "eq", Lit(Num(1))))}
(* An unknown column, a column of the wrong type, no condition.            *)
BadWheres ==
    {Cmp(Col("z"), "eq", Lit(Num(1))), Cmp(Col("s"), "eq", Lit(Num(1))), Col("k")}

Lists == {<<>>, <<<<"k">>>>, <<<<"n", "k">>>>}
Cuts == {<<NoLimit, 0>>, <<1, 0>>, <<2, 1>>}

StarSelects ==
    {[Plain(<<Star>>) EXCEPT !.where = w, !.order_by = o, !.limit = c[1], !.offset = c[2]] :
        w \in Wheres, o \in Lists, c \in Cuts}
(* Every column again, in the schema's order but with other items.         *)
ListedSelects ==
    {[Plain(<<C("k"), C("n")>>) EXCEPT !.where = w, !.order_by = o] :
        w \in {Everything, Cmp(Col("n"), "noteq", Lit(Num(1)))},
        o \in {<<>>, <<<<"*">>>>, <<<<"n">>, <<"k">>>>}}

Groupings == {<<>>, <<"k">>, <<"k", "n">>, <<"*">>}
Aggregates == {<<Agg("count", "n"), Agg("sum", "k")>>, <<Agg("avg", "k"), Agg("max", "n")>>,
               <<Agg("min", "n")>>}
GroupedSelects ==
    {[Plain(columns \o aggregates) EXCEPT !.where = w, !.group_by = g, !.order_by = o] :
        columns \in {<<>>, <<C("k")>>}, aggregates \in Aggregates,
        g \in Groupings, o \in {<<>>, <<<<"k">>>>},
        w \in {Everything, Cmp(Col("k"), "gt", Lit(Num(1)))}}

(* OFFSET at usize::MAX with a LIMIT: the sum overflows, fits with LIMIT 0,*)
(* is not made with ORDER BY, and is made before WHERE is compiled.        *)
HugeOffsets ==
    {[Plain(<<Star>>) EXCEPT !.limit = 1, !.offset = UsizeMax],
     [Plain(<<Star>>) EXCEPT !.limit = 0, !.offset = UsizeMax],
     [Plain(<<Star>>) EXCEPT !.limit = UsizeMax, !.offset = UsizeMax - 2],
     [Plain(<<Star>>) EXCEPT !.limit = 1, !.offset = UsizeMax, !.order_by = <<<<"k">>>>],
     [Plain(<<Star>>) EXCEPT !.limit = 1, !.offset = UsizeMax,
                             !.where = Cmp(Col("z"), "eq", Lit(Num(1)))]}

(* Statements that are refused, fail or panic.                             *)
OddSelects ==
    {Plain(<<Star, C("k")>>), Plain(<<C("z")>>), Plain(<<C("n"), Agg("count", "k")>>),
     Plain(<<Agg("sum", "s")>>),
     [Plain(<<Item("col", "k", "x", "")>>) EXCEPT !.order_by = <<<<"x">>>>],
     [Plain(<<Agg("count", "k")>>) EXCEPT !.order_by = <<<<"*">>>>]}
       \cup {[Plain(<<Star>>) EXCEPT !.where = w] : w \in BadWheres}
       \cup {[Plain(<<C("k")>>) EXCEPT !.where = Cmp(Col("s"), "eq", Lit(Text(2)))]}

AllSelects(schema) ==
    StarSelects \cup ListedSelects \cup GroupedSelects \cup OddSelects \cup HugeOffsets

(* SELECT n, s FROM t WHERE k > 1 LIMIT 1                                  *)
DocumentedSelects(schema) ==
    {[Plain(<<C("n"), C("s")>>) EXCEPT !.where = Cmp(Col("k"), "gt", Lit(Num(1))),
                                       !.limit = 1]}
=============================================================================
