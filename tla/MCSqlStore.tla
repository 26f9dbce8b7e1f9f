----------------------------- MODULE MCSqlStore -----------------------------
(* One tenant's database, in four kinds of behaviour: SQL requests on a     *)
(* table "t" with a unique index on column "a" and one row, and a table "n" *)
(* without a primary key (SqlStore); document requests on a collection of   *)
(* two documents (Collections); ALTER TABLE on a mirrored table             *)
(* (SchemaEvolution); and what a statement goes through before it runs      *)
(* (CompositeKey, Documents, Pipeline, and in MCStatements Guardrail,       *)
(* StatementRewrite, Coercion and FtsRewrite; in MCRequests, RestTables),   *)
(* which are functions: each of their inputs is an initial state of its own *)
(* and takes no step.                                                       *)
EXTENDS SqlStore, CompositeKey, Collections, Pipeline, SchemaEvolution

CONSTANTS c1, c2, sweeper,
          Disputed  \* inputs on which the code and its documentation differ: a subset of
                    \* {"or", "mixed", "lookup", "nested"} and of the flags of MCStatements and MCRequests

VARIABLE query      \* <<"sql">>, <<"documents">>, <<"alter">>, or the input of a rewriting

Auto(q) == [mode |-> "auto", stmts |-> <<q>>]
Serial(q) == [mode |-> "serial", stmts |-> <<q>>]
Block(qs) == [mode |-> "block", stmts |-> qs]

Table(t, keyed) ==
    [op |-> "create_table", t |-> t, cols |-> <<"a">>, keyed |-> keyed, strict |-> keyed,
     json |-> IF keyed THEN {"a"} ELSE {}, components |-> {}]
Index(i, unique) == [op |-> "create_index", t |-> "t", i |-> i, col |-> "a", unique |-> unique]
Insert(pk, v) == [op |-> "insert", t |-> "t", pk |-> pk, row |-> <<v>>]
Append1(v) == [op |-> "append", t |-> "n", row |-> <<v>>]
Update(pk, v) == [op |-> "update", t |-> "t", pks |-> {pk}, col |-> "a", v |-> v]
Delete(pk) == [op |-> "delete", t |-> "t", pks |-> {pk}]
Select == [op |-> "select", t |-> "t"]
View1(drop) == [op |-> "view", name |-> "v", drop |-> drop]

MCSetup == <<Table("t", TRUE), Index(1, TRUE), Insert(1, 5), Table("n", FALSE)>>

DML == {Auto(Insert(1, 9)), Auto(Insert(2, 6)), Auto(Insert(3, 6)), Auto(Append1(7)), Auto(Select),
        Serial(Delete(1)), Serial(Update(1, 6)),
        Block(<<Insert(3, 7), Insert(2, 6)>>), Block(<<Delete(1), Insert(3, 5)>>)}
DDL == {Serial(Index(2, TRUE)), Serial(View1(FALSE)), Serial(View1(TRUE)),
        Serial([op |-> "drop_index", t |-> "t", i |-> 1]),
        Serial([op |-> "add_column", t |-> "t", col |-> "b", default |-> <<8>>, nullable |-> FALSE]),
        Serial([op |-> "add_column", t |-> "t", col |-> "b", default |-> <<>>, nullable |-> FALSE]),
        Serial([op |-> "drop_column", t |-> "t", col |-> "a"]),
        Serial([op |-> "rename_column", t |-> "t", col |-> "b", to |-> "c"]),
        Serial([op |-> "rename_table", t |-> "t", to |-> "u"]),
        Serial([op |-> "drop_table", t |-> "t"])}
MCRequest == DML \cup DDL
-----------------------------------------------------------------------------
Component == {<<0>>, <<0, FF>>, <<1>>, <<FF>>}
Rows == {<<a, b, c>> : a \in Component, b \in Component, c \in {<<0>>, <<1>>}}
Cmp(col, op, val) == [kind |-> "cmp", col |-> col, op |-> op, val |-> val]
KeyAtoms == {Cmp(col, op, v) : col \in 1..2, op \in {"=", "<", "<=", ">", ">="}, v \in Component}
RowAtoms == {[kind |-> "row", op |-> op, vals |-> vs] : op \in {"<", "<=", ">", ">="},
                vs \in {<<v>> : v \in Component} \cup (Component \X Component)}
Other == Cmp(3, "=", <<1>>)
Either == [kind |-> "or", alts |-> <<Cmp(3, "=", <<0>>), Cmp(2, "=", <<1>>)>>]
Where == {<<p, q>> : p \in KeyAtoms, q \in KeyAtoms \cup {Other}} \cup {<<Other, p>> : p \in RowAtoms \cup KeyAtoms}
OrderBy == {<<>>} \cup UNION {[1..n -> [col : 1..3, asc : BOOLEAN]] : n \in 1..2}
Composite == [where : Where, by : {<<>>}] \cup [where : {<<>>}, by : OrderBy]
                \cup IF "or" \in Disputed THEN [where : {<<p, Either>> : p \in KeyAtoms}, by : {<<>>}] ELSE {}

(* The statement that runs answers the statement that was written: the      *)
(* bounds on the surrogate, printed and parsed again, select the rows the   *)
(* predicate selects (rewrite_predicate, row_value_predicate,               *)
(* encode_composite_key), and its order is one the ORDER BY allows.         *)
CompositeAgrees(q) ==
    /\ \A row \in Rows : Selected(q.where, row) = Runs(q.where, row)
    /\ \A r, s \in Rows : Before(q.by, r, s) => ~ Before(rewrite_order_by(q.by), s, r)
-----------------------------------------------------------------------------
Int1(n) == <<"int", n>>
D1 == [a |-> Int1(1), t |-> <<"arr", <<Str("x"), Str("y")>>>>, o |-> <<"obj", [b |-> Int1(1)]>>]
D2 == [a |-> Int1(2), t |-> Str("x"), e |-> Int1(0)]
D4 == [a |-> Str("x"), t |-> <<"arr", <<Str("x"), Str("y")>>>>]
MCInitialDocs == (1 :> D1) @@ (2 :> D2)
MCTextOrder == <<"0", "1", "1.0", "1.5", "2", "true", "x", "y", "z">>

Leaf(f, op, v) == [kind |-> "cmp", path |-> <<f>>, op |-> op, value |-> v]
AllOf(s) == [kind |-> "and", subs |-> s]
Index1(path, unique, expire) ==
    [op |-> "index", path |-> path, multikey |-> FALSE, type |-> "infer", unique |-> unique, ttl |-> expire]
Change(f, how, multi, upsert) == [op |-> "update", filter |-> f, update |-> how, multi |-> multi, upsert |-> upsert, id |-> 3]
Writes1 ==
    {[op |-> "insert", docs |-> <<<<3, D4>>, <<2, D2>>>>],
     Change(Leaf("a", "eq", Int1(2)), [op |-> "set", field |-> "a", value |-> Int1(1)], FALSE, FALSE),
     Change(Leaf("a", "eq", Int1(1)), [op |-> "push", field |-> "t", value |-> Str("z")], TRUE, FALSE),
     Change(Leaf("a", "eq", Int1(3)), [op |-> "inc", field |-> "a", value |-> Int1(1)], FALSE, TRUE),
     [op |-> "delete", filter |-> Leaf("a", "eq", Int1(1)), multi |-> FALSE]}
Schemas1 ==
    {Index1(<<"a">>, TRUE, NoTtl), Index1(<<"t">>, FALSE, NoTtl), Index1(<<"e">>, FALSE, [field |-> "e", seconds |-> 1]),
     [op |-> "compound", fields |-> <<"a", "e">>, col |-> "a+e", unique |-> FALSE], [op |-> "search"]}
        \cup IF "nested" \in Disputed THEN {Index1(<<"o", "b">>, FALSE, NoTtl)} ELSE {}
MCDocRequest == (c1 :> {r \in Writes1 : r.op # "update" \/ ~ r.upsert}) @@ (c2 :> Writes1 \cup Schemas1) @@ (sweeper :> {[op |-> "sweep"]})
MCFindFilter == {Leaf("a", "eq", Int1(1)), Leaf("t", "eq", Str("x")),
                 AllOf(<<Leaf("a", "eq", Int1(2)), Leaf("e", "eq", Int1(0))>>)}
-----------------------------------------------------------------------------
Scalars == {Int1(1), Int1(2), <<"float", 1>>, <<"frac", 1>>, <<"bool", TRUE>>, Str("x"), Str("1")}
Leaves == {Leaf("a", op, v) : op \in {"eq", "ne", "gt", "gte", "lt", "lte"}, v \in Scalars \ {<<"bool", TRUE>>}}
             \cup {Leaf("a", op, <<"arr", <<v, w>>>>) : op \in {"in", "nin"}, v \in Scalars, w \in {Int1(2), Str("y")}}
             \cup {Leaf("a", "exists", <<"bool", b>>) : b \in BOOLEAN} \cup {Leaf("a", "eq", <<"bool", TRUE>>)}
Filters ==
    Leaves \cup {[kind |-> k, subs |-> <<g, h>>] : k \in {"and", "or"}, g \in Leaves, h \in {Leaf("b", "eq", Str("x")), Leaf("a", "lt", Int1(2))}}
           \cup {[kind |-> "not", subs |-> <<g>>] : g \in Leaves}
FilterDocs == {<<>>} \cup [{"a"} -> Scalars] \cup [{"a", "b"} -> {Int1(1), Str("x")}]

(* Which documents a typed index is for: those whose value has its type.    *)
Typed(doc, t) == LET v == Lookup(doc, <<"a">>) IN v = Missing \/ t = "text" \/ value_matches_type(v, t)

(* A filter selects the same documents whether it reads the derived column  *)
(* of an index or the document (to_sql_indexed, to_sql), and $match selects *)
(* them too when it states no negation (to_df_expr).                        *)
FilterAgrees(f, t) ==
    \A doc \in FilterDocs :
        /\ Typed(doc, t) \/ "mixed" \in Disputed =>
              LET row == [doc |-> doc, cols |-> ("a" :> derive_typed_value(doc, <<"a">>, t))]
              IN  (to_sql_indexed(f, row, ("a" :> t)) = "true") = (to_sql(f, doc) = "true")
        /\ f.kind = "cmp" /\ f.op \notin {"ne", "nin"} => to_df_expr(f, doc) = to_sql(f, doc)
-----------------------------------------------------------------------------
D3 == [a |-> Int1(1), t |-> <<"arr", <<Str("x"), Str("x")>>>>, b |-> Str("y")]
PipeDocs == <<<<"1", D1>>, <<"2", D2>>, <<"3", D3>>>>
Stages ==
    {[st |-> "$match", f |-> Leaf("t", "eq", Str("x"))], [st |-> "$match", f |-> Leaf("n", "eq", Str("2"))],
     [st |-> "$sort", field |-> "a", asc |-> FALSE], [st |-> "$limit", n |-> 2], [st |-> "$skip", n |-> 1],
     [st |-> "$group", by |-> <<"t">>, out |-> "n"], [st |-> "$group", by |-> <<"a">>, out |-> "n"],
     [st |-> "$count", by |-> <<>>, out |-> "n"],
     [st |-> "$project", out |-> "b", from |-> "a"], [st |-> "$addFields", out |-> "b", from |-> "t"],
     [st |-> "$unwind", field |-> "t"],
     [st |-> "$lookup", from |-> <<D1, D2>>, local |-> "a", foreign |-> "a", as |-> "c"]}
(* Unwinding twice, joining unwound rows, and cutting rows a join or a      *)
(* grouping has put out of order are what the pipeline does differently.    *)
Differs(p) ==
    \E i, j \in DOMAIN p :
        /\ i < j
        /\ \/ p[i].st = "$unwind" /\ p[j].st \in {"$unwind", "$lookup"}
           \/ p[i].st \in {"$lookup", "$group"} /\ p[j].st \in {"$limit", "$skip"}
Pipelines == {p \in UNION {[1..n -> Stages] : n \in 1..3} : Differs(p) => "lookup" \in Disputed}
-----------------------------------------------------------------------------
S == INSTANCE MCStatements
Q == INSTANCE MCRequests
Rewritings == S!Statements \cup Q!Requests \cup ({"composite"} \X Composite) \cup ({"filter"} \X Filters \X {"number", "bool", "text"}) \cup ({"pipeline"} \X Pipelines)

CollIdle ==
    /\ rows = <<>> /\ types = <<>> /\ sides = {} /\ sideRows = {} /\ mapping = FALSE /\ hits = {}
    /\ ttl = NoTtl /\ ttlTenant = FALSE /\ clock = 0 /\ reqs = [p \in Client |-> NoDocRequest]
    /\ loose = {} /\ docStarted = 0 /\ docFaults = 0
EvoIdle ==
    /\ columns = <<>> /\ catalog = identity(0) /\ stored = <<>> /\ tail = <<>>
    /\ fields = <<>> /\ files = <<>> /\ alters = 0 /\ writes = 0
MCInit ==
    \/ query = <<"sql">> /\ Init /\ CollIdle /\ EvoIdle
    \/ query = <<"documents">> /\ InitOn(<<>>) /\ CollInit /\ EvoIdle
    \/ query = <<"alter">> /\ InitOn(<<>>) /\ CollIdle /\ EvoInit
    \/ query \in Rewritings /\ InitOn(<<>>) /\ CollIdle /\ EvoIdle
MCNext ==
    /\ \/ query = <<"sql">> /\ Next /\ UNCHANGED <<collVars, evoVars>>
       \/ query = <<"documents">> /\ CollNext /\ UNCHANGED <<vars, evoVars>>
       \/ query = <<"alter">> /\ EvoNext /\ UNCHANGED <<vars, collVars>>
    /\ UNCHANGED query
(* Connections are alike: what is asked of them does not depend on which it is. *)
Connections == Permutations(Conn)
MCSpec == MCInit /\ [][MCNext]_<<vars, collVars, evoVars, query>>

(* A statement is rewritten into one that gives its answer: composite keys  *)
(* (rewrite_predicate), filters of documents (to_sql_indexed), aggregation  *)
(* pipelines (apply_pipeline), set operations, joins, NULL order and        *)
(* comparisons with texts (rewrite_set_ops, pushdown_equijoins,             *)
(* rewrite_null_order, coerce_comparisons); and a read that the guardrail   *)
(* lets through is bounded (classify).  A query that goes to the mirror of  *)
(* a table that was altered gives what the table would (ColumnsAligned).    *)
(* A /tables request, and a write with RETURNING, does what its query       *)
(* string, body and statement say and answers with the rows it affected     *)
(* (RequestAgrees, ReturningAgrees).                                        *)
RewriteKeepsAnswer ==
    /\ S!StatementAgrees(query)
    /\ Q!HttpAgrees(query)
    /\ query[1] = "alter" => ColumnsAligned
    /\ query[1] = "composite" => CompositeAgrees(query[2])
    /\ query[1] = "filter" => FilterAgrees(query[2], query[3])
    /\ query[1] = "pipeline" => PipelineAgrees(PipeDocs, query[2], {"_id", "a", "t", "b", "e", "n", "c"})
=============================================================================
