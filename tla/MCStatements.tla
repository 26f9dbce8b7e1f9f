---------------------------- MODULE MCStatements ----------------------------
(* The statements that the passes before execution are checked on:          *)
(* Guardrail, StatementRewrite, Coercion and FtsRewrite.                    *)
EXTENDS Integers, Sequences, FiniteSets

CONSTANTS Null, UNFILTERED_SCAN_CAP,
          Disputed   \* inputs on which the code and its documentation differ

Column == {"id", "a", "b"}
MCTables ==
    [a |-> [cols |-> <<"id", "x">>, rows |-> <<<<1, 1>>, <<2, 2>>>>],
     b |-> [cols |-> <<"id", "y">>, rows |-> <<<<1, 2>>, <<1, 2>>, <<3, 1>>>>],
     c |-> [cols |-> <<"id", "z">>, rows |-> <<<<2, 2>>, <<1, 1>>>>]]
MCSchema ==
    [n |-> <<[name |-> "i", type |-> "int8"], [name |-> "d", type |-> "decimal"], [name |-> "s", type |-> "text"]>>,
     m |-> <<[name |-> "i", type |-> "float"], [name |-> "u", type |-> "uint8"]>>]

G == INSTANCE Guardrail WITH Value <- 1..4
R == INSTANCE StatementRewrite WITH Tables <- MCTables, MAX_COMMA_JOIN_TABLES <- 3
C == INSTANCE Coercion WITH Schema <- MCSchema
MCDocs ==
    {[id |-> 1, words |-> {"u"}, text |-> <<"x", "y", "z">>, st |-> 1, rank |-> 1],
     [id |-> 2, words |-> {"u", "v"}, text |-> <<"z", "X", "y", "z">>, st |-> 2, rank |-> 3],
     [id |-> 3, words |-> {"v", "a"}, text |-> <<"x", "y", "x", "y", "z", "x">>, st |-> 1, rank |-> 2],
     [id |-> 4, words |-> {}, text |-> <<"y">>, st |-> 2, rank |-> 0]}
MCIndexes == [table : {"docs"}, column : {"title"}, kind : {"fulltext"}] \cup [table : {"docs"}, column : {"body"}, kind : {"trigram"}]
F == INSTANCE FtsRewrite WITH Docs <- MCDocs, Indexes <- MCIndexes, UNION_LIMIT <- IF "limit" \in Disputed THEN 1 ELSE 4
If(flag, S) == IF flag \in Disputed THEN S ELSE {}
-----------------------------------------------------------------------------
(* Reads of a table with key id and an index on b. *)
ColE(c) == [k |-> "col", name |-> c]
LitE(v) == [k |-> "lit", v |-> v]
Nest(e) == [k |-> "nested", e |-> e]
IsNullE(e) == [k |-> "isnull", e |-> e]
Bin(op, l, r) == [k |-> "bin", op |-> op, l |-> l, r |-> r]
Spread(e, neg) == [k |-> "between", e |-> e, lo |-> LitE(2), hi |-> LitE(3), neg |-> neg]
Listed(e, neg) == [k |-> "in", e |-> e, list |-> <<LitE(2), LitE(3)>>, neg |-> neg]
Within(e, sub, neg) == [k |-> "insub", e |-> e, sub |-> sub, neg |-> neg]
SelectE(t, where, by, limit) ==
    [body |-> "select", table |-> t, joins |-> FALSE, where |-> where, by |-> by, limit |-> limit, offset |-> 0, whole |-> FALSE]

Sides == {SelectE("s", w, <<>>, G!None) : w \in {G!None, Bin("=", ColE("b"), LitE(3)), Bin("=", ColE("a"), LitE(3))}}
            \cup {SelectE("t", Bin("=", ColE("b"), LitE(3)), <<>>, LitE(1))}
Plain == {Bin(op, ColE(c), LitE(3)) : op \in {"=", "<", ">="}, c \in Column} \cup {Bin("<", LitE(2), ColE("a"))}
            \cup {Spread(ColE(c), FALSE) : c \in {"a", "b"}} \cup {Listed(ColE(c), FALSE) : c \in {"id", "a"}}
Odd == {Bin("<>", ColE("id"), LitE(3)), Bin("=", ColE("id"), ColE("a")), Bin("=", ColE("a"), ColE("b")),
        [k |-> "like", e |-> ColE("id")], IsNullE(ColE("b")), Spread(ColE("id"), TRUE), Listed(ColE("id"), TRUE),
        Listed(ColE("a"), TRUE), Within(ColE("b"), SelectE("s", Bin("=", ColE("b"), LitE(3)), <<>>, G!None), FALSE)}
          \cup {Within(ColE("id"), sub, n) : sub \in Sides, n \in BOOLEAN}
          \cup If("computed", {Bin("=", ColE("id"), [k |-> "plus", e |-> ColE("a"), n |-> 1]), Bin("=", IsNullE(ColE("b")), LitE(1))})
Clauses == Plain \cup Odd \cup {Bin(op, Nest(e), f) : op \in {"and", "or"}, e \in Plain, f \in Odd}
              \cup {Nest(Bin("and", e, f)) : e \in Plain, f \in Plain}
Sorts == {<<>>, <<IsNullE(ColE("b")), ColE("b")>>, <<ColE("id"), ColE("a")>>}
GuardSchemas == [t |-> [pk |-> {"id"}, indexes |-> {"b"}], s |-> [pk |-> {}, indexes |-> {"b"}]]
Reads ==
    {SelectE("t", w, by, G!None) : w \in Clauses, by \in Sorts}
      \cup {[SelectE("t", G!None, by, l) EXCEPT !.offset = o, !.whole = h] :
              by \in Sorts, l \in {G!None, LitE(0), LitE(1), LitE(2)}, o \in {0} \cup If("offset", {1}), h \in {FALSE} \cup If("whole", {TRUE})}
      \cup {[SelectE("t", w, <<>>, G!None) EXCEPT !.joins = TRUE] : w \in Odd}
(* A conjunction of what an index serves: the advice is about those. *)
Servable(e) == e \in Plain \/ \E f, g \in Plain : e = Nest(Bin("and", f, g))
GuardAgrees(st) ==
    /\ G!ReadsBounded(GuardSchemas, st)
    /\ st.where = G!None \/ Servable(st.where) \/ "advice" \in Disputed => G!AdviceHelps(GuardSchemas, st)
-----------------------------------------------------------------------------
(* Set operations, one or two deep. *)
Branch(cols, rows) == [kind |-> "select", cols |-> cols, rows |-> rows]
Branches == {Branch(<<"a">>, rows) : rows \in {<<>>, <<<<1>>>>, <<<<1>>, <<1>>>>, <<<<2>>, <<1>>>>}}
               \cup {Branch(<<"*">>, <<<<1>>>>), Branch(<<"a", "b">>, <<<<1, 2>>, <<1, 2>>>>)}
Operation(op, all, l, r) == [kind |-> "op", op |-> op, all |-> all, left |-> l, right |-> r]
Operations == {Operation(op, all, l, r) : op \in {"union", "intersect", "except"}, all \in BOOLEAN, l \in Branches, r \in Branches}
Chains == {Operation(op, all, l, r) : op \in {"union", "intersect", "except"}, all \in BOOLEAN, l \in Operations,
                                      r \in {Branch(<<"a">>, <<<<1>>>>), Branch(<<"a">>, <<<<2>>, <<1>>>>)}}
(* A UNION with an empty branch, and INTERSECT ALL and EXCEPT ALL, are what  *)
(* the rewriting does differently.                                          *)
Flags(b) == IF b.op = "union" THEN IF <<>> \in {R!Standard(b.left), R!Standard(b.right)} THEN {"empty"} ELSE {}
            ELSE IF b.all THEN {"all"} ELSE {}
SetQueries == {b \in Operations : Flags(b) \subseteq Disputed} \cup {b \in Chains : Flags(b) \cup Flags(b.left) \subseteq Disputed}
-----------------------------------------------------------------------------
(* Joins of up to three tables, in any of the ways to write them. *)
Rel(t) == [table |-> t, as |-> ""]
Alias(t, as) == [table |-> t, as |-> as]
Ref(qual, col) == [q |-> qual, col |-> col]
Join(rel, outer, on, using) == [rel |-> rel, outer |-> outer, on |-> on, using |-> using]
Item(rel, joins) == [rel |-> rel, joins |-> joins]
SameId(l, r) == R!Equal(Ref(l, "id"), Ref(r, "id"))
Using(t, outer) == Join(Rel(t), outer, <<>>, <<"id">>)
Froms ==
    {<<Item(Rel("a"), <<>>), Item(Rel("b"), <<>>)>>,
     <<Item(Rel("a"), <<>>), Item(Rel("b"), <<>>), Item(Rel("c"), <<>>)>>,
     <<Item(Rel("a"), <<>>), Item(Rel("b"), <<>>), Item(Rel("c"), <<>>), Item(Alias("a", "d"), <<>>)>>,
     <<Item(Rel("c"), <<>>), Item(Rel("a"), <<Join(Rel("b"), TRUE, <<SameId("a", "b")>>, <<>>)>>)>>,
     <<Item(Rel("a"), <<Using("b", TRUE)>>), Item(Rel("c"), <<>>)>>,
     <<Item(Rel("a"), <<Using("b", FALSE), Using("c", TRUE)>>)>>,
     <<Item(Rel("a"), <<>>), Item(Rel("b"), <<>>), Item(Alias("a", "c"), <<>>)>>,
     <<Item(Alias("a", "c"), <<>>), Item(Rel("b"), <<>>), Item(Rel("a"), <<>>)>>}
      \cup If("using", {<<Item(Rel("a"), <<Using("b", TRUE), Using("c", TRUE)>>)>>})
      \cup If("cross", {<<Item(Rel("a"), <<Join(Rel("b"), FALSE, <<>>, <<>>)>>)>>})
Conjuncts == {R!Equal(Ref("a", "x"), Ref("b", "y")), SameId("b", "a"), R!Equal(Ref("", "y"), [lit |-> 2]),
              SameId("c", "a"), SameId("b", "c"), R!Equal(Ref("c", "id"), Ref("", "y"))}
Names(from) == UNION {{R!table_ident(R!Relations(from[i])[k]) : k \in DOMAIN R!Relations(from[i])} : i \in DOMAIN from}
JoinQueries ==
    {j \in [from : Froms, where : {<<>>} \cup {<<c>> : c \in Conjuncts} \cup (Conjuncts \X Conjuncts)] :
        \A i \in DOMAIN j.where : \A e \in {j.where[i].l, j.where[i].r} : "q" \in DOMAIN e => e.q \in {""} \cup Names(j.from)}
-----------------------------------------------------------------------------
(* Orders with and without NULLS FIRST or LAST. *)
Placement == {"first", "last", "none"}
SortKeys == [col : 1..2, isnull : {FALSE}, asc : BOOLEAN, nulls : Placement]
Orders == ({<<k>> : k \in SortKeys} \cup (SortKeys \X SortKeys)) \X Placement
-----------------------------------------------------------------------------
(* Comparisons of columns, numbers and texts; writes of numbers. *)
TextV(form, n) == [t |-> "text", form |-> form, n |-> n]
NumV(t, n) == [t |-> t, n |-> n]
Val(v) == [k |-> "val", v |-> v]
RefE(q, col) == [k |-> "ref", q |-> q, col |-> col]
Cmp2(op, l, r) == [k |-> "cmp", op |-> op, l |-> l, r |-> r]
Texts == {TextV("int", 2), TextV("int", 256), TextV("frac", 3), TextV("exp", 2), TextV("word", 0)} \cup If("digits", {TextV("long", 2)})
OneTable == <<Alias("n", "")>>
TwoTables == <<Alias("n", ""), Alias("m", "t")>>
Comparisons(refs) ==
    {Cmp2(op, RefE(r[1], r[2]), Nest(Val(v))) : op \in {"=", "<>", "<", ">="}, r \in refs, v \in Texts}
      \cup {Nest(Cmp2("<", Val(v), RefE(r[1], r[2]))) : r \in refs, v \in Texts}
      \cup {[k |-> "and", l |-> Cmp2("=", Val(NumV("int", 2)), Val(v)), r |-> Cmp2("=", RefE("n", "s"), Val(w))] : v \in Texts, w \in {NumV("int", 2), TextV("int", 2)}}
Always == Cmp2("=", Val(NumV("int", 2)), Val(NumV("int", 2)))
Writing(kind, cols, vals, where) == [kind |-> kind, tables |-> <<Alias("n", "")>>, cols |-> cols, vals |-> vals, where |-> where]
Coerced ==
    {[kind |-> "select", tables |-> OneTable, where |-> w, cols |-> <<>>, vals |-> <<>>] :
        w \in Comparisons({<<"", "i">>, <<"n", "d">>, <<"", "s">>})}
      \cup {[kind |-> "select", tables |-> TwoTables, where |-> w, cols |-> <<>>, vals |-> <<>>] :
              w \in Comparisons({<<"n", "i">>, <<"t", "i">>, <<"", "u">>})}
      \cup {Writing("insert", cols, <<v, w>>, Always) : cols \in {<<>>, <<"d", "i">>}, v \in [t : C!Numeric, n : {2}], w \in [t : C!Numeric, n : {2}]}
      \cup {Writing("update", <<"d">>, <<v>>, Always) : v \in [t : C!Numeric, n : {2}]}
      \cup If("dml", {Writing(kind, <<>>, <<>>, w) : kind \in {"update", "delete"}, w \in Comparisons({<<"", "i">>})})
-----------------------------------------------------------------------------
(* Full-text predicates and LIKE, alone and beside others. *)
Lex(w, neg, weight) == [w |-> w, neg |-> neg, weight |-> weight]
And1 == [op |-> "&"]
Or1 == [op |-> "|"]
U == Lex("u", FALSE, "")
V == Lex("v", FALSE, "")
TextE(v) == LitE([text |-> v])
Fn(name, args) == [k |-> "fn", name |-> name, args |-> args]
AtAt(col, fn, arg) == Bin("atat", Fn("to_tsvector", <<TextE("english"), ColE(col)>>), Fn(fn, <<arg>>))
TsTexts ==
    [plainto_tsquery |-> {<<U>>, <<U, V>>, <<U, And1, Lex("v", TRUE, "")>>, <<Lex("v", FALSE, "a")>>, <<Lex("w", FALSE, "")>>},
     to_tsquery |-> {<<U, And1, V>>, <<U, Or1, V>>, <<U, And1, Lex("v", TRUE, "")>>, <<U, And1, V, Or1, Lex("a", FALSE, "A")>>}
                       \cup If("negative", {<<Lex("v", TRUE, "")>>}),
     websearch_to_tsquery |-> {<<U>>, <<U, Or1, V>>, <<U, Lex("v", TRUE, "")>>} \cup If("websearch", {<<U, V>>})]
MCParams == <<[text |-> <<V>>], [num |-> 1]>>
Matches == UNION {{AtAt("title", fn, TextE(text)) : text \in TsTexts[fn]} : fn \in DOMAIN TsTexts}
              \cup {AtAt("title", "plainto_tsquery", [k |-> "param", n |-> n]) : n \in 0..3}
              \cup {AtAt("body", "plainto_tsquery", TextE(<<U>>)), AtAt("title", "phraseto_tsquery", TextE(<<U>>)), Bin("atat", ColE("title"), ColE("body"))}
LikeE(pattern, neg) == [k |-> "like", e |-> ColE("body"), pattern |-> TextE(pattern), neg |-> neg]
Patterns == {<<"%", "x", "y", "z", "%">>, <<"x", "y", "z">>, <<"x", "y", "x", "%">>, <<"%", "z", "x">>, <<"%", "y", "x", "y", "z", "%">>,
             <<"%", "y", "%">>, <<"%", "x", "_", "z">>, <<"%", "%", "x", "y", "z">>, <<"%", "z", "z", "z", "%">>, <<"%", "X", "y", "z">>}
Likes == {LikeE(p, neg) : p \in Patterns, neg \in BOOLEAN}
Status == Bin("=", ColE("st"), LitE([num |-> 1]))
Is(e, b) == Bin("is", Nest(e), LitE([bool |-> b]))
(* A LIKE that need not hold for the whole to hold is what the rewriting    *)
(* does differently.                                                        *)
Searches ==
    Matches \cup Likes \cup {Bin(op, m, Status) : op \in {"and", "or"}, m \in Matches} \cup {Bin("and", Status, Nest(m)) : m \in Matches \cup Likes}
      \cup {Is(m, b) : m \in Matches, b \in BOOLEAN} \cup {[k |-> "not", e |-> m] : m \in Matches \cup Likes}
      \cup {Bin(op, m, l) : op \in {"and", "or"}, m \in Matches, l \in Likes} \cup {Bin("and", l, m) : l \in Likes, m \in Likes}
      \cup If("like", {Bin("or", l, Status) : l \in Likes} \cup {Is(l, FALSE) : l \in Likes})
FtsBy == {<<>>, <<[rank |-> TRUE, asc |-> FALSE]>>} \cup If("rank", {<<[rank |-> TRUE, asc |-> TRUE]>>})
FtsQueries ==
    [kind : {"query"}, body : {"select"}, tables : {<<"docs">>}, where : Searches, by : FtsBy]
      \cup [kind : {"query"}, body : {"select", "set"}, tables : {<<"docs", "docs">>}, where : Matches \cup Likes, by : {<<>>}]
(* What the lists of keys are for: the statement is still served by an      *)
(* index, also when the list is empty (never_match).                        *)
FtsServed(st) ==
    LET out == F!rewrite_for(st, MCParams)
    IN  out \notin {F!No, F!Rejected} /\ st.where \in Matches \cup Likes => G!where_hits_index(GuardSchemas, [pk |-> {"id"}, indexes |-> {}], out.where)
-----------------------------------------------------------------------------
Statements == ({"read"} \X Reads) \cup ({"set"} \X SetQueries) \cup ({"join"} \X JoinQueries)
                 \cup ({"order"} \X Orders) \cup ({"coerce"} \X Coerced) \cup ({"fts"} \X FtsQueries)

StatementAgrees(q) ==
    CASE q[1] = "read" -> GuardAgrees(q[2])
      [] q[1] = "set" -> R!SetOpsAgree(q[2])
      [] q[1] = "join" -> R!JoinsAgree(q[2])
      [] q[1] = "order" -> R!NullsPlaced(q[2][1], q[2][2], [1..2 -> {Null, 1, 2}])
      [] q[1] = "coerce" -> C!CoercionAgrees(q[2])
      [] q[1] = "fts" -> F!FtsAgrees(q[2], MCParams) /\ FtsServed(q[2])
      [] OTHER -> TRUE
=============================================================================
