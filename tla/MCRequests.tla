----------------------------- MODULE MCRequests -----------------------------
(* The HTTP requests that RestTables is checked on: a table with one key    *)
(* column that is not the first, and one with two.                          *)
EXTENDS Integers, Sequences, FiniteSets, TLC

CONSTANT Disputed   \* inputs on which the code and its documentation differ

T == INSTANCE RestTables WITH JsonPath <- ("d.k" :> "d")
If(flag, S) == IF flag \in Disputed THEN S ELSE {}
-----------------------------------------------------------------------------
W(w) == <<"word", w>>
IntV(n) == <<"int", n>>
TextV(s) == <<"text", s>>
One == TextV(<<W(1)>>)
Two == TextV(<<W(2)>>)
Both == TextV(<<W(1), W(2)>>)        \* a text with a comma in it
Amp == TextV(<<<<"and", 1>>>>)       \* one with an ampersand
Row(n, id, d) == [n |-> n, id |-> id, d |-> d]
OneKey == [key |-> <<"id">>, cols |-> <<"n", "id", "d">>, rows |-> {Row(IntV(1), One, Two), Row(IntV(2), Two, T!NullV), Row(IntV(2), Amp, One)}]
TwoKeys == [key |-> <<"n", "id">>, cols |-> <<"n", "id", "d">>, rows |-> {Row(IntV(1), One, Two), Row(IntV(1), Two, T!NullV)}]
NoKey == [OneKey EXCEPT !.key = <<>>]
Tables1 == {OneKey, TwoKeys} \cup If("every", {NoKey})

Par(key, toks, operand) == [key |-> key, toks |-> toks, operand |-> operand]
Operands ==
    [n |-> {<<IntV(1)>>, <<IntV(1), IntV(2)>>, <<T!NullV>>, <<<<"empty", 0>>>>},
     id |-> {<<W(1)>>, <<W(1), W(2)>>, <<W(2), <<"empty", 0>>>>},
     d |-> {<<W(2)>>, <<T!NullV>>, <<<<"bool", 1>>>>}]
Encoded == {<<<<"enc", 1>>>>, <<<<"amp", 1>>>>}
Ops == [n |-> {"eq", "gt", "gte", "lt", "lte", "in"}, id |-> {"eq", "neq", "in", "like"}, d |-> {"eq", "is", "neq", "has"}]
(* A comparison of numbers has a number. *)
Sensible(op, s) == op \in {"gt", "gte", "lt", "lte"} => Len(s) = 1 /\ s[1][1] \in {"int", "null"}
Pairs ==
    UNION {{Par(c, neg \o <<op>>, s) : neg \in {<<>>, <<"not">>}, op \in Ops[c], s \in Operands[c]} : c \in {"n", "id", "d"}}
      \cup {Par("n", <<"not">>, <<IntV(1)>>), Par("d.k", <<"eq">>, <<W(2)>>), Par("id", <<>>, <<W(1)>>)}
Usable == {p \in Pairs : p.toks # <<>> /\ Sensible(p.toks[Len(p.toks)], p.operand)} \cup {p \in Pairs : p.toks = <<>>}
Queries ==
    {<<p>> : p \in Usable} \cup {<<p, r>> : p \in Usable, r \in {Par("n", <<"in">>, <<IntV(1), IntV(3)>>), Par("limit", <<>>, <<IntV(1)>>)}} \cup {<<>>}
ReadPairs == {Par("id", <<"eq">>, s) : s \in {<<<<"enc", 1>>>>} \cup If("encoded", Encoded)}
Pages ==
    {<<Par("order", <<>>, o), Par("limit", <<>>, <<l>>), Par("offset", <<>>, <<IntV(k)>>)>> :
        o \in {<<<<"asc", "n">>>>, <<<<"desc", "n">>, <<"none", "n">>>>}, l \in {IntV(0), IntV(2), W(1)}, k \in {0, 2}}
MutationPairs == If("encoded", {<<Par("id", <<"eq">>, s)>> : s \in Encoded})

Objects(ids) == {[id |-> i, n |-> IntV(n)] : i \in ids, n \in {1, 3}} \cup {[id |-> i] : i \in ids} \cup {[n |-> IntV(1), d |-> T!NullV]}
Ids == {One, TextV(<<W(3)>>), Both, TextV(<<<<"empty", 0>>>>)}
Longer == {[id |-> TextV(<<W(4)>>), n |-> IntV(4)]}
Bodies ==
    {<<o>> : o \in Objects(Ids)} \cup {<<o, p>> : o \in Objects({TextV(<<W(3)>>)}), p \in Objects({TextV(<<W(4)>>), One})}
      \cup {<<>>, <<<<>>>>}
      \cup If("comma", {<<o, p>> : o \in Objects({Both, TextV(<<<<"empty", 0>>>>)}), p \in Longer})
      \cup If("typed", {<<[id |-> TextV(<<W(3)>>), d |-> TextV(<<T!NullV>>)]>>})
(* A later object may lack no column of the first, and has no other.        *)
Regular(body) == \A i \in DOMAIN body : DOMAIN body[i] \subseteq DOMAIN body[1]
Patches == {<<>>, [d |-> One], [n |-> IntV(5), d |-> T!NullV]}
TablesRequests ==
    [verb : {"post"}, body : {b \in Bodies : Regular(b) \/ "extra" \in Disputed}, query : {<<>>}, repr : BOOLEAN]
      \cup [verb : {"patch"}, body : Patches, query : Queries \cup MutationPairs, repr : BOOLEAN]
      \cup [verb : {"delete"}, body : {<<>>}, query : Queries \cup MutationPairs, repr : BOOLEAN]
      \cup [verb : {"get"}, body : {<<>>}, query : Queries \cup Pages \cup {<<p>> : p \in ReadPairs}, repr : {FALSE}]
-----------------------------------------------------------------------------
(* Statements with RETURNING. *)
Items == {<<<<"star">>>>, <<<<"col", "d">>, <<"col", "id">>>>, <<<<"col", "n">>, <<"expr">>>>} \cup If("alias", {<<<<"alias", "id", "k">>>>})
Stmt(kind, cols, rows, sets, where, items, query) ==
    [kind |-> kind, cols |-> cols, rows |-> rows, sets |-> sets, where |-> where, items |-> items, query |-> query]
Test(col, e) == [col |-> col, e |-> e]
P1 == <<"param", 1>>
MCParams == <<IntV(1)>>
Three == TextV(<<W(3)>>)
ValueRows(n) == {<<<<n, Three, One>>>>, <<<<n, Three, One>>, <<IntV(2), TextV(<<W(4)>>), T!NullV>>>>, <<<<n, One, One>>>>}
Numbers == {IntV(1)} \cup If("params", {P1})
Listed == UNION {{Stmt("insert", <<"n", "id", "d">>, v, <<>>, <<>>, i, FALSE) : v \in ValueRows(n), i \in Items} : n \in Numbers}
Unlisted == {[st EXCEPT !.cols = <<>>] : st \in Listed}
Selecting == {[st EXCEPT !.query = TRUE] : st \in Listed}
Wheres == {<<>>, <<Test("n", IntV(1))>>, <<Test("id", Two), Test("n", IntV(2))>>} \cup If("params", {<<Test("n", P1)>>})
Changes ==
    {Stmt("update", <<>>, <<>>, sets, w, i, FALSE) : sets \in {[d |-> Three], [n |-> IntV(4)]}, w \in Wheres, i \in Items}
      \cup {Stmt("delete", <<>>, <<>>, <<>>, w, i, FALSE) : w \in Wheres, i \in Items}
(* The key first, as an INSERT without columns is taken to have it. *)
KeyFirst == [OneKey EXCEPT !.cols = <<"id", "n", "d">>]
First(st) == [st EXCEPT !.rows = [r \in DOMAIN @ |-> <<@[r][2], @[r][1], @[r][3]>>]]
Returnings ==
    ({OneKey} \X Listed) \cup ({KeyFirst} \X {First(st) : st \in Unlisted}) \cup (Tables1 \X Changes)
      \cup If("position", {OneKey} \X Unlisted) \cup If("tuple", {TwoKeys} \X Listed)
      \cup If("every", ({OneKey, NoKey} \X Selecting) \cup ({TwoKeys} \X Unlisted))
-----------------------------------------------------------------------------
Requests == ({"tables"} \X Tables1 \X TablesRequests) \cup {<<"returning", r[1], r[2]>> : r \in Returnings}

HttpAgrees(q) ==
    CASE q[1] = "tables" -> T!RequestAgrees(q[2], q[3])
      [] q[1] = "returning" -> T!ReturningAgrees(q[2], q[3], MCParams, T!exec_returning(q[2], q[3], MCParams))
      [] OTHER -> TRUE
=============================================================================
