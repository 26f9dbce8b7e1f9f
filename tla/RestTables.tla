----------------------------- MODULE RestTables -----------------------------
(* The rows of a table over HTTP: the query string and the JSON body of a   *)
(* /tables request become a statement with numbered parameters (bluedb-rest,*)
(* rest_sql), and a write answers with the rows it affected, read back      *)
(* afterwards: Prefer: return=representation and RETURNING (lib.rs).        *)
(*                                                                          *)
(* A text is a sequence of pieces, what is between its commas: a word, an   *)
(* empty piece, one that spells null, a truth value or a number, a word as  *)
(* its percent-encoding ("enc"), or a word with an & in it ("and") and its  *)
(* encoding ("amp").  A value is <<"text", text>> or a piece that is not a  *)
(* word.  LIKE patterns have no wildcards.                                  *)
EXTENDS Integers, SequencesExt

CONSTANT JsonPath  \* a path column of a query -> the JSON column it reads

NullV == <<"null", 0>>
Bare == {"null", "bool", "int"}
Operator == {"eq", "neq", "gt", "gte", "lt", "lte", "like", "ilike", "in", "is"}
Reserved == {"select", "order", "limit", "offset"}

json_scalar_to_dsl(v) == IF v[1] = "text" THEN v[2] ELSE <<v>>
render_param(s) == IF Len(s) = 1 /\ s[1][1] \in Bare THEN s[1] ELSE <<"text", s>>
Map1(s, pairs) == [i \in DOMAIN s |-> IF s[i][1] \in DOMAIN pairs THEN <<pairs[s[i][1]], s[i][2]>> ELSE s[i]]
percent_decode(s) == Map1(s, [enc |-> "word", amp |-> "and"])
-----------------------------------------------------------------------------
(* The query string: pairs [key, toks, operand], toks what is before the    *)
(* operand ("not", an operator).  The columns that select asks for are left *)
(* out: an answer has whole rows.                                           *)
split_pairs(q) == \A i \in DOMAIN q : \A j \in DOMAIN q[i].operand : q[i].operand[j][1] # "and"

Unnegated(toks) == IF toks # <<>> /\ toks[1] = "not" THEN Tail(toks) ELSE toks
FilterParses(p) == Len(Unnegated(p.toks)) = 1 /\ Unnegated(p.toks)[1] \in Operator
parse_filter(p) == [col |-> p.key, op |-> Unnegated(p.toks)[1], neg |-> p.toks[1] = "not", value |-> p.operand]

FilterPairs(q) == SelectSeq(q, LAMBDA p : p.key \notin Reserved)
parse_filters(q) == [i \in DOMAIN FilterPairs(q) |-> parse_filter(FilterPairs(q)[i])]
FiltersParse(q) == split_pairs(q) /\ \A i \in DOMAIN q : q[i].key \notin Reserved => FilterParses(q[i])

LastOf(q, key, none) ==
    IF \A i \in DOMAIN q : q[i].key # key THEN none
    ELSE q[CHOOSE i \in DOMAIN q : q[i].key = key /\ \A j \in DOMAIN q : q[j].key = key => j <= i].operand
parse_order(s) == [i \in DOMAIN s |-> [col |-> s[i][2], asc |-> s[i][1] # "desc"]]
Count1(s) == Len(s) = 1 /\ s[1][1] = "int" /\ s[1][2] >= 0
QueryParses(q) == FiltersParse(q) /\ \A i \in DOMAIN q : q[i].key \in {"limit", "offset"} => Count1(q[i].operand)
parse_query(q) ==
    [filters |-> parse_filters(q), order |-> parse_order(LastOf(q, "order", <<>>)),
     limit |-> LastOf(q, "limit", <<NullV>>)[1], offset |-> LastOf(q, "offset", <<NullV>>)[1]]
-----------------------------------------------------------------------------
(* Statements: every value is a parameter, numbered over the statement.     *)
Elements(s) == SelectSeq(s, LAMBDA p : p[1] # "empty")
FilterRenders(f) ==
    CASE f.op = "is" -> Len(f.value) = 1 /\ f.value[1][1] \in {"null", "bool"}
      [] f.op = "in" -> Elements(f.value) # <<>>
      [] OTHER -> TRUE
FilterParams(f) ==
    CASE f.op = "is" -> <<>>
      [] f.op = "in" -> [i \in DOMAIN Elements(f.value) |-> render_param(<<Elements(f.value)[i]>>)]
      [] OTHER -> <<render_param(f.value)>>
ParamsOf(filters) == FlattenSeq([i \in DOMAIN filters |-> FilterParams(filters[i])])
filter_to_sql(f, bound) ==
    [col |-> f.col, op |-> f.op, neg |-> f.neg, value |-> f.value, args |-> [j \in DOMAIN FilterParams(f) |-> bound + j]]
render_where_params(filters, bound) ==
    [i \in DOMAIN filters |-> filter_to_sql(filters[i], bound + Len(ParamsOf(SubSeq(filters, 1, i - 1))))]
Renders(filters) == \A i \in DOMAIN filters : FilterRenders(filters[i])

select_to_sql(rq) ==
    [where |-> render_where_params(rq.filters, 0), order |-> rq.order, limit |-> rq.limit, offset |-> rq.offset, params |-> ParamsOf(rq.filters)]
count_to_sql(rq) == [where |-> render_where_params(rq.filters, 0), params |-> ParamsOf(rq.filters)]
row_statements_with_params(req) ==
    [stmts |-> [i \in DOMAIN req.rows |-> [c \in DOMAIN req.cols |-> (i - 1) * Len(req.cols) + c]],
     params |-> FlattenSeq([i \in DOMAIN req.rows |-> [c \in DOMAIN req.cols |-> render_param(req.rows[i][c])]])]
update_to_sql(req) ==
    [sets |-> [i \in DOMAIN req.sets |-> [col |-> req.sets[i].col, arg |-> i]],
     where |-> render_where_params(req.filters, Len(req.sets)),
     params |-> [i \in DOMAIN req.sets |-> render_param(req.sets[i].value)] \o ParamsOf(req.filters)]
delete_to_sql(req) == [where |-> render_where_params(req.filters, 0), params |-> ParamsOf(req.filters)]
-----------------------------------------------------------------------------
(* What the engine does with a statement.  A query with a JSON path is one  *)
(* for the analytical engine (has_json_path), which knows them.             *)
Field(row, c) == row[IF c \in DOMAIN JsonPath THEN JsonPath[c] ELSE c]
Holds3(op, v, w) ==
    IF NullV \in {v, w} THEN "unknown"
    ELSE IF CASE op = "neq" -> v # w
              [] op = "gt" -> v[2] > w[2]
              [] op = "gte" -> v[2] >= w[2]
              [] op = "lt" -> v[2] < w[2]
              [] op = "lte" -> v[2] <= w[2]
              [] OTHER -> v = w
         THEN "true" ELSE "false"
Not3(neg, t) == IF ~ neg \/ t = "unknown" THEN t ELSE IF t = "true" THEN "false" ELSE "true"
Any3(ts) == IF "true" \in ts THEN "true" ELSE IF "unknown" \in ts THEN "unknown" ELSE "false"
Truth(c, row, params) ==
    IF c.op = "is" THEN IF (Field(row, c.col) = c.value[1]) # c.neg THEN "true" ELSE "false"
    ELSE Not3(c.neg, Any3({Holds3(c.op, Field(row, c.col), params[c.args[i]]) : i \in DOMAIN c.args}))
RowsWhere(rows, where, params) == {r \in rows : \A i \in DOMAIN where : Truth(where[i], r, params) = "true"}

KeyOf(table, row) == [i \in DOMAIN table.key |-> row[table.key[i]]]
Addable(table, rows, new) ==
    /\ \A r \in new : \A i \in DOMAIN table.key : r[table.key[i]] # NullV
    /\ table.key # <<>> => \A r \in new : \A s \in rows \cup new : r # s => KeyOf(table, r) # KeyOf(table, s)
(* A part of the key is never assigned to. *)
Assignable(table, cols) == ToSet(table.key) \cap cols = {}
Set1(row, sets, params) ==
    [c \in DOMAIN row |-> IF \E i \in DOMAIN sets : sets[i].col = c
                          THEN params[sets[CHOOSE i \in DOMAIN sets : sets[i].col = c].arg] ELSE row[c]]

Error == <<"error", 0>>
Failed(table) == [rows |-> table.rows, reply |-> Error]
Before1(order, r, s) ==
    \E i \in DOMAIN order :
        /\ IF order[i].asc THEN Field(r, order[i].col)[2] < Field(s, order[i].col)[2] ELSE Field(s, order[i].col)[2] < Field(r, order[i].col)[2]
        /\ \A j \in 1..(i - 1) : Field(r, order[j].col) = Field(s, order[j].col)
Page(rows, order, limit, offset) ==
    LET all == SetToSortSeq(rows, LAMBDA r, s : Before1(order, r, s))
        from == IF offset = NullV THEN 1 ELSE offset[2] + 1
        upto == IF limit = NullV THEN Len(all) ELSE from + limit[2] - 1
    IN  SubSeq(all, from, IF upto < Len(all) THEN upto ELSE Len(all))
-----------------------------------------------------------------------------
(* POST /tables/{table}: an object, or an array of them in one transaction. *)
InsertBuilds(body) == body # <<>> /\ DOMAIN body[1] # {} /\ \A i \in DOMAIN body : DOMAIN body[1] \subseteq DOMAIN body[i]
build_insert(body) ==
    LET cols == SetToSeq(DOMAIN body[1])
    IN  [cols |-> cols, rows |-> [i \in DOMAIN body |-> [c \in DOMAIN cols |-> json_scalar_to_dsl(body[i][cols[c]])]]]
RowOf(table, cols, stmt, params) ==
    [c \in ToSet(table.cols) |-> IF c \in ToSet(cols) THEN params[stmt[CHOOSE i \in DOMAIN cols : cols[i] = c]] ELSE NullV]
execute_insert(table, req, sql) == {RowOf(table, req.cols, sql.stmts[i], sql.params) : i \in DOMAIN sql.stmts}

Position(cols, c) == CHOOSE i \in DOMAIN cols : cols[i] = c
Plain(col, op, value) == [col |-> col, op |-> op, neg |-> FALSE, value |-> value]
KeyKnown(key, req) == key # <<>> /\ ToSet(key) \subseteq ToSet(req.cols) /\ (Len(req.rows) = 1 \/ Len(key) = 1)
insert_pk_filters(key, req) ==
    IF Len(req.rows) = 1 THEN [i \in DOMAIN key |-> Plain(key[i], "eq", req.rows[1][Position(req.cols, key[i])])]
    ELSE <<Plain(key[1], "in", FlattenSeq([i \in DOMAIN req.rows |-> req.rows[i][Position(req.cols, key[1])]]))>>
read_affected_json(rows, filters) ==
    IF Renders(filters) THEN <<"rows", RowsWhere(rows, render_where_params(filters, 0), ParamsOf(filters))>> ELSE Error

Inserted(table, req, new, repr) ==
    IF ~ Addable(table, table.rows, new) THEN Failed(table)
    ELSE [rows |-> table.rows \cup new,
          reply |-> IF repr /\ KeyKnown(table.key, req) THEN read_affected_json(table.rows \cup new, insert_pk_filters(table.key, req))
                    ELSE <<"count", Len(req.rows)>>]
InsertReq(table, req, repr) == Inserted(table, req, execute_insert(table, req, row_statements_with_params(req)), repr)
insert(table, body, repr) == IF InsertBuilds(body) THEN InsertReq(table, build_insert(body), repr) ELSE Failed(table)
-----------------------------------------------------------------------------
(* PATCH and DELETE: the engine has no JSON paths, and a request without a  *)
(* filter is refused.                                                       *)
Mutates(filters) == filters # <<>> /\ Renders(filters) /\ \A i \in DOMAIN filters : filters[i].col \notin DOMAIN JsonPath
Updated(rows, hit, sql) == (rows \ hit) \cup {Set1(r, sql.sets, sql.params) : r \in hit}
UpdateReq(table, req, sql, repr) ==
    LET hit == RowsWhere(table.rows, sql.where, sql.params)
    IN  [rows |-> Updated(table.rows, hit, sql),
         reply |-> IF repr THEN read_affected_json(Updated(table.rows, hit, sql), req.filters) ELSE <<"count", Cardinality(hit)>>]
Assigned(body) == LET cols == SetToSeq(DOMAIN body) IN [i \in DOMAIN cols |-> [col |-> cols[i], value |-> json_scalar_to_dsl(body[cols[i]])]]
UpdateOf(body, filters) == [sets |-> Assigned(body), filters |-> filters]
update(table, q, body, repr) ==
    IF FiltersParse(q) /\ DOMAIN body # {} /\ Mutates(parse_filters(q)) /\ Assignable(table, DOMAIN body)
    THEN UpdateReq(table, UpdateOf(body, parse_filters(q)), update_to_sql(UpdateOf(body, parse_filters(q))), repr)
    ELSE Failed(table)

DeleteReq(table, filters, sql, repr) ==
    LET hit == RowsWhere(table.rows, sql.where, sql.params)
    IN  [rows |-> table.rows \ hit, reply |-> IF repr THEN read_affected_json(table.rows, filters) ELSE <<"count", Cardinality(hit)>>]
delete_rows(table, q, repr) ==
    IF FiltersParse(q) /\ Mutates(parse_filters(q))
    THEN DeleteReq(table, parse_filters(q), delete_to_sql([filters |-> parse_filters(q)]), repr)
    ELSE Failed(table)
-----------------------------------------------------------------------------
(* GET: the page, and with Prefer: count=exact the range it is of the total.*)
content_range(offset, returned, total) == <<IF returned = 0 THEN NullV ELSE <<"span", offset, offset + returned - 1>>, total>>
Fetched(table, sql) == Page(RowsWhere(table.rows, sql.where, sql.params), sql.order, sql.limit, sql.offset)
count_rows(table, sql) == Cardinality(RowsWhere(table.rows, sql.where, sql.params))
SelectReq(table, rq) ==
    [page |-> Fetched(table, select_to_sql(rq)),
     range |-> content_range(IF rq.offset = NullV THEN 0 ELSE rq.offset[2], Len(Fetched(table, select_to_sql(rq))), count_rows(table, count_to_sql(rq)))]
percent_decode_query(q) == [i \in DOMAIN q |-> [q[i] EXCEPT !.operand = percent_decode(@)]]
SelectOk(q) == QueryParses(q) /\ Renders(parse_filters(q))
select(table, q) == SelectReq(table, parse_query(percent_decode_query(q)))
-----------------------------------------------------------------------------
(* INSERT, UPDATE and DELETE ... RETURNING on /sql.  An expression is a     *)
(* value or <<"param", n>>; items are what is asked back.                   *)
IsParam(e) == e[1] = "param"
ValueOf1(e, params) == IF IsParam(e) THEN params[e[2]] ELSE e
Bound(where, params) == [i \in DOMAIN where |-> ValueOf1(where[i].e, params)]
Tests(where) == [i \in DOMAIN where |-> [col |-> where[i].col, op |-> "eq", neg |-> FALSE, value |-> <<>>, args |-> <<i>>]]
Hit(rows, where, params) == RowsWhere(rows, Tests(where), Bound(where, params))
ColumnsOf(table, st) == IF st.cols = <<>> THEN table.cols ELSE st.cols
NewRow(table, cols, vals, params) ==
    [c \in ToSet(table.cols) |-> IF c \in ToSet(cols) THEN ValueOf1(vals[Position(cols, c)], params) ELSE NullV]
NewRows(table, st, params) == {NewRow(table, ColumnsOf(table, st), st.rows[i], params) : i \in DOMAIN st.rows}
(* The engine's own execution of the statement: the rows after it and those *)
(* it affected.                                                             *)
SetRow(row, st, params) == [c \in DOMAIN row |-> IF c \in DOMAIN st.sets THEN ValueOf1(st.sets[c], params) ELSE row[c]]
WriteOk(table, st, params) ==
    IF st.kind = "insert" THEN Addable(table, table.rows, NewRows(table, st, params)) ELSE Assignable(table, DOMAIN st.sets)
Affected(table, st, params) ==
    CASE st.kind = "insert" -> NewRows(table, st, params)
      [] st.kind = "update" -> {SetRow(r, st, params) : r \in Hit(table.rows, st.where, params)}
      [] OTHER -> Hit(table.rows, st.where, params)
Written(table, st, params) ==
    IF st.kind = "insert" THEN table.rows \cup Affected(table, st, params)
    ELSE (table.rows \ Hit(table.rows, st.where, params)) \cup IF st.kind = "update" THEN Affected(table, st, params) ELSE {}

ItemOk(item) == item[1] \in {"star", "col", "alias"}
ReturnedCols(items) == IF \E i \in DOMAIN items : items[i][1] = "star" THEN {} ELSE {items[i][2] : i \in DOMAIN items}
parse_returning(st) ==
    [kind |-> st.kind, pred |-> st.where, cols |-> ReturnedCols(st.items),
     values |-> IF st.kind = "insert" /\ ~ st.query THEN [cols |-> st.cols, rows |-> st.rows] ELSE [cols |-> <<>>, rows |-> <<>>]]
project_returning(rows, cols) == IF cols = {} THEN rows ELSE {[c \in cols \cap DOMAIN r |-> r[c]] : r \in rows}

(* The predicate that reads the rows of an INSERT back: the key columns and *)
(* where they are in VALUES, or none, which reads every row.                *)
AllRows == [key |-> <<>>, at |-> <<>>]
insert_returning_predicate(key, values) ==
    IF key = <<>> \/ values.rows = <<>> THEN AllRows
    ELSE IF values.cols = <<>> THEN IF Len(key) = 1 THEN [key |-> key, at |-> <<1>>] ELSE AllRows
    ELSE [key |-> key, at |-> [i \in DOMAIN key |-> Position(values.cols, key[i])]]
KeysGiven(key, values) == key # <<>> /\ values.rows # <<>> /\ values.cols # <<>> => ToSet(key) \subseteq ToSet(values.cols)
KeysIn(pred, values) == {[i \in DOMAIN pred.at |-> values.rows[r][pred.at[i]]] : r \in DOMAIN values.rows}

(* The read-back is run without the parameters, and the engine has no IN    *)
(* over tuples.                                                             *)
ReadInserted(rows, pred, values) ==
    IF pred = AllRows THEN <<"rows", rows>>
    ELSE IF Len(pred.key) > 1 \/ \E t \in KeysIn(pred, values) : \E i \in DOMAIN t : IsParam(t[i]) THEN Error
    ELSE <<"rows", {r \in rows : [i \in DOMAIN pred.key |-> r[pred.key[i]]] \in KeysIn(pred, values)}>>
read_returning_rows(table, rows, spec) ==
    IF spec.kind = "insert"
    THEN IF KeysGiven(table.key, spec.values) THEN ReadInserted(rows, insert_returning_predicate(table.key, spec.values), spec.values) ELSE Error
    ELSE IF \E i \in DOMAIN spec.pred : IsParam(spec.pred[i].e) THEN Error
    ELSE <<"rows", Hit(rows, spec.pred, <<>>)>>
Projected(read, cols) == IF read = Error THEN Error ELSE <<"rows", project_returning(read[2], cols)>>
RunReturning(table, st, params, spec, pre) ==
    IF pre = Error \/ ~ WriteOk(table, st, params) THEN Failed(table)
    ELSE [rows |-> Written(table, st, params),
          reply |-> Projected(IF spec.kind = "delete" THEN pre ELSE read_returning_rows(table, Written(table, st, params), spec), spec.cols)]
run_write_returning(table, st, params, spec) ==
    RunReturning(table, st, params, spec, IF spec.kind = "delete" THEN read_returning_rows(table, table.rows, spec) ELSE <<"rows", {}>>)
exec_returning(table, st, params) ==
    IF \A i \in DOMAIN st.items : ItemOk(st.items[i]) THEN run_write_returning(table, st, params, parse_returning(st)) ELSE Failed(table)
-----------------------------------------------------------------------------
(* What the requests mean: the operands decoded, the body as it is.         *)
Meant(q) == [i \in DOMAIN FilterPairs(q) |-> parse_filter([FilterPairs(q)[i] EXCEPT !.operand = percent_decode(@)])]
MeantRows(table, q) == {r \in table.rows : \A i \in DOMAIN Meant(q) : Truth(filter_to_sql(Meant(q)[i], 0), r, FilterParams(Meant(q)[i])) = "true"}
Readable(q) ==
    /\ \A i \in DOMAIN q : IF q[i].key \in {"limit", "offset"} THEN Count1(q[i].operand) ELSE q[i].key \in Reserved \/ FilterParses(q[i])
    /\ Renders(Meant(q))
Complete(table, obj) == [c \in ToSet(table.cols) |-> IF c \in DOMAIN obj THEN obj[c] ELSE NullV]
Body(table, body) == {Complete(table, body[i]) : i \in DOMAIN body}
FilterCols(q) == {FilterPairs(q)[i].key : i \in DOMAIN FilterPairs(q)}
Merged(row, body) == [c \in DOMAIN row |-> IF c \in DOMAIN body THEN body[c] ELSE row[c]]

InsertAgrees(table, body, out, repr) ==
    IF out.reply = Error THEN out.rows = table.rows /\ (InsertBuilds(body) => ~ Addable(table, table.rows, Body(table, body)))
    ELSE /\ out.rows = table.rows \cup Body(table, body)
         /\ out.reply \in {<<"count", Len(body)>>} \cup IF repr THEN {<<"rows", Body(table, body)>>} ELSE {}
(* A PATCH that assigns to a column of its own filter answers with what     *)
(* matches afterwards, as documented.                                       *)
MutationAgrees(table, q, assigned, out, rows, affected, repr) ==
    IF out.reply = Error THEN out.rows = table.rows /\ ~ (Readable(q) /\ Mutates(Meant(q)))
    ELSE /\ out.rows = rows
         /\ FilterCols(q) \cap assigned = {} => out.reply = IF repr THEN <<"rows", affected>> ELSE <<"count", Cardinality(MeantRows(table, q))>>
UpdateAgrees(table, q, body, out, hit, repr) ==
    IF DOMAIN body = {} \/ ~ Assignable(table, DOMAIN body) THEN out = Failed(table)
    ELSE MutationAgrees(table, q, DOMAIN body, out, (table.rows \ hit) \cup {Merged(r, body) : r \in hit}, {Merged(r, body) : r \in hit}, repr)
SelectAgrees(q, out, rows) ==
    /\ \A i \in DOMAIN out.page : out.page[i] \in rows
    /\ out.range[2] = Cardinality(rows)
    /\ out.range[1] # NullV => out.range[1][3] < out.range[2] /\ out.range[1][3] - out.range[1][2] + 1 = Len(out.page)
    /\ \A i, j \in DOMAIN out.page : i < j => ~ Before1(parse_order(LastOf(q, "order", <<>>)), out.page[j], out.page[i])
    /\ LastOf(q, "limit", <<NullV>>) = <<NullV>> /\ LastOf(q, "offset", <<NullV>>) = <<NullV>> => ToSet(out.page) = rows

(* A request over HTTP stores what its body says, mutates and answers the   *)
(* rows its query string names, and fails without having changed anything.  *)
RequestAgrees(table, r) ==
    CASE r.verb = "post" -> InsertAgrees(table, r.body, insert(table, r.body, r.repr), r.repr)
      [] r.verb = "patch" -> UpdateAgrees(table, r.query, r.body, update(table, r.query, r.body, r.repr), MeantRows(table, r.query), r.repr)
      [] r.verb = "delete" -> MutationAgrees(table, r.query, {}, delete_rows(table, r.query, r.repr), table.rows \ MeantRows(table, r.query),
                                             MeantRows(table, r.query), r.repr)
      [] OTHER -> /\ SelectOk(percent_decode_query(r.query)) = Readable(r.query)
                  /\ Readable(r.query) => SelectAgrees(r.query, select(table, r.query), MeantRows(table, r.query))

Label(item) == IF item[1] = "alias" THEN item[3] ELSE item[2]
Labelled(rows, items) ==
    IF \E i \in DOMAIN items : items[i][1] = "star" THEN rows
    ELSE {[x \in {Label(items[i]) : i \in DOMAIN items} |-> r[items[CHOOSE i \in DOMAIN items : Label(items[i]) = x][2]]] : r \in rows}

(* RETURNING gives the rows the statement affected and only those; one that *)
(* fails has written nothing.                                               *)
ReturningAgrees(table, st, params, out) ==
    IF out.reply = Error THEN out.rows = table.rows
    ELSE /\ out.rows = Written(table, st, params)
         /\ st.kind # "update" \/ {st.where[i].col : i \in DOMAIN st.where} \cap DOMAIN st.sets = {}
              => out.reply = <<"rows", Labelled(Affected(table, st, params), st.items)>>
=============================================================================
