------------------------------ MODULE Guardrail ------------------------------
(***************************************************************************)
(* The guardrail of the planner (crates/bluedb-sql/src/guardrail.rs and    *)
(* Planner::plan in storage.rs): a read of one table is served by the      *)
(* primary key or an index, cut to a prefix, or refused with the index     *)
(* that would serve it.                                                    *)
(*                                                                         *)
(* An expression is a record with a kind k:                                *)
(*   "col" name, "lit" v, "nested" e, "isnull" e, "plus" e (e and a        *)
(*   number), "like" e, "bin" op l r, "between" e lo hi neg,               *)
(*   "in" e list neg, "insub" e sub neg.                                   *)
(* A statement is [body, table, joins, where, by, limit, offset, whole]:   *)
(* where is an expression or None, by a sequence of expressions, limit a   *)
(* number or None, whole says that its select list aggregates the table.   *)
(* A schema is [pk, indexes], sets of columns.                             *)
(***************************************************************************)
EXTENDS Integers, Sequences, FiniteSets, SequencesExt, TLC

CONSTANTS
    Value, Column,       \* the values and the columns of the table that is read
    Null,                \* SQL's NULL
    UNFILTERED_SCAN_CAP  \* rows a statement without WHERE may read

None == [k |-> "none"]
Pass == [verdict |-> "pass"]
CapUnfiltered == [verdict |-> "cap"]
Reject(columns) == [verdict |-> "reject", advice |-> columns]

is_sargable_op(op) == op \in {"=", "<", ">", "<=", ">="}

RECURSIVE column_of(_)
column_of(e) ==
    CASE e.k = "col" -> {e.name}
      [] e.k \in {"nested", "isnull"} -> column_of(e.e)
      [] OTHER -> {}

(* A set of columns is indexable when it is one column that an index or     *)
(* the primary key is on.                                                   *)
indexable_columns(schema) == schema.pk \cup schema.indexes
primary_key_columns(schema) == schema.pk
is_indexable(e, indexable) == column_of(e) # {} /\ column_of(e) \subseteq indexable
is_pk(e, schema) == is_indexable(e, primary_key_columns(schema))

RECURSIVE split_and(_)
split_and(e) ==
    CASE e.k = "bin" /\ e.op = "and" -> split_and(e.l) \cup split_and(e.r)
      [] e.k = "nested" -> split_and(e.e)
      [] OTHER -> {e}

RECURSIVE where_hits_index(_, _, _), conjunct_hits_index(_, _, _), in_subquery_hits_index(_, _, _)
where_hits_index(schemas, schema, e) == \E c \in split_and(e) : conjunct_hits_index(schemas, schema, c)
conjunct_hits_index(schemas, schema, c) ==
    LET ix == indexable_columns(schema)
    IN  CASE c.k = "nested" -> conjunct_hits_index(schemas, schema, c.e)
          [] c.k = "bin" /\ is_sargable_op(c.op) ->
                \/ is_indexable(c.l, ix) /\ column_of(c.r) = {}
                \/ is_indexable(c.r, ix) /\ column_of(c.l) = {}
          [] c.k \in {"between", "in"} -> ~ c.neg /\ is_indexable(c.e, ix)
          [] c.k = "insub" -> ~ c.neg /\ in_subquery_hits_index(schemas, schema, c)
          [] OTHER -> FALSE
(* The subquery is a plain one-column SELECT of a table it has an index of. *)
in_subquery_hits_index(schemas, schema, c) ==
    /\ is_pk(c.e, schema)
    /\ c.sub.by = <<>> /\ c.sub.limit = None /\ c.sub.offset = 0
    /\ c.sub.body = "select" /\ ~ c.sub.joins /\ ~ c.sub.whole
    /\ c.sub.table \in DOMAIN schemas
    /\ c.sub.where # None
    /\ where_hits_index(schemas, schemas[c.sub.table], c.sub.where)

(* One conjunct names the keys one by one. *)
where_is_point_bounded(schema, e) ==
    \E c \in split_and(e) :
        \/ c.k = "bin" /\ c.op = "=" /\ is_pk(c.l, schema) /\ column_of(c.r) = {}
        \/ c.k = "bin" /\ c.op = "=" /\ is_pk(c.r, schema) /\ column_of(c.l) = {}
        \/ c.k = "in" /\ ~ c.neg /\ is_pk(c.e, schema)

(* The columns a refusal names, in order. *)
RECURSIVE predicate_columns(_)
predicate_columns(e) ==
    LET Named(x, y) == SetToSeq(IF column_of(x) # {} THEN column_of(x) ELSE column_of(y))
    IN  CASE e.k = "nested" -> predicate_columns(e.e)
          [] e.k = "bin" /\ e.op \in {"and", "or"} -> predicate_columns(e.l) \o predicate_columns(e.r)
          [] e.k = "bin" /\ is_sargable_op(e.op) -> Named(e.l, e.r)
          [] e.k \in {"between", "in"} -> Named(e.e, e.e)
          [] OTHER -> <<>>

(* What to create an index on: the first column named (create_index_ddl).   *)
scan_err(schema, e) == Reject(SelectSeq(predicate_columns(e), LAMBDA c : c \notin indexable_columns(schema)))
sort_err(e) == Reject(SetToSeq(column_of(e)))

classify(schemas, st) ==
    IF st.body # "select" \/ st.joins \/ st.table \notin DOMAIN schemas THEN Pass
    ELSE LET schema == schemas[st.table]
             points == st.where # None /\ where_is_point_bounded(schema, st.where)
             unsorted == SelectSeq(st.by, LAMBDA e : ~ is_indexable(e, indexable_columns(schema)))
         IN  CASE ~ points /\ unsorted # <<>> -> sort_err(unsorted[1])
               [] (points \/ unsorted = <<>>) /\ st.where = None -> CapUnfiltered
               [] (points \/ unsorted = <<>>) /\ st.where # None ->
                     IF where_hits_index(schemas, schema, st.where) THEN Pass ELSE scan_err(schema, st.where)

cap_unfiltered_limit(st) ==
    [st EXCEPT !.limit = IF @ # None /\ @.v < UNFILTERED_SCAN_CAP THEN @ ELSE [k |-> "lit", v |-> UNFILTERED_SCAN_CAP]]

(* The statement that runs, or the refusal.  Connections that are not       *)
(* strict (plan) are the engine's own.                                      *)
bound_or_reject(schemas, st) ==
    LET d == classify(schemas, st)
    IN  IF d.verdict = "cap" THEN [d EXCEPT !.verdict = "pass"] @@ [st |-> cap_unfiltered_limit(st)]
        ELSE IF d.verdict = "pass" THEN d @@ [st |-> st] ELSE d
plan(strict, schemas, st) == IF strict THEN bound_or_reject(schemas, st) ELSE Pass @@ [st |-> st]
-----------------------------------------------------------------------------
(* What "bounded" means, without looking at the shape of a predicate: the   *)
(* rows it lets through, of all the rows there could be.                    *)

Order(op, x, y) ==
    CASE op = "=" -> x = y [] op = "<>" -> x # y [] op = "<" -> x < y
      [] op = "<=" -> x <= y [] op = ">" -> x > y [] op = ">=" -> x >= y
Not(t) == IF t = "unknown" THEN t ELSE IF t = "true" THEN "false" ELSE "true"
Truth(b) == IF b THEN "true" ELSE "false"

RECURSIVE Operand(_, _), Holds(_, _, _), Subqueries(_)
Operand(e, row) ==
    CASE e.k = "col" -> row[e.name]
      [] e.k = "lit" -> e.v
      [] e.k = "nested" -> Operand(e.e, row)
      [] e.k = "isnull" -> IF Operand(e.e, row) = Null THEN 1 ELSE 2   \* TRUE is 1, FALSE 2
      [] e.k = "plus" -> IF Operand(e.e, row) = Null THEN Null ELSE Operand(e.e, row) + e.n
(* A subquery of the set small gives one key, any other may give all. *)
Holds(e, row, small) ==
    LET among(x, S) == IF x = Null THEN "unknown" ELSE Truth(x \in S)
        sign(t) == IF e.neg THEN Not(t) ELSE t
        x == Operand(e.e, row)
    IN  CASE e.k = "nested" -> Holds(e.e, row, small)
          [] e.k = "bin" /\ e.op \in {"and", "or"} ->
                LET both == {Holds(e.l, row, small), Holds(e.r, row, small)}
                    strong == IF e.op = "and" THEN "false" ELSE "true"
                IN  IF strong \in both THEN strong ELSE IF "unknown" \in both THEN "unknown" ELSE Not(strong)
          [] e.k = "bin" /\ e.op \notin {"and", "or"} ->
                LET l == Operand(e.l, row)  r == Operand(e.r, row)
                IN  IF Null \in {l, r} THEN "unknown" ELSE Truth(Order(e.op, l, r))
          [] e.k = "between" -> sign(among(x, Operand(e.lo, row)..Operand(e.hi, row)))
          [] e.k = "in" -> sign(among(x, {Operand(e.list[i], row) : i \in DOMAIN e.list}))
          [] e.k = "insub" -> sign(among(x, IF e.sub \in small THEN {1} ELSE Value))
          [] e.k = "like" -> IF x = Null THEN "unknown" ELSE Truth(x % 2 = 0)
          [] e.k = "isnull" -> Truth(x = Null)
Subqueries(e) ==
    CASE e.k = "nested" -> Subqueries(e.e)
      [] e.k = "bin" -> Subqueries(e.l) \cup Subqueries(e.r)
      [] e.k = "insub" -> {e.sub}
      [] OTHER -> {}

Survivors(e, small) == {row \in [Column -> Value \cup {Null}] : Holds(e, row, small) = "true"}
(* The rows fill a part of the index on one of the columns, and no more.    *)
PartOfIndex(rows, columns) ==
    \E c \in columns : LET keys == {row[c] : row \in rows} IN keys \subseteq Value /\ keys # Value
Small(schemas, sub) ==
    /\ sub.where # None /\ sub.table \in DOMAIN schemas
    /\ PartOfIndex(Survivors(sub.where, {}), indexable_columns(schemas[sub.table]))

RECURSIVE Literals(_)
Literals(e) ==
    CASE e.k = "lit" -> 1
      [] e.k = "bin" -> Literals(e.l) + Literals(e.r)
      [] e.k \in {"nested", "insub"} -> Literals(e.e)
      [] e.k = "in" -> Len(e.list)
      [] e.k = "between" -> Literals(e.lo) + Literals(e.hi)
      [] OTHER -> 0

(* Rows of a table of any size that a capped statement reads: an aggregate reads them all. *)
RowsRead(st) == IF st.whole THEN UNFILTERED_SCAN_CAP + 1 ELSE st.limit.v + st.offset

(* A statement that runs reads a part of an index, or the capped prefix of  *)
(* the table; it sorts by an index, or no more keys than it has literals    *)
(* (classify).                                                              *)
ReadsBounded(schemas, st) ==
    LET d == plan(TRUE, schemas, st)
        schema == schemas[st.table]
        rows == Survivors(st.where, {sub \in Subqueries(st.where) : Small(schemas, sub)})
    IN  d.verdict = "pass" /\ st.body = "select" /\ ~ st.joins /\ st.table \in DOMAIN schemas =>
            IF st.where = None
            THEN /\ RowsRead(d.st) <= UNFILTERED_SCAN_CAP
                 /\ \A i \in DOMAIN st.by : is_indexable(st.by[i], indexable_columns(schema))
            ELSE /\ PartOfIndex(rows, indexable_columns(schema))
                 /\ \/ \A i \in DOMAIN st.by : is_indexable(st.by[i], indexable_columns(schema))
                    \/ \E key \in schema.pk : Cardinality({row[key] : row \in rows}) <= Literals(st.where)

(* Creating the index that a refusal names, and then the one the next       *)
(* refusal names, makes the statement run (scan_err, sort_err).             *)
RECURSIVE RunsIndexed(_, _)
RunsIndexed(schemas, st) ==
    LET d == plan(TRUE, schemas, st)
    IN  \/ d.verdict = "pass"
        \/ /\ d.advice # <<>>
           /\ d.advice[1] \notin indexable_columns(schemas[st.table])
           /\ RunsIndexed([schemas EXCEPT ![st.table].indexes = @ \cup {d.advice[1]}], st)
AdviceHelps(schemas, st) ==
    LET d == plan(TRUE, schemas, st) IN d.verdict = "reject" /\ d.advice # <<>> => RunsIndexed(schemas, st)
=============================================================================
