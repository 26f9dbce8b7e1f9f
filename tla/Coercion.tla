------------------------------- MODULE Coercion -------------------------------
(***************************************************************************)
(* Implicit conversions of the planner (crates/bluedb-sql/src/coerce.rs    *)
(* and Planner::plan): a text literal that is compared with a number is    *)
(* cast to the number's type, and a bound number that is written into a    *)
(* wider column is cast to the column's.                                   *)
(*                                                                         *)
(* A value is [t, n], a type and a number of halves (3 is 1.5); the text   *)
(* of a number is [t |-> "text", form, n], form being "int", "frac", "exp" *)
(* (1e0), "long" (more digits than a decimal holds) or "word".             *)
(* An expression is a record with a kind k: "ref" q col (q is "" when not  *)
(* qualified), "val" v, "nested" e, "cast" e type, "cmp" op l r,           *)
(* "and" l r.  A statement is [kind, tables, where, cols, vals]; a table   *)
(* of it is [table, as].                                                   *)
(***************************************************************************)
EXTENDS Integers, Sequences, FiniteSets, SequencesExt, TLC

CONSTANT Schema    \* table -> sequence of [name, type]

Integral == {"int8", "uint8", "int"}
Numeric == Integral \cup {"float", "decimal"}
InWidth(n, type) ==
    CASE type = "int8" -> n \in (2 * (-128))..(2 * 127)
      [] type = "uint8" -> n \in 0..(2 * 255)
      [] OTHER -> TRUE

numeric_target(type) == type \in Numeric
is_plain_decimal(text) == text.form \in {"int", "frac", "long"}
string_castable_to(text, type) ==
    CASE type \in Integral -> text.form = "int" /\ InWidth(text.n, type)
      [] type = "float" -> text.form # "word"
      [] type = "decimal" -> is_plain_decimal(text)
      [] OTHER -> FALSE

(* The columns that a bare name, or a qualified one, may mean in a scope:   *)
(* a sequence of tables.  Only one that is alone has a type.                *)
Columns(map, scope, e) ==
    {<<i, j>> \in (1..Len(scope)) \X (1..4) :
        /\ scope[i].table \in map
        /\ j \in DOMAIN Schema[scope[i].table] /\ Schema[scope[i].table][j].name = e.col
        /\ e.q = "" \/ e.q \in {scope[i].table, scope[i].as}}
TypeOf(scope, c) == Schema[scope[c[1]].table][c[2]].type
Scope_type(map, scope, e) ==
    LET at == Columns(map, scope, e) IN IF Cardinality(at) = 1 THEN {TypeOf(scope, c) : c \in at} ELSE {}

(* What an operand is: the type of a number, or a text. *)
RECURSIVE classify(_, _, _)
classify(map, scope, e) ==
    CASE e.k = "nested" -> classify(map, scope, e.e)
      [] e.k = "val" -> IF e.v.t = "text" THEN [text |-> e.v]
                        ELSE IF e.v.t \in Numeric THEN [num |-> e.v.t] ELSE <<>>
      [] e.k = "ref" -> LET types == Scope_type(map, scope, e)
                        IN  IF types \cap Numeric = {} THEN <<>> ELSE [num |-> CHOOSE t \in types : TRUE]
      [] OTHER -> <<>>
cast(e, type) == [k |-> "cast", e |-> e, type |-> type]
coerce_pair(map, scope, e) ==
    LET l == classify(map, scope, e.l)  r == classify(map, scope, e.r)
        fits(num, text) == "num" \in DOMAIN num /\ "text" \in DOMAIN text /\ string_castable_to(text.text, num.num)
    IN  IF fits(l, r) THEN [e EXCEPT !.r = cast(@, l.num)]
        ELSE IF fits(r, l) THEN [e EXCEPT !.l = cast(@, r.num)] ELSE e
RECURSIVE coerce_expr(_, _, _)
coerce_expr(map, scope, e) ==
    CASE e.k = "cmp" -> coerce_pair(map, scope, e)
      [] e.k = "and" -> [e EXCEPT !.l = coerce_expr(map, scope, @), !.r = coerce_expr(map, scope, @)]
      [] e.k = "nested" -> [e EXCEPT !.e = coerce_expr(map, scope, @)]
      [] OTHER -> e
(* Every clause of a SELECT is coerced in one scope; where stands for them. *)
coerce_select(map, st) == [st EXCEPT !.where = coerce_expr(map, st.tables, @)]
coerce_comparisons(map, st) ==
    CASE st.kind = "select" -> coerce_select(map, st)
      [] st.kind \in {"update", "delete"} -> [st EXCEPT !.where = coerce_expr(map, SubSeq(st.tables, 1, 1), @)]
      [] OTHER -> st

widen_in_place(v, type) ==
    IF type \in {"decimal", "float"} /\ v.t \in Numeric \ {type} THEN cast([k |-> "val", v |-> v], type) ELSE [k |-> "val", v |-> v]
(* The values of INSERT follow its columns, or the table's; those of UPDATE *)
(* are assigned by name.                                                    *)
insert_value_targets(map, st) ==
    LET defs == Schema[st.tables[1].table]
    IN  [i \in DOMAIN st.vals |->
            IF st.tables[1].table \notin map THEN "unknown"
            ELSE IF st.cols = <<>> THEN defs[i].type
            ELSE LET at == {j \in DOMAIN defs : defs[j].name = st.cols[i]} IN defs[CHOOSE j \in at : TRUE].type]
coerce_writes(map, st) ==
    IF st.kind \notin {"insert", "update"} THEN st
    ELSE [st EXCEPT !.vals = [i \in DOMAIN @ |-> widen_in_place(@[i], insert_value_targets(map, st)[i])]]

(* fetch_schema_map knows the tables of SELECT and INSERT; the target of    *)
(* UPDATE is added for the writes only.                                     *)
fetch_schema_map(st) == IF st.kind \in {"select", "insert"} THEN DOMAIN Schema ELSE {}
plan(st) ==
    LET map == fetch_schema_map(st)
        topped == IF st.kind = "update" THEN map \cup {st.tables[1].table} ELSE map
    IN  coerce_writes(topped, coerce_comparisons(map, st))
-----------------------------------------------------------------------------
(* GlueSQL.  A number never equals a text and is not ordered with one; a    *)
(* cast fails on a text that is not of the type.                            *)

Parsed(text, type) ==
    CASE type \in Integral -> text.form = "int" /\ InWidth(text.n, type)
      [] type = "float" -> text.form # "word"
      [] type = "decimal" -> text.form \in {"int", "frac"}
Compared(op, x, y) ==
    IF (x.t = "text") # (y.t = "text") THEN op = "<>"
    ELSE CASE op = "=" -> x.n = y.n [] op = "<>" -> x.n # y.n [] op = "<" -> x.n < y.n [] op = ">=" -> x.n >= y.n
Error == [t |-> "error"]
RECURSIVE Operand(_, _, _), Result(_, _, _)
Operand(scope, e, row) ==
    CASE e.k = "val" -> e.v
      [] e.k = "nested" -> Operand(scope, e.e, row)
      [] e.k = "ref" -> row[CHOOSE c \in Columns(DOMAIN Schema, scope, e) : TRUE]
      [] e.k = "cast" -> LET v == Operand(scope, e.e, row)
                         IN  IF v.t = "text" /\ ~ Parsed(v, e.type) THEN Error ELSE [t |-> e.type, n |-> v.n]
Result(scope, e, row) ==
    CASE e.k = "nested" -> Result(scope, e.e, row)
      [] e.k = "and" -> LET both == {Result(scope, e.l, row), Result(scope, e.r, row)}
                        IN  IF "error" \in both THEN "error" ELSE IF "false" \in both THEN "false" ELSE "true"
      [] e.k = "cmp" -> LET x == Operand(scope, e.l, row)  y == Operand(scope, e.r, row)
                        IN  IF Error \in {x, y} THEN "error" ELSE IF Compared(e.op, x, y) THEN "true" ELSE "false"

(* The numeric reading of a comparison: a text that denotes a number of the *)
(* other side's type is that number, if it is a literal.                    *)
AsNumber(e, x, other) == IF e.k # "ref" /\ x.t = "text" /\ other.t \in Numeric /\ Parsed(x, other.t) THEN [t |-> other.t, n |-> x.n] ELSE x
RECURSIVE Bare(_), Reading(_, _, _)
Bare(e) == IF e.k = "nested" THEN Bare(e.e) ELSE e
Reading(scope, e, row) ==
    CASE e.k = "nested" -> Reading(scope, e.e, row)
      [] e.k = "and" -> IF {Reading(scope, e.l, row), Reading(scope, e.r, row)} = {"true"} THEN "true" ELSE "false"
      [] e.k = "cmp" -> LET x == Operand(scope, e.l, row)  y == Operand(scope, e.r, row)
                        IN  IF Compared(e.op, AsNumber(Bare(e.l), x, y), AsNumber(Bare(e.r), y, x)) THEN "true" ELSE "false"
Cells(scope) == {<<i, j>> \in (1..Len(scope)) \X (1..4) : j \in DOMAIN Schema[scope[i].table]}
(* A row of whole numbers and a row of halves, where the type has them. *)
Cell(type, n) == IF type = "text" THEN [t |-> "text", form |-> "int", n |-> n]
                 ELSE [t |-> type, n |-> IF type \in Integral THEN 2 ELSE n]
Rows(scope) == {[c \in Cells(scope) |-> Cell(TypeOf(scope, c), n)] : n \in {2, 3}}

(* Comparisons read texts as numbers and never fail for it; a number that   *)
(* is written is stored as that number in the column's type, or refused.    *)
CoercionAgrees(st) ==
    LET p == plan(st)
        type(i) == insert_value_targets(DOMAIN Schema, st)[i]
        stored(i) == Operand(<<>>, p.vals[i], <<>>)
    IN  /\ st.kind # "insert" => \A row \in Rows(st.tables) : Result(st.tables, p.where, row) = Reading(st.tables, st.where, row)
        /\ \A i \in DOMAIN st.vals :
              type(i) \in {"decimal", "float"} /\ st.vals[i].t \in Numeric => stored(i) = [t |-> type(i), n |-> st.vals[i].n]
=============================================================================
