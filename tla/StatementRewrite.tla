-------------------------- MODULE StatementRewrite --------------------------
(***************************************************************************)
(* What is rewritten because GlueSQL lacks it (crates/bluedb-sql/src):     *)
(* set operations (setops.rs), comma joins and USING (rewrite.rs), join    *)
(* keys in WHERE (pushdown.rs), NULLS FIRST and LAST (nullorder.rs).       *)
(*                                                                         *)
(* A table is [cols, rows], rows being a sequence of sequences of values.  *)
(* A branch of a set operation is such a table (kind "select", a column    *)
(* without a name being "*") or [kind |-> "op", op, all, left, right].     *)
(***************************************************************************)
EXTENDS Integers, Sequences, FiniteSets, SequencesExt, TLC

CONSTANTS
    Null,                   \* SQL's NULL
    Tables,                 \* table name -> [cols, rows]
    MAX_COMMA_JOIN_TABLES   \* the longest comma join that is folded

Rejected == [kind |-> "rejected"]
Times(x, s) == Cardinality({i \in DOMAIN s : s[i] = x})
SameRows(s, t) == \A x \in ToSet(s) \cup ToSet(t) : Times(x, s) = Times(x, t)
Distinct(s) == SetToSeq(ToSet(s))

(* GlueSQL's LEFT JOIN of row sequences; nulls pads a row without a match.  *)
LeftJoin(left, right, On(_, _), nulls, Merge(_, _)) ==
    FlattenSeq([i \in DOMAIN left |->
        LET m == SelectSeq(right, LAMBDA r : On(left[i], r))
        IN  IF m = <<>> THEN <<Merge(left[i], nulls)>> ELSE [j \in DOMAIN m |-> Merge(left[i], m[j])]])
-----------------------------------------------------------------------------
(* Set operations. *)

RECURSIVE columns(_)
columns(b) == IF b.kind = "op" THEN columns(b.left) ELSE IF "*" \in ToSet(b.cols) THEN <<>> ELSE b.cols
single_column(b) == IF Len(columns(b)) = 1 THEN columns(b) ELSE <<>>

Filtered(l, keep) == SelectSeq(l, LAMBDA row : row \in keep)
Quantified(all, rows) == IF all THEN rows ELSE Distinct(rows)
(* SELECT c FROM (left) WHERE c [NOT] IN (right). *)
semi_join(b, l, r) ==
    IF single_column(b.left) = <<>> THEN Rejected
    ELSE [kind |-> "select", cols |-> columns(b.left),
          rows |-> Quantified(b.all, Filtered(l.rows, IF b.op = "intersect" THEN ToSet(r.rows)
                                                      ELSE ToSet(l.rows) \ ToSet(r.rows)))]
(* SERIES(2) LEFT JOIN (left) ON N = 1 LEFT JOIN (right) ON N = 2, and a    *)
(* CASE on N for every column.                                              *)
driver_union(b, l, r) ==
    LET width == Len(columns(b.left))
        nulls == [i \in 1..width |-> Null]
        one == LeftJoin(<<<<1>>, <<2>>>>, l.rows, LAMBDA d, row : d[1] = 1, nulls, LAMBDA d, row : d \o row)
        two == LeftJoin(one, r.rows, LAMBDA d, row : d[1] = 2, nulls, LAMBDA d, row : d \o row)
        case(d) == SubSeq(d, IF d[1] = 1 THEN 2 ELSE 2 + width, IF d[1] = 1 THEN 1 + width ELSE 1 + 2 * width)
    IN  IF columns(b.left) = <<>> \/ Len(columns(b.right)) # width THEN Rejected
        ELSE [kind |-> "select", cols |-> columns(b.left),
              rows |-> Quantified(b.all, [i \in DOMAIN two |-> case(two[i])])]
RECURSIVE setexpr_to_sql(_)
setexpr_to_sql(b) ==
    IF b.kind = "select" THEN b
    ELSE LET l == setexpr_to_sql(b.left)  r == setexpr_to_sql(b.right)
         IN  IF Rejected \in {l, r} THEN Rejected
             ELSE IF b.op = "union" THEN driver_union(b, l, r) ELSE semi_join(b, l, r)
(* An operation that cannot be rewritten goes to GlueSQL, which rejects it. *)
rewrite_set_ops(b) == setexpr_to_sql(b)

RECURSIVE Standard(_)
Standard(b) ==
    IF b.kind = "select" THEN b.rows
    ELSE LET l == Standard(b.left)  r == Standard(b.right)
             least(x) == IF Times(x, l) < Times(x, r) THEN Times(x, l) ELSE Times(x, r)
             left(x) == IF b.op = "intersect" THEN least(x) ELSE Times(x, l) - least(x)
             copies(x) == IF b.all THEN [i \in 1..left(x) |-> x]
                          ELSE IF (x \in ToSet(r)) = (b.op = "intersect") THEN <<x>> ELSE <<>>
         IN  IF b.op = "union" THEN Quantified(b.all, l \o r)
             ELSE FlattenSeq([i \in DOMAIN Distinct(l) |-> copies(Distinct(l)[i])])

(* A set operation answers what SQL says, or is refused. *)
SetOpsAgree(b) == LET q == rewrite_set_ops(b) IN q # Rejected => q.cols = columns(b) /\ SameRows(q.rows, Standard(b))
-----------------------------------------------------------------------------
(* FROM.  A relation is [table, as]; a join [rel, outer, on, using]: a      *)
(* sequence of conjuncts, empty when there is no ON, and the columns of     *)
(* USING.  A conjunct is True, or an equality [k |-> "eq", l, r] of         *)
(* references [q, col], q being "" when the column is not qualified, and    *)
(* literals [lit].  A query is [from, where]: from a sequence of            *)
(* [rel, joins].                                                            *)

True == [k |-> "true"]
Equal(l, r) == [k |-> "eq", l |-> l, r |-> r]
table_ident(rel) == IF rel.as = "" THEN rel.table ELSE rel.as

fold_from(from) ==
    IF Len(from) > MAX_COMMA_JOIN_TABLES THEN from
    ELSE <<[from[1] EXCEPT !.joins = @ \o FlattenSeq([i \in 1..(Len(from) - 1) |->
                <<[rel |-> from[i + 1].rel, outer |-> FALSE, on |-> <<True>>, using |-> <<>>]>> \o from[i + 1].joins])]>>

(* The left side of USING is the relation just before. *)
using_to_on(join, left) ==
    [join EXCEPT !.using = <<>>,
                 !.on = @ \o [i \in DOMAIN join.using |-> Equal([q |-> left, col |-> join.using[i]],
                                                               [q |-> table_ident(join.rel), col |-> join.using[i]])]]
rewrite_using_joins(item) ==
    [item EXCEPT !.joins = [i \in DOMAIN @ |->
        using_to_on(@[i], table_ident(IF i = 1 THEN item.rel ELSE @[i - 1].rel))]]
rewrite_multitable(q) == LET from == fold_from(q.from) IN [q EXCEPT !.from = [i \in DOMAIN from |-> rewrite_using_joins(from[i])]]

(* The position of the table of a reference: of the last relation with that *)
(* name or alias, or of the one relation with that column.                  *)
Relations(item) == <<item.rel>> \o [i \in DOMAIN item.joins |-> item.joins[i].rel]
register_table(item, name) == {i \in DOMAIN Relations(item) : name \in {Relations(item)[i].table, Relations(item)[i].as}}
build_column_index(item, col) ==
    LET at == {i \in DOMAIN Relations(item) : col \in ToSet(Tables[Relations(item)[i].table].cols)}
    IN  IF Cardinality(at) = 1 THEN at ELSE {}
col_position(item, e) ==
    LET at == IF "q" \notin DOMAIN e THEN {} ELSE IF e.q = "" THEN build_column_index(item, e.col) ELSE register_table(item, e.q)
    IN  IF at = {} THEN 0 ELSE Max(at)
(* The join that introduces the later of the two tables, or 0. *)
equijoin_target(item, c) ==
    IF c.k # "eq" THEN 0
    ELSE LET p == col_position(item, c.l)  q == col_position(item, c.r)
         IN  IF p = 0 \/ q = 0 \/ p = q THEN 0 ELSE Max({p, q}) - 1
PushedTo(item, c) ==
    LET t == equijoin_target(item, c) IN IF t # 0 /\ ~ item.joins[t].outer THEN t ELSE 0
pushdown_equijoins(q) ==
    LET item == q.from[1]
    IN  [q EXCEPT !.where = SelectSeq(@, LAMBDA c : PushedTo(item, c) = 0),
                  !.from[1].joins = [i \in DOMAIN @ |-> [@[i] EXCEPT !.on = @ \o SelectSeq(q.where, LAMBDA c : PushedTo(item, c) = i)]]]
is_trivially_true(on) == on = <<True>>
reject_cross_products(q) == \E i \in DOMAIN q.from[1].joins : ~ q.from[1].joins[i].outer /\ is_trivially_true(q.from[1].joins[i].on)

(* A row in progress is a function on <<qualifier, column>>. *)
RowsOf(rel) ==
    LET t == Tables[rel.table]
        at(key) == CHOOSE i \in DOMAIN t.cols : t.cols[i] = key[2]
    IN  [i \in DOMAIN t.rows |-> [key \in {table_ident(rel)} \X ToSet(t.cols) |-> t.rows[i][at(key)]]]
Padding(rel) == [key \in {table_ident(rel)} \X ToSet(Tables[rel.table].cols) |-> Null]
Referred(e, row) == {key \in DOMAIN row : key[2] = e.col /\ e.q \in {"", key[1]}}
Value(e, row) == IF "q" \in DOMAIN e THEN row[CHOOSE key \in Referred(e, row) : TRUE] ELSE e.lit
Holds(c, row) == c.k = "eq" => Value(c.l, row) = Value(c.r, row) /\ Value(c.l, row) # Null
Known(c, row) == c.k = "eq" => \A e \in {c.l, c.r} : "q" \in DOMAIN e => Referred(e, row) # {}

Joined(rows, join) ==
    LET on(l, r) == \A i \in DOMAIN join.on : Holds(join.on[i], l @@ r)
        all == LeftJoin(rows, RowsOf(join.rel), on, Padding(join.rel), LAMBDA l, r : l @@ r)
    IN  IF join.outer THEN all
        ELSE FlattenSeq([i \in DOMAIN rows |->
                 LET m == SelectSeq(RowsOf(join.rel), LAMBDA r : on(rows[i], r)) IN [j \in DOMAIN m |-> rows[i] @@ m[j]]])
ItemRows(item) == FoldLeft(Joined, RowsOf(item.rel), item.joins)
Where(rows, where) == SelectSeq(rows, LAMBDA row : \A i \in DOMAIN where : Holds(where[i], row))

(* What GlueSQL gets, and whether it runs it: one item, whose ON clauses    *)
(* know their columns.                                                      *)
Planned(q) == pushdown_equijoins(rewrite_multitable(q))
Scope(item, n) == FoldLeft(LAMBDA r, j : r @@ Padding(j.rel), Padding(item.rel), SubSeq(item.joins, 1, n))
Resolves(item) == \A n \in DOMAIN item.joins : \A i \in DOMAIN item.joins[n].on : Known(item.joins[n].on[i], Scope(item, n))
Runs(p) == Len(p.from) = 1 /\ ~ reject_cross_products(p) /\ Resolves(p.from[1])

(* What SQL says: the product of the items, and the column of USING is the  *)
(* first that has the name.                                                 *)
Resolved(item) ==
    [item EXCEPT !.joins = [i \in DOMAIN @ |->
        LET before == SubSeq(Relations(item), 1, i)
            owner(col) == before[CHOOSE k \in DOMAIN before :
                              /\ col \in ToSet(Tables[before[k].table].cols)
                              /\ \A h \in 1..(k - 1) : col \notin ToSet(Tables[before[h].table].cols)]
            column(rel, col) == [q |-> table_ident(rel), col |-> col]
            using == @[i].using
        IN  [@[i] EXCEPT !.on = @ \o [n \in DOMAIN using |-> Equal(column(owner(using[n]), using[n]),
                                                                    column(item.joins[i].rel, using[n]))]]]]
Product(l, r) == FlattenSeq([i \in DOMAIN l |-> [j \in DOMAIN r |-> l[i] @@ r[j]]])
Expected(q) == Where(FoldLeft(Product, <<<<>>>>, [i \in DOMAIN q.from |-> ItemRows(Resolved(q.from[i]))]), q.where)

(* A join answers what SQL says, and no inner join of it is a product, or   *)
(* it is refused.                                                           *)
Keyed(join) == join.outer \/ \E i \in DOMAIN join.on : join.on[i].k = "eq"
Answers(p, expected) ==
    /\ SameRows(Where(ItemRows(p.from[1]), p.where), expected)
    /\ \A i \in DOMAIN p.from[1].joins : Keyed(p.from[1].joins[i])
RunsAnswer(p, q) == Runs(p) => Answers(p, Expected(q))
JoinsAgree(q) == RunsAnswer(Planned(q), q)
-----------------------------------------------------------------------------
(* ORDER BY.  A key is [col, isnull, asc, nulls]; nulls is "first", "last"  *)
(* or "none", and so is the default of the session.                         *)

effective(key, default) == IF key.nulls # "none" THEN key.nulls ELSE default
expand(key, default) ==
    IF effective(key, default) = "none" THEN <<key>>
    ELSE <<[key EXCEPT !.isnull = TRUE, !.asc = effective(key, default) = "last", !.nulls = "none"],
           [key EXCEPT !.nulls = "none"]>>
rewrite_null_order(keys, default) == FlattenSeq([i \in DOMAIN keys |-> expand(keys[i], default)])

(* GlueSQL sorts NULL after every value, and FALSE before TRUE. *)
SortValue(key, row) == IF key.isnull THEN IF row[key.col] = Null THEN 1 ELSE 0
                       ELSE IF row[key.col] = Null THEN 100 ELSE row[key.col]
Before(keys, r, s) ==
    \E i \in DOMAIN keys :
        /\ \A j \in 1..(i - 1) : SortValue(keys[j], r) = SortValue(keys[j], s)
        /\ IF keys[i].asc THEN SortValue(keys[i], r) < SortValue(keys[i], s) ELSE SortValue(keys[i], s) < SortValue(keys[i], r)
Placed(key, default, r, s) ==
    LET x == r[key.col]  y == s[key.col]
    IN  IF Null \in {x, y} /\ effective(key, default) # "none"
        THEN x # y /\ (x = Null) = (effective(key, default) = "first")
        ELSE Before(<<key>>, r, s)
(* Every key puts its NULLs where it says, or where the session says. *)
NullsPlaced(keys, default, rows) ==
    \A r, s \in rows :
        Before(rewrite_null_order(keys, default), r, s) =
            \E i \in DOMAIN keys :
                /\ Placed(keys[i], default, r, s)
                /\ \A j \in 1..(i - 1) : r[keys[j].col] = s[keys[j].col]
=============================================================================
