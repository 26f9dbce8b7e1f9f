---------------------------- MODULE CompositeKey ----------------------------
(***************************************************************************)
(* Composite primary keys (crates/bluedb-sql/src/compositepk.rs, pkcodec.rs *)
(* and keyspace.rs): the components are encoded into one byte string, the  *)
(* surrogate column, and the predicate of a statement is rewritten into    *)
(* bounds on it, printed, and parsed again by GlueSQL.                     *)
(*                                                                         *)
(* A component is its order-preserving byte string (GlueSQL's              *)
(* to_cmp_be_bytes, external) over the bytes 0..FF.  A predicate is a      *)
(* conjunction: a sequence of                                              *)
(*   [kind |-> "cmp", col, op, val]   a column against a literal; columns  *)
(*                                    1..N are the key's                   *)
(*   [kind |-> "row", op, vals]       a row value of a leading prefix      *)
(*   [kind |-> "or", alts]            comparisons in parentheses           *)
(*   [kind |-> "pk", op, val]         the surrogate (written by a rewrite) *)
(***************************************************************************)
EXTENDS Integers, Sequences, FiniteSets, SequencesExt

CONSTANTS
    N,    \* components of the key
    FF    \* the largest byte

ASSUME KeyAssumption == N \in Nat /\ N >= 2 /\ FF \in Nat /\ FF >= 2

(* push_order_preserving: 0 becomes 0 FF, and 0 0 ends a component. *)
push_order_preserving(bytes) ==
    FlattenSeq([i \in DOMAIN bytes |-> IF bytes[i] = 0 THEN <<0, FF>> ELSE <<bytes[i]>>]) \o <<0, 0>>
encode_composite_key(components) ==
    FlattenSeq([i \in DOMAIN components |-> push_order_preserving(components[i])])

(* The byte order of strings: a proper prefix comes first. *)
Less(a, b) ==
    LET common == {n \in 0..Len(a) : n <= Len(b) /\ SubSeq(a, 1, n) = SubSeq(b, 1, n)}
        n == CHOOSE m \in common : \A k \in common : k <= m
    IN  n < Len(b) /\ (n = Len(a) \/ a[n + 1] < b[n + 1])
Compare(op, a, b) ==
    CASE op = "=" -> a = b
      [] op = "<" -> Less(a, b)
      [] op = "<=" -> Less(a, b) \/ a = b
      [] op = ">" -> Less(b, a)
      [] op = ">=" -> Less(b, a) \/ a = b
is_range(op) == op \in {"<", "<=", ">", ">="}

(* prefix_upper_bound: drop trailing FFs, increment; <<>> for no bound. *)
prefix_upper_bound(prefix) ==
    LET low == {i \in DOMAIN prefix : prefix[i] < FF}
        last == CHOOSE i \in low : \A j \in low : j <= i
    IN  IF low = {} THEN <<>> ELSE <<[SubSeq(prefix, 1, last) EXCEPT ![last] = @ + 1]>>
BoundOr(prefix, default) == IF prefix_upper_bound(prefix) = <<>> THEN default ELSE prefix_upper_bound(prefix)[1]
-----------------------------------------------------------------------------
pk_cmp(op, bytes) == [kind |-> "pk", op |-> op, val |-> bytes]
range_pred(low, high) ==
    IF high = <<>> THEN <<pk_cmp(">=", low)>> ELSE <<pk_cmp(">=", low), pk_cmp("<", high[1])>>

\* Mutant: > starts at the component's own encoding.
build_pk_predicate_inclusive(prefix, range) ==
    LET base == encode_composite_key(prefix)
        point == encode_composite_key(Append(prefix, range[1].val))
    IN  IF range = <<>> THEN IF Len(prefix) = N THEN <<pk_cmp("=", base)>> ELSE range_pred(base, prefix_upper_bound(base))
        ELSE CASE range[1].op \in {">", ">="} -> range_pred(point, prefix_upper_bound(base))
               [] range[1].op = "<" -> range_pred(base, <<point>>)
               [] range[1].op = "<=" -> range_pred(base, prefix_upper_bound(point))

(* An equality prefix and at most one range on the next column. *)
build_pk_predicate(prefix, range) ==
    LET base == encode_composite_key(prefix)
        point == encode_composite_key(Append(prefix, range[1].val))
    IN  IF range = <<>> THEN IF Len(prefix) = N THEN <<pk_cmp("=", base)>> ELSE range_pred(base, prefix_upper_bound(base))
        ELSE CASE range[1].op = ">" -> range_pred(BoundOr(point, point), prefix_upper_bound(base))
               [] range[1].op = ">=" -> range_pred(point, prefix_upper_bound(base))
               [] range[1].op = "<" -> range_pred(base, <<point>>)
               [] range[1].op = "<=" -> range_pred(base, prefix_upper_bound(point))

(* A row value of the whole key compares as the surrogate does; a shorter   *)
(* one is bounded before or past everything that starts with it.            *)
row_value_predicate(e) ==
    LET enc == encode_composite_key(e.vals)
    IN  IF Len(e.vals) = N THEN pk_cmp(e.op, enc)
        ELSE CASE e.op = ">" -> pk_cmp(">=", BoundOr(enc, enc))
               [] e.op = ">=" -> pk_cmp(">=", enc)
               [] e.op = "<" -> pk_cmp("<", enc)
               [] e.op = "<=" -> IF prefix_upper_bound(enc) = <<>> THEN pk_cmp("<=", enc)
                                 ELSE pk_cmp("<", prefix_upper_bound(enc)[1])

(* rewrite_predicate: the conjuncts that bound the key go first, then the   *)
(* row values, then what is left (a second equality of a column, too).      *)
component_compare(e) == e.kind = "cmp" /\ e.col \in 1..N
UsableEq(conjuncts, i) ==
    /\ component_compare(conjuncts[i]) /\ conjuncts[i].op = "="
    /\ \A j \in 1..(i - 1) : ~ (component_compare(conjuncts[j]) /\ conjuncts[j].op = "=" /\ conjuncts[j].col = conjuncts[i].col)
rewrite_predicate(conjuncts) ==
    LET at(col) == {i \in DOMAIN conjuncts : UsableEq(conjuncts, i) /\ conjuncts[i].col = col}
        k == CHOOSE n \in 0..N : (\A c \in 1..n : at(c) # {}) /\ (n = N \/ at(n + 1) = {})
        prefix == [c \in 1..k |-> conjuncts[CHOOSE i \in at(c) : TRUE].val]
        fits == {i \in DOMAIN conjuncts : component_compare(conjuncts[i]) /\ is_range(conjuncts[i].op) /\ conjuncts[i].col = k + 1}
        first == CHOOSE i \in fits : \A j \in fits : i <= j
        used == UNION {at(c) : c \in 1..k} \cup (IF fits = {} THEN {} ELSE {first})
        bounds == IF k = 0 /\ fits = {} THEN <<>>
                  ELSE build_pk_predicate(prefix, IF fits = {} THEN <<>> ELSE <<conjuncts[first]>>)
        isRow(e) == e.kind = "row"
        left == (DOMAIN conjuncts \ used) \ {j \in DOMAIN conjuncts : isRow(conjuncts[j])}
        eqs == {j \in left : UsableEq(conjuncts, j)}
        ranges == {j \in left : component_compare(conjuncts[j]) /\ is_range(conjuncts[j].op)}
        inOrder(S) == LET o == SetToSortSeq(S, <) IN [i \in DOMAIN o |-> conjuncts[o[i]]]
        rows == SelectSeq(conjuncts, isRow)
    IN  bounds \o [i \in DOMAIN rows |-> row_value_predicate(rows[i])]
          \o inOrder(left \ (eqs \cup ranges)) \o inOrder(eqs) \o inOrder(ranges)

(* rewrite_order_by: a leading prefix of the key in one direction becomes   *)
(* the surrogate in that direction.  An item is [col, asc].                 *)
rewrite_order_by(items) ==
    IF /\ items # <<>> /\ Len(items) <= N
       /\ \A i \in DOMAIN items : items[i].col = i /\ items[i].asc = items[1].asc
    THEN <<[col |-> 0, asc |-> items[1].asc]>> ELSE items
-----------------------------------------------------------------------------
(* Printing and parsing.  The rewriter takes the parentheses off each       *)
(* conjunct (split_and) and prints without them; AND binds tighter than OR, *)
(* so the text is read as alternatives of conjunctions.                     *)

Words(e) == IF e.kind = "or" THEN [i \in DOMAIN e.alts |-> <<e.alts[i]>>] ELSE <<<<e>>>>
Reparse(conjuncts) ==
    FoldLeft(LAMBDA acc, e :
                 LET w == Words(e)
                 IN  IF acc = <<>> THEN w
                     ELSE SubSeq(acc, 1, Len(acc) - 1) \o <<acc[Len(acc)] \o w[1]>> \o Tail(w),
             <<>>, conjuncts)

(* A row is its columns; the first N make the key.  pk is the row's surrogate. *)
rewrite_insert(row) == encode_composite_key(SubSeq(row, 1, N))
Holds(e, row, pk) ==
    CASE e.kind = "cmp" -> Compare(e.op, row[e.col], e.val)
      [] e.kind = "pk" -> Compare(e.op, pk, e.val)
      [] e.kind = "row" ->
            LET differ == {i \in DOMAIN e.vals : row[i] # e.vals[i]}
                d == CHOOSE i \in differ : \A j \in differ : i <= j
            IN  IF differ = {} THEN e.op \in {"<=", ">="} ELSE Compare(e.op, row[d], e.vals[d])
      [] e.kind = "or" -> \E i \in DOMAIN e.alts : Compare(e.alts[i].op, row[e.alts[i].col], e.alts[i].val)
Selected(conjuncts, row) == \A i \in DOMAIN conjuncts : Holds(conjuncts[i], row, rewrite_insert(row))
Runs(conjuncts, row) ==
    LET pk == rewrite_insert(row)
        alternatives == Reparse(rewrite_predicate(conjuncts))
    IN  alternatives = <<>> \/ \E i \in DOMAIN alternatives :
            \A j \in DOMAIN alternatives[i] : Holds(alternatives[i][j], row, pk)

(* r comes before s: column 0 is the surrogate. *)
Cell(row, col) == IF col = 0 THEN rewrite_insert(row) ELSE row[col]
Before(items, r, s) ==
    \E i \in DOMAIN items :
        /\ \A j \in 1..(i - 1) : Cell(r, items[j].col) = Cell(s, items[j].col)
        /\ IF items[i].asc THEN Less(Cell(r, items[i].col), Cell(s, items[i].col))
           ELSE Less(Cell(s, items[i].col), Cell(r, items[i].col))
=============================================================================
