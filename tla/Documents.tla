------------------------------ MODULE Documents ------------------------------
(***************************************************************************)
(* Documents and their query language (crates/bluedb-collections and the   *)
(* matching helpers of crates/bluedb-server/src/collections.rs): typed     *)
(* index values, updates, projections, and the lowerings of a filter.      *)
(*                                                                         *)
(* A JSON value is a tagged tuple: <<"int", n>>, <<"float", n>> (n.0),     *)
(* <<"frac", n>> (n.5), <<"bool", b>>, <<"str", s>>, <<"null">>,           *)
(* <<"arr", seq>>, <<"obj", document>>.  A document is a function from     *)
(* field names to values; its _id is kept beside it.  A path is a sequence *)
(* of segments.  A filter is [kind, subs] with kind "and", "or" or "not",  *)
(* or [kind |-> "cmp", path, op, value]; {} is the empty conjunction.      *)
(* Nesting is at most three deep.                                          *)
(***************************************************************************)
EXTENDS Integers, Sequences, FiniteSets, SequencesExt, TLC

CONSTANT TextOrder   \* the texts that are compared, in byte order

Missing == <<>>      \* SQL NULL, and the value of a path that is missing

Kind(v) == v[1]
Text(v) ==
    CASE Kind(v) = "str" -> v[2]
      [] Kind(v) = "int" -> ToString(v[2])
      [] Kind(v) = "float" -> ToString(v[2]) \o ".0"
      [] Kind(v) = "frac" -> ToString(v[2]) \o ".5"
      [] Kind(v) = "bool" -> IF v[2] THEN "true" ELSE "false"
      [] Kind(v) = "null" -> "null"
      [] OTHER -> ToString(v)
Str(s) == <<"str", s>>

Lookup(doc, path) ==
    IF path[1] \notin DOMAIN doc THEN Missing
    ELSE LET v == doc[path[1]]
         IN  IF Len(path) = 1 THEN v
             ELSE IF Kind(v) = "obj" /\ path[2] \in DOMAIN v[2] THEN v[2][path[2]] ELSE Missing
-----------------------------------------------------------------------------
(* Index values (index.rs).  A column is named by its path, dots becoming   *)
(* underscores; whoever writes a row reads the path back from the name.     *)

derived_col(path) == IF Len(path) = 1 THEN path[1] ELSE path[1] \o "_" \o path[2]
PathOfColumn(col) == <<col>>

is_whole_number(v) == Kind(v) \in {"int", "float"}
infer_index_type(values) ==
    CASE values # {} /\ (\A v \in values : is_whole_number(v)) -> "number"
      [] values # {} /\ (\A v \in values : Kind(v) = "bool") -> "bool"
      [] OTHER -> "text"

(* derive_typed_value, then json_value_to_param: 5.0 is stored as 5. *)
derive_typed_value(doc, path, t) ==
    LET v == Lookup(doc, path)
    IN  CASE v = Missing -> Missing
          [] v # Missing /\ t = "number" -> IF is_whole_number(v) THEN <<"int", v[2]>> ELSE Missing
          [] v # Missing /\ t = "bool" -> IF Kind(v) = "bool" THEN v ELSE Missing
          [] v # Missing /\ t = "text" -> Str(Text(v))

(* compound_key: the texts of the components, a missing one empty. *)
compound_key(doc, cols) ==
    [i \in DOMAIN cols |-> LET v == Lookup(doc, <<cols[i]>>) IN IF v = Missing THEN "" ELSE Text(v)]

(* The side-table rows of a field: one for each element, or for a scalar. *)
multikey_elements(doc, field) ==
    LET v == Lookup(doc, <<field>>)
    IN  IF v = Missing \/ Kind(v) = "null" THEN <<>>
        ELSE LET elems == IF Kind(v) = "arr" THEN v[2] ELSE <<v>>
                 indexed(e) == Kind(e) # "null"
             IN  LET kept == SelectSeq(elems, indexed) IN [i \in DOMAIN kept |-> Text(kept[i])]
-----------------------------------------------------------------------------
(* Updates (update.rs).  An update is [op, field, value], or a replacement  *)
(* [op |-> "replace", doc]; <<>> stands for a rejected one.                 *)

With(doc, f, v) == (f :> v) @@ doc
Double(v) == IF Kind(v) = "frac" THEN 2 * v[2] + 1 ELSE 2 * v[2]
num(twice) == IF twice % 2 = 0 THEN <<"int", twice \div 2>> ELSE <<"frac", twice \div 2>>
is_number(v) == v # Missing /\ Kind(v) \in {"int", "float", "frac"}

apply_update(doc, u) ==
    CASE u.op = "replace" -> <<u.doc>>
      [] u.op = "set" -> <<With(doc, u.field, u.value)>>
      [] u.op = "unset" -> <<[f \in DOMAIN doc \ {u.field} |-> doc[f]]>>
      [] u.op = "inc" ->
            LET cur == Lookup(doc, <<u.field>>)
            IN  IF ~ is_number(u.value) THEN <<>>
                ELSE <<With(doc, u.field, num((IF is_number(cur) THEN Double(cur) ELSE 0) + Double(u.value)))>>
      [] u.op = "push" ->
            LET cur == Lookup(doc, <<u.field>>)
            IN  IF cur = Missing THEN <<With(doc, u.field, <<"arr", <<u.value>>>>)>>
                ELSE IF Kind(cur) # "arr" THEN <<>>
                ELSE <<With(doc, u.field, <<"arr", Append(cur[2], u.value)>>)>>
      [] u.op = "pull" ->
            LET cur == Lookup(doc, <<u.field>>)
                other(e) == e # u.value
            IN  IF cur = Missing \/ Kind(cur) # "arr" THEN <<doc>>
                ELSE <<With(doc, u.field, <<"arr", SelectSeq(cur[2], other)>>)>>
-----------------------------------------------------------------------------
(* Three-valued logic, and a fourth value: the statement fails. *)

Holds3(b) == IF b THEN "true" ELSE "false"
Not3(x) == CASE x = "true" -> "false" [] x = "false" -> "true" [] OTHER -> x
All3(S) == CASE "error" \in S -> "error" [] "false" \in S /\ "error" \notin S -> "false"
             [] "unknown" \in S /\ S \cap {"error", "false"} = {} -> "unknown" [] OTHER -> "true"
Any3(S) == Not3(All3({Not3(x) : x \in S}))

Rank(t) == CHOOSE i \in DOMAIN TextOrder : TextOrder[i] = t
CmpHolds(op, x, y) ==
    CASE op \in {"eq", "in"} -> x = y [] op \in {"ne", "nin"} -> x # y
      [] op = "gt" -> x > y [] op = "gte" -> x >= y [] op = "lt" -> x < y [] op = "lte" -> x <= y

Items(f) == IF f.op \in {"in", "nin"} THEN ToSet(f.value[2]) ELSE {f.value}

(* is_numeric: a number, or a list of nothing but numbers. *)
is_numeric(f) == Items(f) # {} /\ \A v \in Items(f) : is_number(v)

(* CAST(... AS DOUBLE), doubled again: no value when the text is no number. *)
(* The strings here that are numbers have one digit.                        *)
CastDouble(v) ==
    IF is_number(v) THEN {Double(v)}
    ELSE {Double(w) : w \in {n \in {"int", "float", "frac"} \X (0..9) : Text(n) = Text(v)}}

(* A stored text or number against one value of a comparison.  Numeric      *)
(* values make the accessor a CAST to a double, which fails on other text;  *)
(* otherwise texts are compared, those of the numbers of a mixed list too.  *)
Against(f, stored, value) ==
    IF stored = Missing THEN "unknown"
    ELSE IF is_numeric(f) THEN
        IF CastDouble(stored) = {} THEN "error"
        ELSE Holds3(\E x \in CastDouble(stored) : CmpHolds(f.op, x, Double(value)))
    ELSE IF f.op \in {"eq", "ne", "in", "nin", "regex"} THEN
        Holds3((Text(stored) = Text(value)) = (f.op \in {"eq", "in", "regex"}))
    ELSE Holds3(CmpHolds(f.op, Rank(Text(stored)), Rank(Text(value))))

(* cmp_sql_col and cmp_sql: $ne and $nin also keep rows without the field. *)
cmp_sql_col(stored, f) ==
    CASE f.op = "exists" -> Holds3((stored # Missing) = f.value[2])
      [] f.op = "in" -> Any3({Against(f, stored, v) : v \in Items(f)})
      [] f.op \in {"ne", "nin"} ->
            Any3({All3({Against(f, stored, v) : v \in Items(f)}), Holds3(stored = Missing)})
      [] OTHER -> Against(f, stored, f.value)

(* The accessor doc->>'a': the value itself carries its text. *)
cmp_sql(doc, f) == cmp_sql_col(Lookup(doc, f.path), f)

value_matches_type(v, t) ==
    CASE t = "number" -> is_whole_number(v) [] t = "bool" -> Kind(v) = "bool" [] t = "text" -> Kind(v) = "str"
canonicalize_number_for_index(v) == IF Kind(v) = "float" THEN <<"int", v[2]>> ELSE v

use_index(f, t) ==
    \/ f.op = "exists"
    \/ f.op \in {"in", "nin"} /\ Items(f) # {} /\ \A v \in Items(f) : value_matches_type(v, t)
    \/ f.op \notin {"exists", "in", "nin"} /\ value_matches_type(f.value, t)
Canonical(f) ==
    [f EXCEPT !.value = IF f.op \in {"in", "nin"}
                        THEN <<"arr", [i \in DOMAIN @[2] |-> canonicalize_number_for_index(@[2][i])]>>
                        ELSE canonicalize_number_for_index(@)]

(* A row is [doc, cols]: cols maps the derived columns to what they hold,   *)
(* types to their types.                                                    *)
CmpIndexed(row, types, f) ==
    LET col == derived_col(f.path)
    IN  IF col \in DOMAIN types /\ use_index(f, types[col])
        THEN cmp_sql_col(row.cols[col], IF types[col] = "number" THEN Canonical(f) ELSE f)
        ELSE cmp_sql(row.doc, f)

(* to_df_expr: json_get_str takes the path as one key; $ne and $nin compare *)
(* only; $regex is rejected.                                                *)
cmp_df_expr(doc, f) ==
    LET v == IF Len(f.path) = 1 THEN Lookup(doc, f.path) ELSE Missing
    IN  CASE f.op = "regex" -> "error"
          [] f.op = "exists" -> Holds3((v # Missing) = f.value[2])
          [] f.op = "in" -> Any3({Against(f, v, w) : w \in Items(f)})
          [] f.op = "nin" -> All3({Against(f, v, w) : w \in Items(f)})
          [] OTHER -> Against(f, v, f.value)

(* One level of a filter (parse), from what its parts evaluate to. *)
Connect(kind, truths) ==
    CASE kind = "and" -> All3(truths)
      [] kind = "or" -> Any3(truths)
      [] kind = "not" -> Not3(CHOOSE t \in truths : TRUE)
Node(f, sub(_)) ==
    IF f.kind = "cmp" THEN sub(f) ELSE Connect(f.kind, {sub(g) : g \in ToSet(f.subs)})
(* The filters here are at most three levels deep. *)
Eval(f, leaf(_)) == Node(f, LAMBDA g : Node(g, LAMBDA h : Node(h, leaf)))

to_sql(f, doc) == Eval(f, LAMBDA g : cmp_sql(doc, g))
to_sql_indexed(f, row, types) == Eval(f, LAMBDA g : CmpIndexed(row, types, g))
to_df_expr(f, doc) == Eval(f, LAMBDA g : cmp_df_expr(doc, g))
-----------------------------------------------------------------------------
(* Shapes find looks for before the general lowering. *)

is_eq(f) == f.kind = "cmp" /\ f.op = "eq"
Eqs(f) == IF f.kind = "cmp" THEN <<f>> ELSE f.subs
has_eq_map(f) == is_eq(f) \/ (f.kind = "and" /\ \A i \in DOMAIN f.subs : is_eq(f.subs[i]))
(* A path that is compared twice keeps the later value. *)
eq_map(f) ==
    LET s == Eqs(f)
        last(p) == CHOOSE i \in DOMAIN s : s[i].path = p /\ \A j \in (i + 1)..Len(s) : s[j].path # p
    IN  [p \in {s[i].path : i \in DOMAIN s} |-> s[last(p)].value]

(* try_compound_match: a compound index all of whose fields are compared by *)
(* equality; the rest is compared through the accessor.                     *)
Covers(f, fields) == has_eq_map(f) /\ \A i \in DOMAIN fields : <<fields[i]>> \in DOMAIN eq_map(f)
CompoundMatch(f, row, col, fields) ==
    LET m == eq_map(f)
        rest == {p \in DOMAIN m : \A i \in DOMAIN fields : p # <<fields[i]>>}
    IN  All3({Holds3(row.cols[col] = [i \in DOMAIN fields |-> Text(m[<<fields[i]>>])])}
             \cup {cmp_sql(row.doc, [kind |-> "cmp", path |-> p, op |-> "eq", value |-> m[p]]) : p \in rest})

(* try_multikey_match: one equality on a field with a side table. *)
MultikeyShape(f, field) == is_eq(f) /\ derived_col(f.path) = field /\ Kind(f.value) # "null"
=============================================================================
