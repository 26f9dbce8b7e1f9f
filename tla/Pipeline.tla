------------------------------ MODULE Pipeline ------------------------------
(***************************************************************************)
(* The aggregation pipeline (crates/bluedb-collections/src/pipeline.rs and *)
(* aggregate in crates/bluedb-server/src/collections.rs).  A stage works   *)
(* on a frame of columns.  A document's field is not a column: it is read  *)
(* out of the column "doc" as text, until a stage has made a column of it; *)
(* which fields are columns is kept in a set beside the frame.             *)
(*                                                                         *)
(* A frame is [cols, rows, mat, err]: the columns it has, its rows in      *)
(* order (column -> text, or Missing; "doc" -> a document), the            *)
(* materialized fields, and whether planning has failed.  A stage is a     *)
(* record [st, ...].  External: DataFusion's operators.                    *)
(***************************************************************************)
EXTENDS Documents

Txt(v) == IF v = Missing THEN Missing ELSE Str(Text(v))
Failed(fr) == [fr EXCEPT !.err = TRUE]

(* field_expr: the column if the field has been materialized, else the text *)
(* accessor, which needs the column doc.                                    *)
IsColumn(fr, f) == f = "_id" \/ f \in fr.mat
Readable(fr, f) == IF IsColumn(fr, f) THEN f \in fr.cols ELSE "doc" \in fr.cols
field_expr(fr, f, row) == IF IsColumn(fr, f) THEN row[f] ELSE Txt(Lookup(row["doc"], <<f>>))

(* to_df_expr in a frame: equality, existence and $ne on one field. *)
CmpColumn(v, g) == cmp_df_expr(IF v = Missing THEN <<>> ELSE (g.path[1] :> v), g)
stage_match(fr, s) ==
    IF ~ Readable(fr, s.f.path[1]) THEN Failed(fr)
    ELSE [fr EXCEPT !.rows = SelectSeq(@, LAMBDA row : CmpColumn(field_expr(fr, s.f.path[1], row), s.f) = "true")]

stage_limit(fr, s) ==
    [fr EXCEPT !.rows = IF s.st = "$limit" THEN SubSeq(@, 1, IF s.n < Len(@) THEN s.n ELSE Len(@))
                        ELSE SubSeq(@, s.n + 1, Len(@))]

(* $sort: by the text of a field, missing values last. *)
TextRank(v) == IF v = Missing THEN Len(TextOrder) + 1 ELSE Rank(v[2])
stage_sort(fr, s) ==
    LET key(row) == LET r == TextRank(field_expr(fr, s.field, row)) IN IF s.asc \/ r > Len(TextOrder) THEN r ELSE -r
    IN  IF ~ Readable(fr, s.field) THEN Failed(fr)
        ELSE [fr EXCEPT !.rows = SortSeq(@, LAMBDA x, y : key(x) < key(y))]

(* $group with a counting accumulator ({$sum: 1}, {$count: {}}), and the    *)
(* stage $count, whose output is not marked; the arithmetic of the other    *)
(* accumulators is left out.                                                *)
Count(seq, Test(_)) == Len(SelectSeq(seq, Test))
Out(f) == <<"int", f>>
stage_group(fr, s) ==
    LET key(row) == IF s.by = <<>> THEN <<>> ELSE field_expr(fr, s.by[1], row)
        keys == SetToSeq({key(fr.rows[i]) : i \in DOMAIN fr.rows})
        n(k) == Count(fr.rows, LAMBDA row : key(row) = k)
    IN  IF s.by # <<>> /\ ~ Readable(fr, s.by[1]) THEN Failed(fr)
        ELSE [fr EXCEPT !.cols = {s.out} \cup IF s.by = <<>> THEN {} ELSE {"_id"},
                        !.rows = IF s.by = <<>> THEN <<(s.out :> Out(Len(fr.rows)))>>
                                 ELSE [i \in DOMAIN keys |-> ("_id" :> keys[i]) @@ (s.out :> Out(n(keys[i])))],
                        !.mat = IF s.st = "$group" THEN @ \cup {s.out} ELSE @]

(* $project replaces the columns, $addFields and $set append one. *)
stage_project(fr, s) ==
    LET cell(row) == (s.out :> field_expr(fr, s.from, row))
    IN  IF ~ Readable(fr, s.from) THEN Failed(fr)
        ELSE [fr EXCEPT !.cols = IF s.st = "$project" THEN {s.out} ELSE @ \cup {s.out},
                        !.rows = [i \in DOMAIN @ |-> IF s.st = "$project" THEN cell(@[i]) ELSE cell(@[i]) @@ @[i]],
                        !.mat = @ \cup {s.out}]

(* $unwind: json_array of the document, one row for each element. *)
Unnested(fr, s) ==
    LET array(row) == LET v == Lookup(row["doc"], <<s.field>>) IN IF v # Missing /\ Kind(v) = "arr" THEN v[2] ELSE <<>>
        unnest(row) == [i \in DOMAIN array(row) |-> (s.field :> Txt(array(row)[i])) @@ row]
    IN  IF "doc" \notin fr.cols THEN Failed(fr)
        ELSE [fr EXCEPT !.cols = @ \cup {s.field},
                        !.rows = FlattenSeq([i \in DOMAIN @ |-> unnest(@[i])])]

stage_unwind(fr, s) == [Unnested(fr, s) EXCEPT !.mat = @ \cup {s.field}]

(* $lookup: a left join on the accessor (never a materialized column), then *)
(* grouped by every column of the left row.  A row without a match gets [] *)
(* (reinflate_lookup_arrays).                                               *)
key_expr(row, f) == IF f = "_id" THEN row["_id"] ELSE Txt(Lookup(row["doc"], <<f>>))
Nested(docs) == <<"arr", [i \in DOMAIN docs |-> <<"obj", docs[i]>>]>>
stage_lookup(fr, s) ==
    LET lefts == SetToSeq(ToSet(fr.rows))
        times(row) == Count(fr.rows, LAMBDA other : other = row)
        matches(row) == SelectSeq(s.from, LAMBDA d : key_expr(row, s.local) # Missing
                                                     /\ Txt(Lookup(d, <<s.foreign>>)) = key_expr(row, s.local))
    IN  IF "doc" \notin fr.cols THEN Failed(fr)
        ELSE [fr EXCEPT !.cols = @ \cup {s.as},
                        !.rows = [i \in DOMAIN lefts |->
                                    (s.as :> Nested(FlattenSeq([j \in 1..times(lefts[i]) |-> matches(lefts[i])]))) @@ lefts[i]]]

apply_stage(fr, s) ==
    IF fr.err THEN fr
    ELSE CASE s.st = "$match" -> stage_match(fr, s)
           [] s.st = "$sort" -> stage_sort(fr, s)
           [] s.st \in {"$limit", "$skip"} -> stage_limit(fr, s)
           [] s.st \in {"$group", "$count"} -> stage_group(fr, s)
           [] s.st \in {"$project", "$addFields"} -> stage_project(fr, s)
           [] s.st = "$unwind" -> stage_unwind(fr, s)
           [] s.st = "$lookup" -> stage_lookup(fr, s)
           [] OTHER -> Failed(fr)
apply_pipeline(docs, stages) ==
    FoldLeft(apply_stage,
             [cols |-> {"_id", "doc"}, rows |-> [i \in DOMAIN docs |-> ("_id" :> Str(docs[i][1])) @@ ("doc" :> docs[i][2])],
              mat |-> {}, err |-> FALSE],
             stages)
-----------------------------------------------------------------------------
(* The reference: a stage maps documents to documents. *)

Field(d, f) == Txt(Lookup(d, <<f>>))
Meaning1(ds, s) ==
    CASE s.st = "$match" -> SelectSeq(ds, LAMBDA d : CmpColumn(Field(d, s.f.path[1]), s.f) = "true")
      [] s.st = "$sort" ->
            LET key(d) == LET r == TextRank(Field(d, s.field)) IN IF s.asc \/ r > Len(TextOrder) THEN r ELSE -r
            IN  SortSeq(ds, LAMBDA x, y : key(x) < key(y))
      [] s.st \in {"$limit", "$skip"} -> stage_limit([rows |-> ds], s).rows
      [] s.st \in {"$group", "$count"} ->
            LET key(d) == IF s.by = <<>> THEN <<>> ELSE Field(d, s.by[1])
                keys == SetToSeq({key(ds[i]) : i \in DOMAIN ds})
            IN  IF s.by = <<>> THEN <<(s.out :> Out(Len(ds)))>>
                ELSE [i \in DOMAIN keys |->
                        ("_id" :> keys[i]) @@ (s.out :> Out(Count(ds, LAMBDA d : key(d) = keys[i])))]
      [] s.st = "$project" -> [i \in DOMAIN ds |-> (s.out :> Field(ds[i], s.from))]
      [] s.st = "$addFields" -> [i \in DOMAIN ds |-> (s.out :> Field(ds[i], s.from)) @@ ds[i]]
      [] s.st = "$unwind" ->
            LET unnest(d) == LET v == Lookup(d, <<s.field>>)
                             IN  IF v = Missing \/ Kind(v) # "arr" THEN <<>>
                                 ELSE [j \in DOMAIN v[2] |-> (s.field :> v[2][j]) @@ d]
            IN  FlattenSeq([i \in DOMAIN ds |-> unnest(ds[i])])
      [] s.st = "$lookup" ->
            [i \in DOMAIN ds |->
                (s.as :> Nested(SelectSeq(s.from, LAMBDA d : Field(ds[i], s.local) # Missing
                                                             /\ Field(d, s.foreign) = Field(ds[i], s.local)))) @@ ds[i]]
Meaning(docs, stages) ==
    FoldLeft(Meaning1, [i \in DOMAIN docs |-> ("_id" :> Str(docs[i][1])) @@ docs[i][2]], stages)

(* What the answer shows of a field: its column, else the document's. *)
Shown(v) == IF v = Missing \/ Kind(v) \in {"str", "int", "float", "frac", "bool"} THEN Txt(v) ELSE v
Cell2(row, f) == Shown(IF f \in DOMAIN row THEN row[f] ELSE IF "doc" \in DOMAIN row THEN Lookup(row["doc"], <<f>>) ELSE Missing)
AsBag(rows, fields) ==
    LET view == [i \in DOMAIN rows |-> [f \in fields |-> Cell2(rows[i], f)]]
    IN  [v \in ToSet(view) |-> Count(view, LAMBDA w : w = v)]

(* A pipeline that is planned at all returns the documents its stages       *)
(* describe: in particular a field that a stage unwound, added or grouped   *)
(* is the field later stages see (Ctx.materialized, field_expr).            *)
PipelineAgrees(docs, stages, fields) ==
    LET fr == apply_pipeline(docs, stages)
    IN  ~ fr.err => AsBag(fr.rows, fields) = AsBag(Meaning(docs, stages), fields)
=============================================================================
