------------------------------ MODULE FtsRewrite ------------------------------
(***************************************************************************)
(* Full-text predicates of SQL (crates/bluedb-engine/src/fts_sql.rs, and   *)
(* rewrite_for, trigramize and translate_query): before a statement is     *)
(* planned, its first @@ becomes a list of the primary keys that a search  *)
(* found, and a LIKE is preceded by such a list.                           *)
(*                                                                         *)
(* A row is [id, words, text, st, rank]: words is the set of the words of  *)
(* the column "title", text the characters of "body", rank how well the    *)
(* row matches.  An expression is a record with a kind k: "col" name,      *)
(* "lit" v, "param" n, "fn" name args, "like" e pattern neg, "not" e,      *)
(* "nested" e, "in" e list neg, "bin" op l r (op "atat" is @@).  A         *)
(* statement is [kind, body, tables, where, by]; a term of its ORDER BY is *)
(* [rank, asc], or [case, asc] once it is rewritten.                       *)
(* The text of a query is a sequence of [op], "&" or "|", and of           *)
(* [w, neg, weight] for a word, after a ! (or -) when neg, with a marker   *)
(* such as ":A" when weight is not "".                                     *)
(***************************************************************************)
EXTENDS Integers, Sequences, FiniteSets, SequencesExt, TLC

CONSTANTS Docs,         \* the rows of the table "docs"
          Indexes,      \* the declared indexes, of [table, column, kind]
          UNION_LIMIT   \* keys that a search returns

No == [k |-> "no"]
Rejected == [k |-> "rejected"]
-----------------------------------------------------------------------------
(* The query of tantivy that the text of a tsquery becomes. *)
Word(w, neg) == [w |-> w, neg |-> neg]
Lexemes(text) == SelectSeq(text, LAMBDA t : "w" \in DOMAIN t /\ t.w # "")
strip_weight(lexeme) == Word(lexeme.w, lexeme.neg)
Joined(words) ==
    FlattenSeq([i \in DOMAIN words |-> IF i = 1 THEN <<words[i]>> ELSE <<[op |-> "AND"], words[i]>>])
translate_query(text, kind) ==
    CASE kind = "plain" ->
            Joined(FlattenSeq([i \in DOMAIN text |->
                IF "op" \in DOMAIN text[i] THEN <<>>
                ELSE SelectSeq(<<Word(text[i].w, FALSE), Word(text[i].weight, FALSE)>>, LAMBDA u : u.w # "")]))
      [] OTHER ->
            FlattenSeq([i \in DOMAIN text |->
                IF "op" \in DOMAIN text[i]
                THEN IF kind = "websearch" /\ text[i].op = "&" THEN <<>>
                     ELSE <<[op |-> IF text[i].op = "&" THEN "AND" ELSE "OR"]>>
                ELSE IF text[i].w = "" THEN <<>> ELSE <<strip_weight(text[i])>>])

(* tantivy: alternatives of words that must, must not or should occur.  A   *)
(* word with no AND beside it only should; an alternative of negations is   *)
(* empty.                                                                   *)
Alternatives(tokens) ==
    LET ors == {0, Len(tokens) + 1} \cup {i \in DOMAIN tokens : "op" \in DOMAIN tokens[i] /\ tokens[i].op = "OR"}
    IN  {SubSeq(tokens, i + 1, j - 1) : <<i, j>> \in {p \in ors \X ors : p[1] < p[2] /\ \A k \in ors : ~ (p[1] < k /\ k < p[2])}}
Satisfied(tokens, words) ==
    \E alt \in Alternatives(tokens) :
        LET at == {i \in DOMAIN alt : "w" \in DOMAIN alt[i]}
            positive == {i \in at : ~ alt[i].neg}
            must == {i \in positive : \E j \in DOMAIN alt \ at : j \in {i - 1, i + 1}}
        IN  /\ positive # {}
            /\ \A i \in at : alt[i].neg => alt[i].w \notin words
            /\ \A i \in must : alt[i].w \in words
            /\ must = {} => \E i \in positive : alt[i].w \in words

(* A search: what union_hits gives when both tiers are up to date           *)
(* (FtsEngine says when they are), best first.                              *)
Best(rows) == SetToSortSeq(rows, LAMBDA r, s : r.rank > s.rank)
Hits(rows) == LET best == Best(rows) IN [i \in 1..(IF Len(best) < UNION_LIMIT THEN Len(best) ELSE UNION_LIMIT) |-> best[i].id]
search(pred) == Hits({row \in Docs : Satisfied(translate_query(pred.query, pred.kind), row.words)})
-----------------------------------------------------------------------------
as_identifier(e) == IF e.k = "col" THEN {e.name} ELSE {}
as_string_literal(e) == IF e.k = "lit" /\ "text" \in DOMAIN e.v THEN {e.v.text} ELSE {}
as_query_text(e, params) ==
    CASE e.k = "param" -> IF e.n \in DOMAIN params /\ "text" \in DOMAIN params[e.n] THEN {params[e.n].text} ELSE {}
      [] OTHER -> as_string_literal(e)
parse_tsvector(e) ==
    IF e.k = "fn" /\ e.name = "to_tsvector" /\ Len(e.args) = 2 /\ as_string_literal(e.args[1]) # {}
    THEN as_identifier(e.args[2]) ELSE {}
TsQueryKind == [to_tsquery |-> "to_tsquery", plainto_tsquery |-> "plain", websearch_to_tsquery |-> "websearch"]
parse_tsquery(e, params) ==
    IF e.k = "fn" /\ e.name \in DOMAIN TsQueryKind /\ Len(e.args) = 1
    THEN {[kind |-> TsQueryKind[e.name], query |-> text] : text \in as_query_text(e.args[1], params)} ELSE {}

(* The first @@ of a WHERE, and the statement's predicate: none, the        *)
(* predicate, or an error when the statement has another shape.             *)
RECURSIVE find_at_at(_)
find_at_at(e) ==
    CASE e.k = "bin" /\ e.op = "atat" -> e
      [] e.k = "bin" /\ e.op # "atat" -> IF find_at_at(e.l) # No THEN find_at_at(e.l) ELSE find_at_at(e.r)
      [] e.k = "nested" -> find_at_at(e.e)
      [] OTHER -> No
extract_fts_predicate(st, params) ==
    LET at == IF st.kind = "query" /\ st.body = "select" THEN find_at_at(st.where) ELSE No
        column == parse_tsvector(at.l)
        query == parse_tsquery(at.r, params)
    IN  CASE at = No -> No
          [] Len(st.tables) # 1 -> Rejected
          [] column = {} \/ query = {} -> Rejected
          [] OTHER -> LET q == CHOOSE x \in query : TRUE
                      IN  [k |-> "fts", table |-> st.tables[1], column |-> CHOOSE c \in column : TRUE,
                           query |-> q.query, kind |-> q.kind]

(* A list of primary keys, or one that no row is in. *)
PkColumn == [k |-> "col", name |-> "id"]
int_literal(n) == [k |-> "lit", v |-> [num |-> n]]
never_match == [k |-> "in", e |-> PkColumn, list |-> <<[k |-> "lit", v |-> [null |-> TRUE]]>>, neg |-> FALSE]
PkIn(hits) ==
    IF hits = <<>> THEN never_match
    ELSE [k |-> "in", e |-> PkColumn, list |-> [i \in DOMAIN hits |-> int_literal(hits[i])], neg |-> FALSE]

RECURSIVE replace_at_at(_, _)
replace_at_at(e, replacement) ==
    CASE e.k = "bin" /\ e.op = "atat" -> replacement
      [] e.k = "bin" /\ e.op # "atat" ->
            IF find_at_at(e.l) # No THEN [e EXCEPT !.l = replace_at_at(@, replacement)]
            ELSE [e EXCEPT !.r = replace_at_at(@, replacement)]
      [] e.k = "nested" -> [e EXCEPT !.e = replace_at_at(@, replacement)]
      [] OTHER -> e
is_ts_rank(term) == "rank" \in DOMAIN term
rewrite_fts_query(st, hits) ==
    [st EXCEPT !.where = replace_at_at(@, PkIn(hits)),
               !.by = [i \in DOMAIN @ |-> IF is_ts_rank(@[i]) THEN [case |-> hits, asc |-> TRUE] ELSE @[i]]]
rewrite_at_at(st, params) ==
    LET pred == extract_fts_predicate(st, params)
    IN  CASE pred.k # "fts" -> pred
          [] [table |-> pred.table, column |-> pred.column, kind |-> "fulltext"] \notin Indexes -> Rejected
          [] OTHER -> rewrite_fts_query(st, search(pred)) @@ [k |-> "statement"]
-----------------------------------------------------------------------------
(* LIKE over a trigram index.  A pattern is a sequence of characters, "%"   *)
(* and "_" among them.                                                      *)
RECURSIVE find_like(_)
find_like(e) ==
    CASE e.k = "like" -> IF e.neg \/ as_identifier(e.e) = {} \/ as_string_literal(e.pattern) = {} THEN No ELSE e
      [] e.k = "bin" -> IF find_like(e.l) # No THEN find_like(e.l) ELSE find_like(e.r)
      [] e.k = "nested" -> find_like(e.e)
      [] OTHER -> No
clean_infix_core(pattern) ==
    LET n == Len(pattern)
        rest == IF n > 0 /\ pattern[1] = "%" THEN Tail(pattern) ELSE pattern
        core == IF rest # <<>> /\ Last(rest) = "%" THEN Front(rest) ELSE rest
    IN  IF Len(core) < 3 \/ ToSet(core) \cap {"%", "_"} # {} THEN {} ELSE {core}
extract_like_predicate(st) ==
    LET like == IF st.kind = "query" /\ st.body = "select" /\ Len(st.tables) = 1 THEN find_like(st.where) ELSE No
        cores == UNION {clean_infix_core(p) : p \in as_string_literal(like.pattern)}
    IN  IF like = No THEN No
        ELSE IF cores = {} THEN No
        ELSE [k |-> "like", table |-> st.tables[1], column |-> like.e.name, literal |-> CHOOSE c \in cores : TRUE]

lower(text) == [i \in DOMAIN text |-> IF text[i] = "X" THEN "x" ELSE text[i]]
trigramize(text) == IF Len(text) < 3 THEN {} ELSE {SubSeq(lower(text), i, i + 2) : i \in 1..(Len(text) - 2)}
rewrite_like_query(st, candidates) ==
    [st EXCEPT !.where = [k |-> "bin", op |-> "and", l |-> PkIn(candidates), r |-> [k |-> "nested", e |-> @]]]
rewrite_like(st) ==
    LET pred == extract_like_predicate(st)
    IN  IF pred = No THEN No
        ELSE IF [table |-> pred.table, column |-> pred.column, kind |-> "trigram"] \notin Indexes THEN No
        ELSE rewrite_like_query(st, Hits({row \in Docs : trigramize(pred.literal) \subseteq trigramize(row.text)}))
                @@ [k |-> "statement"]

(* The statement that runs. *)
rewrite_for(st, params) == LET fts == rewrite_at_at(st, params) IN IF fts = No THEN rewrite_like(st) ELSE fts
-----------------------------------------------------------------------------
(* What statements mean.  GlueSQL has no @@ and no ts_rank and refuses what *)
(* is left of them; Meant reads them as PostgreSQL does.                    *)
RECURSIVE Knows(_)
Knows(e) ==
    CASE e.k = "bin" -> e.op # "atat" /\ Knows(e.l) /\ Knows(e.r)
      [] e.k \in {"nested", "not"} -> Knows(e.e)
      [] e.k = "fn" -> FALSE
      [] OTHER -> TRUE
RECURSIVE Like(_, _)
Like(text, pattern) ==
    IF pattern = <<>> THEN text = <<>>
    ELSE CASE Head(pattern) = "%" -> \E i \in 0..Len(text) : Like(SubSeq(text, i + 1, Len(text)), Tail(pattern))
           [] Head(pattern) = "_" -> text # <<>> /\ Like(Tail(text), Tail(pattern))
           [] OTHER -> text # <<>> /\ Head(text) = Head(pattern) /\ Like(Tail(text), Tail(pattern))
(* The alternatives of a tsquery, whose words must all be as it says. *)
Wanted(text, kind, words) ==
    LET alts == IF kind = "plain" THEN {text} ELSE Alternatives([i \in DOMAIN text |-> IF text[i] = [op |-> "|"] THEN [op |-> "OR"] ELSE text[i]])
    IN  \E alt \in alts :
            LET terms == ToSet(Lexemes(alt))
            IN  terms # {} /\ \A t \in terms : IF kind = "plain" THEN {t.w, t.weight} \ {""} \subseteq words
                                               ELSE (t.w \in words) # t.neg
RECURSIVE Meant(_, _, _)
Meant(e, row, params) ==
    CASE e.k = "bin" /\ e.op = "and" -> Meant(e.l, row, params) /\ Meant(e.r, row, params)
      [] e.k = "bin" /\ e.op = "or" -> Meant(e.l, row, params) \/ Meant(e.r, row, params)
      [] e.k = "bin" /\ e.op = "is" -> Meant(e.l, row, params) = e.r.v.bool
      [] e.k = "bin" /\ e.op = "=" -> row.st = e.r.v.num
      [] e.k = "bin" /\ e.op = "atat" -> \E q \in parse_tsquery(e.r, params) : Wanted(q.query, q.kind, row.words)
      [] e.k = "nested" -> Meant(e.e, row, params)
      [] e.k = "not" -> ~ Meant(e.e, row, params)
      [] e.k = "like" -> (\E p \in as_string_literal(e.pattern) : Like(row.text, p)) # e.neg
      [] e.k = "in" -> \E i \in DOMAIN e.list : e.list[i] = int_literal(row.id)
Position(hits, id) == IF id \in ToSet(hits) THEN (CHOOSE i \in DOMAIN hits : hits[i] = id) - 1 ELSE Len(hits)

(* A statement that runs selects the rows it means (find_at_at,             *)
(* replace_at_at, extract_like_predicate), and in ORDER BY ts_rank the      *)
(* better match is first (rewrite_fts_query).                               *)
SameRows(st, runs, params) == \A row \in Docs : Meant(runs.where, row, params) = Meant(st.where, row, params)
Ranked(term, hits) ==
    \A r, s \in {row \in Docs : row.id \in ToSet(hits)} :
        (IF term.asc THEN r.rank < s.rank ELSE r.rank > s.rank) => Position(hits, r.id) < Position(hits, s.id)
Answers(st, runs, params) ==
    /\ Knows(runs.where) => SameRows(st, runs, params)
    /\ \A i \in DOMAIN st.by : is_ts_rank(st.by[i]) /\ runs.by[i] # st.by[i] => Ranked(st.by[i], runs.by[i].case)
OutAnswers(st, out, params) == out # Rejected => Answers(st, IF out = No THEN st ELSE out, params)
FtsAgrees(st, params) == OutAnswers(st, rewrite_for(st, params), params)
=============================================================================
