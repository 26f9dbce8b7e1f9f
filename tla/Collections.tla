----------------------------- MODULE Collections -----------------------------
(***************************************************************************)
(* The document API (crates/bluedb-server/src/collections.rs and search.rs)*)
(* over one collection.  A document is stored as one row of a SQL table    *)
(* and again in what speeds up finding it: derived columns of that row,    *)
(* the rows of multikey side tables, the copies of a search index.  No     *)
(* transaction spans them: a request runs one SQL statement after another, *)
(* each durable on its own, and may stop between two.  Here a request is   *)
(* the list of statements it has left; a statement is one step.            *)
(*                                                                         *)
(* loose is a ghost: the documents for which the code does not keep the    *)
(* copies equal to the document, because two requests wrote them at once,  *)
(* one stopped halfway or wrote with a list of columns read before an      *)
(* index appeared, a maintenance step failed, a sweep deleted only the     *)
(* row, or a backfill stopped at the scan cap or read nothing.  Trusted    *)
(* names the last causes that are to be taken for harmless.                *)
(*                                                                         *)
(* External: the SQL store (SqlStore: a statement is atomic and durable),  *)
(* the merged read of the writer (LakehouseMirror: it is current), the     *)
(* search index (an update replaces the copies of an id, an append adds    *)
(* one).  Secondary indexes on derived columns only change speed.          *)
(***************************************************************************)
EXTENDS Documents

CONSTANTS
    Id,              \* the documents' _ids: numbers, in the order of the keys
    Client,          \* document requests in flight at the same time
    Sweeper,         \* the TTL scheduler, a member of Client
    DocRequest,      \* what each client asks for; the scheduler asks for sweeps
    InitialDocs,     \* the documents the collection starts with, by _id
    UNFILTERED_SCAN_CAP,
    Trusted,         \* a subset of {"sweep", "scan_cap", "read"}
    MaxDocRequests, MaxDocFaults, MaxClock  \* bounds

VARIABLES
    rows,      \* _id -> [doc, cols]
    types,     \* derived columns: name -> [type, unique, path], or fields for a compound one
    sides,     \* fields with a multikey side table
    sideRows,  \* their rows <<field, _id, element>>
    mapping,   \* whether the collection has a search mapping
    hits,      \* the live copies <<_id, document>> of the search index
    ttl,       \* NoTtl or [field, seconds]
    ttlTenant, \* whether the tenant is registered for sweeps
    clock,
    reqs,      \* per client: the request in flight
    loose, docStarted, docFaults

collVars == <<rows, types, sides, sideRows, mapping, hits, ttl, ttlTenant, clock, reqs, loose, docStarted, docFaults>>
tableVars == <<rows, types, sides, sideRows>>
searchVars == <<mapping, hits>>
ttlVars == <<ttl, ttlTenant, clock>>
boundVars == <<docStarted, docFaults>>

NoTtl == [field |-> "", seconds |-> 0]
NoDocRequest == [busy |-> FALSE, todo |-> <<>>, cols |-> <<>>, ids |-> {}, wrote |-> {}, whole |-> {}, foul |-> {}]
-----------------------------------------------------------------------------
(* What is stored for a document. *)

Cell1(cols, c, doc) ==
    IF cols[c].type = "compound" THEN compound_key(doc, cols[c].fields)
    ELSE derive_typed_value(doc, PathOfColumn(c), cols[c].type)
Cells(cols, doc) == [c \in DOMAIN cols |-> Cell1(cols, c, doc)]
ViolatesUnique(id, cells) ==
    \E c \in DOMAIN cells \cap DOMAIN types : \E other \in DOMAIN rows \ {id} :
        types[c].unique /\ cells[c] # Missing /\ rows[other].cols[c] = cells[c]
Elements(doc, field) == ToSet(multikey_elements(doc, field))

(* The rows a WHERE selects; <<>> when it fails on one, which fails the      *)
(* statement.                                                               *)
Selects(truth(_)) ==
    IF \E id \in DOMAIN rows : truth(id) = "error" THEN <<>>
    ELSE <<{id \in DOMAIN rows : truth(id) = "true"}>>

(* The reads of update and delete use the derived columns only. *)
MatchedIn(f, cols) ==
    LET single == [c \in {d \in DOMAIN cols : cols[d].type # "compound"} |-> cols[c].type]
    IN  Selects(LAMBDA id : to_sql_indexed(f, rows[id], single))

(* find: the side table, then a compound column, then the derived columns.  *)
find(f) ==
    LET mk == {s \in sides : MultikeyShape(f, s)}
        compound == {c \in DOMAIN types : types[c].type = "compound" /\ Covers(f, types[c].fields)}
        Listed(id) == Holds3(\E s \in mk : <<s, id, Text(f.value)>> \in sideRows)
        Keyed(id) == LET c == CHOOSE d \in compound : TRUE
                     IN  CompoundMatch(f, rows[id], c, types[c].fields)
    IN  IF mk # {} THEN Selects(Listed) ELSE IF compound # {} THEN Selects(Keyed) ELSE MatchedIn(f, types)

field_epoch(doc, field) ==
    LET v == Lookup(doc, <<field>>)
    IN  IF is_number(v) THEN <<Double(v) \div 2>> ELSE <<>>
Expired(id) ==
    LET e == field_epoch(rows[id].doc, ttl.field) IN e # <<>> /\ e[1] + ttl.seconds <= clock
-----------------------------------------------------------------------------
(* Statement lists.                                                         *)

Do(what, id, doc) == [do |-> what, id |-> id, doc |-> doc]
write_full_doc(id, doc) == <<Do("insert", id, doc), Do("sides", id, doc)>>

rewrite_doc_row(id, doc) == <<Do("rewrite", id, doc), Do("resides", id, doc)>>

delete_doc(id) == <<Do("unsides", id, <<>>), Do("delete", id, <<>>)>>

(* The statements on one side table: DELETE, and one INSERT per element. *)
ClearSide(field, id) == <<[do |-> "clear_side", field |-> field, id |-> id]>>
FillSide(field, id, doc) ==
    LET elems == multikey_elements(doc, field)
    IN  [i \in DOMAIN elems |-> [do |-> "element", row |-> <<field, id, elems[i]>>]]
SideSteps(st, field) ==
    CASE st.do = "sides" -> FillSide(field, st.id, st.doc)
      [] st.do = "resides" -> ClearSide(field, st.id) \o FillSide(field, st.id, st.doc)
      [] st.do = "unsides" -> ClearSide(field, st.id)
Maintain(docs) == [do |-> "maintain", docs |-> docs]
FailNow == [do |-> "fail"]

(* update, once the matches are read: each document is changed in memory,   *)
(* written if it differs; an update that cannot be applied ends the list.   *)
UpdatePlan(r, ids) ==
    LET order == SetToSeq(ids)
        new(id) == apply_update(rows[id].doc, r.update)
        bad == {i \in DOMAIN order : new(order[i]) = <<>>}
        upTo == IF bad = {} THEN Len(order) ELSE Min(bad) - 1
        changed == SelectSeq(SubSeq(order, 1, upTo), LAMBDA id : new(id)[1] # rows[id].doc)
    IN  FlattenSeq([i \in DOMAIN changed |-> rewrite_doc_row(changed[i], new(changed[i])[1])])
          \o IF bad # {} THEN <<FailNow>>
             ELSE <<Maintain({<<changed[i], new(changed[i])[1]>> : i \in DOMAIN changed})>>
UpsertPlan(r) ==
    LET new == apply_update(<<>>, r.update)
    IN  IF new = <<>> THEN <<FailNow>>
        ELSE write_full_doc(r.id, new[1]) \o <<Maintain({<<r.id, new[1]>>})>>
DeletePlan(ids) ==
    LET order == SetToSeq(ids)
    IN  FlattenSeq([i \in DOMAIN order |-> delete_doc(order[i])]) \o <<[do |-> "unindex", ids |-> ids]>>

(* What a request does first; the columns are listed as it starts. *)
FirstSteps(r) ==
    CASE r.op = "insert" ->
            FlattenSeq([i \in DOMAIN r.docs |-> write_full_doc(r.docs[i][1], r.docs[i][2])])
               \o <<Maintain(ToSet(r.docs))>>
      [] r.op = "update" -> <<[do |-> "read_update", r |-> r]>>
      [] r.op = "delete" -> <<[do |-> "read_delete", r |-> r]>>
      [] r.op = "index" -> <<[do |-> "read_index", r |-> r]>>
      [] r.op = "compound" ->
            <<[do |-> "alter", col |-> r.col, def |-> [type |-> "compound", unique |-> r.unique, fields |-> r.fields]],
              [do |-> "read_compound", col |-> r.col]>>
      [] r.op = "search" -> <<[do |-> "map", on |-> FALSE], [do |-> "map", on |-> TRUE], [do |-> "backfill_search"]>>
      [] r.op = "sweep" -> <<[do |-> "sweep"]>>
KnownIds(r) ==
    CASE r.op = "insert" -> {r.docs[i][1] : i \in DOMAIN r.docs}
      [] r.op \in {"index", "compound", "search"} -> Id
      [] OTHER -> {}
-----------------------------------------------------------------------------
(* The ghost.  Claiming ids that another request in flight has claimed      *)
(* loosens them.                                                            *)

Contested(p, ids) == ids \cap UNION {reqs[q].ids : q \in Client \ {p}}
Claim(p, new) ==
    LET c == Contested(p, new.ids)
    IN  /\ reqs' = [q \in Client |-> IF q = p THEN [new EXCEPT !.foul = @ \cup c]
                                     ELSE [reqs[q] EXCEPT !.foul = @ \cup (c \cap reqs[q].ids)]]
        /\ loose' = loose \cup c

Stmt(p) == Head(reqs[p].todo)
Ready(p, what) == reqs[p].todo # <<>> /\ Stmt(p).do = what
Rest(p) == [reqs[p] EXCEPT !.todo = Tail(@)]
Wrote(p, id) == [Rest(p) EXCEPT !.wrote = @ \cup {id}]
(* The request stops: what it wrote so far is not followed up. *)
Stops(p, ids) ==
    /\ reqs' = [reqs EXCEPT ![p] = NoDocRequest]
    /\ loose' = loose \cup ids
Stale(p) == reqs[p].cols # types
-----------------------------------------------------------------------------
Accept(p, r) ==
    /\ ~ reqs[p].busy /\ docStarted < MaxDocRequests
    /\ Claim(p, [NoDocRequest EXCEPT !.busy = TRUE, !.todo = FirstSteps(r), !.cols = types, !.ids = KnownIds(r)])
    /\ docStarted' = docStarted + 1
    /\ UNCHANGED <<tableVars, searchVars, ttlVars, docFaults>>

(* write_full_doc: the row with its derived columns.  A duplicate _id or    *)
(* unique value fails the request; the documents before it stay.            *)
InsertRow(p) ==
    /\ Ready(p, "insert")
    /\ LET st == Stmt(p)
           cells == Cells(reqs[p].cols, st.doc)
       IN  IF st.id \in DOMAIN rows \/ ViolatesUnique(st.id, cells)
           THEN Stops(p, reqs[p].wrote) /\ rows' = rows
           ELSE /\ rows' = (st.id :> [doc |-> st.doc,
                                      cols |-> [c \in DOMAIN types |-> IF c \in DOMAIN cells THEN cells[c] ELSE Missing]])
                             @@ rows
                /\ reqs' = [reqs EXCEPT ![p] = Wrote(p, st.id)]
                /\ loose' = loose \cup IF Stale(p) THEN {st.id} ELSE {}
    /\ UNCHANGED <<types, sides, sideRows, searchVars, ttlVars, boundVars>>

(* rewrite_doc_row: UPDATE ... WHERE _id, which may match no row. *)
RewriteRow(p) ==
    /\ Ready(p, "rewrite")
    /\ LET st == Stmt(p)
           cells == Cells(reqs[p].cols, st.doc)
       IN  IF st.id \in DOMAIN rows /\ ViolatesUnique(st.id, cells)
           THEN Stops(p, reqs[p].wrote) /\ rows' = rows
           ELSE /\ rows' = IF st.id \notin DOMAIN rows THEN rows
                           ELSE [rows EXCEPT ![st.id] = [doc |-> st.doc, cols |-> cells @@ @.cols]]
                /\ reqs' = [reqs EXCEPT ![p] = [Wrote(p, st.id) EXCEPT !.whole =
                                                   IF Stale(p) THEN @ ELSE @ \cup {st.id}]]
                /\ loose' = loose \cup IF Stale(p) THEN {st.id} ELSE {}
    /\ UNCHANGED <<types, sides, sideRows, searchVars, ttlVars, boundVars>>

(* multikey_side_tables: the tables there are now, in turn (write_full_doc,   *)
(* rewrite_doc_row, delete_multikey_for_doc).                               *)
ListSides(p) ==
    /\ Ready(p, "sides") \/ Ready(p, "resides") \/ Ready(p, "unsides")
    /\ LET order == SetToSeq(sides)
       IN  reqs' = [reqs EXCEPT ![p].todo = FlattenSeq([i \in DOMAIN order |-> SideSteps(Stmt(p), order[i])]) \o Tail(@)]
    /\ UNCHANGED <<tableVars, searchVars, ttlVars, loose, boundVars>>

(* insert_multikey_elements, one INSERT. *)
InsertElement(p) ==
    /\ Ready(p, "element")
    /\ sideRows' = sideRows \cup {Stmt(p).row}
    /\ reqs' = [reqs EXCEPT ![p] = Wrote(p, Stmt(p).row[2])]
    /\ UNCHANGED <<rows, types, sides, searchVars, ttlVars, loose, boundVars>>

(* DELETE FROM side WHERE _id, on one side table. *)
ClearOneSide(p) ==
    /\ Ready(p, "clear_side")
    /\ sideRows' = {s \in sideRows : s[1] # Stmt(p).field \/ s[2] # Stmt(p).id}
    /\ reqs' = [reqs EXCEPT ![p] = Wrote(p, Stmt(p).id)]
    /\ UNCHANGED <<rows, types, sides, searchVars, ttlVars, loose, boundVars>>

DeleteRow(p) ==
    /\ Ready(p, "delete")
    /\ LET id == Stmt(p).id
           leaves == {s \in sideRows : s[2] = id} # {} \/ {h \in hits : h[1] = id} # {}
       IN  /\ rows' = [i \in DOMAIN rows \ {id} |-> rows[i]]
           /\ reqs' = [reqs EXCEPT ![p] = [Wrote(p, id) EXCEPT !.whole = IF p = Sweeper THEN @ ELSE @ \cup {id}]]
           /\ loose' = loose \cup IF p = Sweeper /\ leaves /\ "sweep" \notin Trusted THEN {id} ELSE {}
    /\ UNCHANGED <<types, sides, sideRows, searchVars, ttlVars, boundVars>>

(* maintain_on_upsert and maintain_on_delete, after the writes; a failure   *)
(* is logged and swallowed.                                                 *)
ReplaceCopies(p) ==
    /\ Ready(p, "maintain")
    /\ LET docs == Stmt(p).docs
           ids == {d[1] : d \in docs}
       IN  hits' = IF mapping THEN {h \in hits : h[1] \notin ids} \cup docs ELSE hits
    /\ reqs' = [reqs EXCEPT ![p] = Rest(p)]
    /\ UNCHANGED <<tableVars, mapping, ttlVars, loose, boundVars>>

RemoveCopies(p) ==
    /\ Ready(p, "unindex")
    /\ hits' = IF mapping THEN {h \in hits : h[1] \notin Stmt(p).ids} ELSE hits
    /\ reqs' = [reqs EXCEPT ![p] = Rest(p)]
    /\ UNCHANGED <<tableVars, mapping, ttlVars, loose, boundVars>>

MaintenanceFails(p) ==
    /\ Ready(p, "maintain") \/ Ready(p, "unindex")
    /\ mapping /\ docFaults < MaxDocFaults
    /\ docFaults' = docFaults + 1
    /\ Stops(p, reqs[p].wrote)
    /\ UNCHANGED <<tableVars, searchVars, ttlVars, docStarted>>

(* All that a read found, or one of it. *)
Picks(found, multi) ==
    IF found = <<>> THEN {} ELSE IF multi \/ found[1] = {} THEN {found[1]} ELSE {{id} : id \in found[1]}

(* update: the routed read, at most one match unless multi.  With none and  *)
(* upsert, the update is applied to an empty document.  A read that fails   *)
(* fails the request.                                                       *)
ReadForUpdate(p) ==
    /\ Ready(p, "read_update")
    /\ LET r == Stmt(p).r
           found == MatchedIn(r.filter, reqs[p].cols)
           upserts == r.upsert /\ found = <<{}>>
       IN  \/ found = <<>> /\ Claim(p, [reqs[p] EXCEPT !.todo = <<FailNow>>])
           \/ \E ids \in Picks(found, r.multi) :
                  LET plan == IF upserts THEN UpsertPlan(r) ELSE UpdatePlan(r, ids)
                  IN  Claim(p, [reqs[p] EXCEPT !.todo = plan \o Tail(@), !.ids = IF upserts THEN {r.id} ELSE ids])
    /\ UNCHANGED <<tableVars, searchVars, ttlVars, boundVars>>

ReadForDelete(p) ==
    /\ Ready(p, "read_delete")
    /\ LET r == Stmt(p).r
           found == MatchedIn(r.filter, reqs[p].cols)
       IN  \/ found = <<>> /\ Claim(p, [reqs[p] EXCEPT !.todo = <<FailNow>>])
           \/ \E ids \in Picks(found, r.multi) :
                  Claim(p, [reqs[p] EXCEPT !.todo = DeletePlan(ids) \o Tail(@), !.ids = ids])
    /\ UNCHANGED <<tableVars, searchVars, ttlVars, boundVars>>

(* A failing statement, a client that goes away, a crash, a demotion. *)
Fails(p) ==
    /\ Ready(p, "fail")
    /\ Stops(p, reqs[p].wrote)
    /\ UNCHANGED <<tableVars, searchVars, ttlVars, boundVars>>

AbandonDoc(p) ==
    /\ reqs[p].busy /\ docFaults < MaxDocFaults
    /\ docFaults' = docFaults + 1
    /\ Stops(p, reqs[p].ids)
    /\ UNCHANGED <<tableVars, searchVars, ttlVars, docStarted>>

(* The answer.  A whole rewrite or delete of a document that nobody else    *)
(* touched meanwhile leaves its copies exact whatever they were before,     *)
(* except copies in the index of a mapping that is gone.                    *)
ReplyDoc(p) ==
    /\ reqs[p].busy /\ reqs[p].todo = <<>>
    /\ reqs' = [reqs EXCEPT ![p] = NoDocRequest]
    /\ LET unmapped == IF mapping THEN {} ELSE {h[1] : h \in hits}
       IN  loose' = loose \ (reqs[p].whole \ (reqs[p].foul \cup unmapped))
    /\ UNCHANGED <<tableVars, searchVars, ttlVars, boundVars>>
-----------------------------------------------------------------------------
(* The side-table rows of a document that has the field, cleared and made again. *)
Refill(id, field) ==
    IF Lookup(rows[id].doc, <<field>>) = Missing THEN <<>>
    ELSE ClearSide(field, id) \o FillSide(field, id, rows[id].doc)

(* create_index on one field: the documents are read before the column or   *)
(* the side table is made; an array among the values makes it multikey.     *)
ReadForIndex(p) ==
    /\ Ready(p, "read_index")
    /\ LET r == Stmt(p).r
           value(id) == Lookup(rows[id].doc, r.path)
           samples == {value(id) : id \in {i \in DOMAIN rows : value(i) # Missing /\ value(i) # <<"null">>}}
           multikey == r.multikey \/ \E v \in samples : Kind(v) = "arr"
           read == SetToSeq(DOMAIN rows)
           col == derived_col(r.path)
           type == IF r.type = "infer" THEN infer_index_type(samples) ELSE r.type
           expire == IF r.ttl = NoTtl THEN <<>>
                     ELSE <<[do |-> "ttl", ttl |-> NoTtl], [do |-> "ttl", ttl |-> r.ttl],
                            [do |-> "ttl_tenant", on |-> FALSE], [do |-> "ttl_tenant", on |-> TRUE]>>
       IN  reqs' = [reqs EXCEPT ![p].todo =
                IF multikey /\ Len(r.path) > 1 THEN <<FailNow>>
                ELSE IF multikey
                THEN <<[do |-> "side_table", field |-> col]>> \o FlattenSeq([i \in DOMAIN read |-> Refill(read[i], col)])
                ELSE <<[do |-> "alter", col |-> col, def |-> [type |-> type, unique |-> r.unique, path |-> r.path]]>>
                       \o [i \in DOMAIN read |-> [do |-> "backfill", id |-> read[i], col |-> col,
                                                  doc |-> rows[read[i]].doc, path |-> r.path]]
                       \o expire]
    /\ UNCHANGED <<tableVars, searchVars, ttlVars, loose, boundVars>>

CreateSideTable(p) ==
    /\ Ready(p, "side_table")
    /\ sides' = sides \cup {Stmt(p).field}
    /\ reqs' = [reqs EXCEPT ![p] = Rest(p)]
    /\ UNCHANGED <<rows, types, sideRows, searchVars, ttlVars, loose, boundVars>>

(* ALTER TABLE ADD COLUMN, unless the column is there. *)
AddIndexColumn(p) ==
    /\ Ready(p, "alter")
    /\ LET st == Stmt(p)
       IN  IF st.col \in DOMAIN types THEN UNCHANGED <<rows, types>>
           ELSE /\ types' = (st.col :> st.def) @@ types
                /\ rows' = [id \in DOMAIN rows |-> [rows[id] EXCEPT !.cols = (st.col :> Missing) @@ @]]
    /\ reqs' = [reqs EXCEPT ![p] = Rest(p)]
    /\ UNCHANGED <<sides, sideRows, searchVars, ttlVars, loose, boundVars>>

\* Mutant: every value as text, whatever the column's type.
BackfillValueText(st, def) ==
    IF def.type = "compound" THEN compound_key(st.doc, def.fields) ELSE derive_typed_value(st.doc, st.path, "text")

BackfillValue(st, def) ==
    IF def.type = "compound" THEN compound_key(st.doc, def.fields) ELSE derive_typed_value(st.doc, st.path, def.type)

(* UPDATE coll SET col WHERE _id, from the document that was read; skipped  *)
(* where a single-field index has no value.                                 *)
BackfillRow(p) ==
    /\ Ready(p, "backfill")
    /\ LET st == Stmt(p)
           v == BackfillValue(st, types[st.col])
           writes == v # Missing /\ st.id \in DOMAIN rows
       IN  IF writes /\ ViolatesUnique(st.id, (st.col :> v))
           THEN Stops(p, reqs[p].ids) /\ rows' = rows
           ELSE /\ rows' = IF writes THEN [rows EXCEPT ![st.id].cols[st.col] = v] ELSE rows
                /\ reqs' = [reqs EXCEPT ![p] = Rest(p)]
                /\ loose' = loose
    /\ UNCHANGED <<types, sides, sideRows, searchVars, ttlVars, boundVars>>

(* A compound index reads the documents after its column is made. *)
ReadForCompound(p) ==
    /\ Ready(p, "read_compound")
    /\ LET order == SetToSeq(DOMAIN rows)
       IN  reqs' = [reqs EXCEPT ![p].todo =
                [i \in DOMAIN order |-> [do |-> "backfill", id |-> order[i], col |-> Stmt(p).col,
                                         doc |-> rows[order[i]].doc, path |-> <<>>]]]
    /\ UNCHANGED <<tableVars, searchVars, ttlVars, loose, boundVars>>
-----------------------------------------------------------------------------
(* upsert_mapping: DELETE, then INSERT. *)
SetMapping(p) ==
    /\ Ready(p, "map")
    /\ mapping' = Stmt(p).on
    /\ reqs' = [reqs EXCEPT ![p] = Rest(p)]
    /\ UNCHANGED <<tableVars, hits, ttlVars, loose, boundVars>>

(* create_search_index: the read has no WHERE, so the guardrail caps it at  *)
(* the first rows by key.  They are appended: older copies stay.            *)
ReadForSearch(p) ==
    /\ Ready(p, "backfill_search")
    /\ LET first == {id \in DOMAIN rows : Cardinality({j \in DOMAIN rows : j < id}) < UNFILTERED_SCAN_CAP}
       IN  /\ reqs' = [reqs EXCEPT ![p].todo = <<[do |-> "append", docs |-> {<<id, rows[id].doc>> : id \in first}]>>]
           /\ loose' = loose \cup IF "scan_cap" \in Trusted THEN {} ELSE DOMAIN rows \ first
    /\ UNCHANGED <<tableVars, searchVars, ttlVars, boundVars>>
(* unwrap_or_default: a read that fails is taken for an empty collection,   *)
(* and the request is acknowledged.                                         *)
ReadForSearchFails(p) ==
    /\ Ready(p, "backfill_search") /\ docFaults < MaxDocFaults
    /\ docFaults' = docFaults + 1
    /\ reqs' = [reqs EXCEPT ![p] = Rest(p)]
    /\ loose' = loose \cup IF "read" \in Trusted THEN {} ELSE DOMAIN rows
    /\ UNCHANGED <<tableVars, searchVars, ttlVars, docStarted>>

AppendCopies(p) ==
    /\ Ready(p, "append")
    /\ hits' = hits \cup Stmt(p).docs
    /\ reqs' = [reqs EXCEPT ![p] = Rest(p)]
    /\ UNCHANGED <<tableVars, mapping, ttlVars, loose, boundVars>>
-----------------------------------------------------------------------------
(* upsert_ttl_config and register_ttl_tenant: DELETE, then INSERT. *)
SetTtl(p) ==
    /\ Ready(p, "ttl") \/ Ready(p, "ttl_tenant")
    /\ ttl' = IF Ready(p, "ttl") THEN Stmt(p).ttl ELSE ttl
    /\ ttlTenant' = IF Ready(p, "ttl_tenant") THEN Stmt(p).on ELSE ttlTenant
    /\ reqs' = [reqs EXCEPT ![p] = Rest(p)]
    /\ UNCHANGED <<tableVars, searchVars, clock, loose, boundVars>>

(* A tenant is swept when it is registered, a collection when it has a TTL. *)
sweep_all_ttl == IF ttlTenant /\ ttl # NoTtl THEN {id \in DOMAIN rows : Expired(id)} ELSE {}

(* sweep_ttl: the documents and the time are read, then each expired row is *)
(* deleted by its _id; side tables and search copies are not.               *)
ReadForSweep(p) ==
    /\ Ready(p, "sweep")
    /\ LET ids == sweep_all_ttl
           order == SetToSeq(ids)
       IN  Claim(p, [reqs[p] EXCEPT !.todo = [i \in DOMAIN order |-> Do("delete", order[i], <<>>)], !.ids = ids])
    /\ UNCHANGED <<tableVars, searchVars, ttlVars, boundVars>>

Tick ==
    /\ clock < MaxClock
    /\ clock' = clock + 1
    /\ UNCHANGED <<tableVars, searchVars, ttl, ttlTenant, reqs, loose, boundVars>>
-----------------------------------------------------------------------------
CollInit ==
    /\ rows = [id \in DOMAIN InitialDocs |-> [doc |-> InitialDocs[id], cols |-> <<>>]]
    /\ types = <<>> /\ sides = {} /\ sideRows = {}
    /\ mapping = FALSE /\ hits = {}
    /\ ttl = NoTtl /\ ttlTenant = FALSE /\ clock = 0
    /\ reqs = [p \in Client |-> NoDocRequest]
    /\ loose = {} /\ docStarted = 0 /\ docFaults = 0

CollStep(p) ==
    \/ \E r \in DocRequest[p] : Accept(p, r)
    \/ InsertRow(p) \/ RewriteRow(p) \/ ListSides(p) \/ InsertElement(p) \/ ClearOneSide(p) \/ DeleteRow(p)
    \/ ReplaceCopies(p) \/ RemoveCopies(p) \/ MaintenanceFails(p)
    \/ ReadForUpdate(p) \/ ReadForDelete(p) \/ Fails(p) \/ AbandonDoc(p) \/ ReplyDoc(p)
    \/ ReadForIndex(p) \/ CreateSideTable(p) \/ AddIndexColumn(p) \/ BackfillRow(p)
    \/ ReadForCompound(p)
    \/ SetMapping(p) \/ ReadForSearch(p) \/ ReadForSearchFails(p) \/ AppendCopies(p)
    \/ SetTtl(p) \/ ReadForSweep(p)
CollNext == Tick \/ \E p \in Client : CollStep(p)
-----------------------------------------------------------------------------
CONSTANT FindFilter  \* the filters the finds of the property use

Exact(id) ==
    IF id \in DOMAIN rows
    THEN LET doc == rows[id].doc
         IN  /\ \A c \in DOMAIN types :
                  rows[id].cols[c] = IF types[c].type = "compound" THEN compound_key(doc, types[c].fields)
                                     ELSE derive_typed_value(doc, types[c].path, types[c].type)
             /\ {s \in sideRows : s[2] = id} = UNION {{<<f, id, e>> : e \in Elements(doc, f)} : f \in sides}
             /\ mapping => {h \in hits : h[1] = id} = {<<id, doc>>}
    ELSE {s \in sideRows : s[2] = id} = {} /\ {h \in hits : h[1] = id} = {}
Matches(f, doc) ==
    IF \E s \in sides : MultikeyShape(f, s) THEN Text(f.value) \in Elements(doc, derived_col(f.path))
    ELSE to_sql(f, doc) = "true"
Settled == Id \ (loose \cup UNION {reqs[p].ids : p \in Client})

(* Once the requests on a document are answered, its derived columns, its   *)
(* side-table rows and its search copies are what the document says, and    *)
(* find, which reads them, selects it exactly when its filter does, or      *)
(* fails because a document's value cannot be compared so; and the next     *)
(* whole update or delete repairs one that had been left behind        *)
(* (write_full_doc, rewrite_doc_row, delete, create_index,                  *)
(* maintain_on_upsert: "the index self-heals on the next write").           *)
SettledExact ==
    \A id \in Settled :
        /\ Exact(id)
        /\ \A f \in FindFilter :
              \/ find(f) = <<>> /\ \E d \in DOMAIN rows : to_sql(f, rows[d].doc) = "error"
              \/ find(f) # <<>> /\ (id \in find(f)[1] <=> id \in DOMAIN rows /\ Matches(f, rows[id].doc))
=============================================================================
