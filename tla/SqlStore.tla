------------------------------ MODULE SqlStore ------------------------------
(***************************************************************************)
(* SlateDbStorage (crates/bluedb-sql/src/storage.rs): GlueSQL's storage    *)
(* over one SlateDB keyspace, as seen by several requests of one tenant.   *)
(* A request is prepared (compositepk.rs: registries are read and written  *)
(* outside any transaction), begins (write lease, snapshot), runs its      *)
(* statements on the transaction's overlay, and commits: keyed locks in    *)
(* order, re-checks against the live store, one write batch, the flush,    *)
(* the watermark and the commit observer.                                  *)
(*                                                                         *)
(* The store is a function from keys to values, as the keyspace lays them  *)
(* out (keyspace.rs): the tag, then what the key is about.  A value that a *)
(* key may lack is <<>> or <<value>>.  Rows are sequences of the columns   *)
(* besides the primary key, whose value is the key; NULL is Null.          *)
(*                                                                         *)
(* External: SlateDB (an atomic batch, a snapshot, a flush), GlueSQL's     *)
(* executor (which storage call a statement makes, autocommit around it),  *)
(* tokio's mutex.  A statement reads only its snapshot and its overlay, so *)
(* it is one step; every await on shared state ends a step.                *)
(***************************************************************************)
EXTENDS ColumnCatalog, FiniteSets, FiniteSetsExt, Functions

CONSTANTS
    Conn,        \* requests in flight at the same time
    Request,     \* the requests: mode and statements
    Setup,       \* the statements that made the store: tables, indexes and rows
    QuietDDL,    \* whether a request that changes schemas or registries runs alone
    AlteredScanned, \* whether the rows of an index scan are compared as it returns them
    NoConn,      \* a free lock
    MaxRequests, \* bound: requests started
    MaxCrashes   \* bound: crashes of the process

(* Values, row keys, index names and NULL stand for byte strings: numbers,  *)
(* in their order.  A statement selects finitely many rows, and names no    *)
(* column of a new table twice (GlueSQL rejects it).                        *)
StatementOK(q) ==
    /\ q.op \in {"create_table", "drop_table", "create_index", "drop_index", "add_column", "drop_column",
                 "rename_column", "rename_table", "view", "select", "append", "insert", "update", "delete"}
    /\ q.op = "create_table" => q.cols \in Seq(Range(q.cols)) /\ IsInjective(q.cols)
    /\ q.op \in {"append", "insert"} => q.row \in Seq(Int)
    /\ q.op = "insert" => q.pk \in Int
    /\ q.op \in {"update", "delete"} => IsFiniteSet(q.pks) /\ q.pks \subseteq Int
    /\ q.op = "update" => q.v \in Int
    /\ q.op = "create_index" => q.i \in Int
    /\ q.op = "add_column" => q.default \in Seq(Int)
ASSUME SqlAssumption ==
    /\ NoConn \notin Conn /\ MaxRequests \in Nat /\ MaxCrashes \in Nat /\ Null \in Int
    /\ \A q \in Range(Setup) : q.op \in {"create_table", "create_index", "insert"}
    /\ \A qs \in {Setup} \cup {r.stmts : r \in Request} : qs \in Seq(Range(qs)) /\ \A q \in Range(qs) : StatementOK(q)

VARIABLES
    db,          \* the store as every read sees it
    durable,     \* the store as a restart would find it
    lease,       \* the holder of the write lease
    locks,       \* uniqueness locks: key -> holder
    seq,         \* SeqAllocator: table id -> last key handed out
    commitSeq,   \* the write watermark
    observed,    \* changes reported to the commit observer
    pc, req, reg, txn,  \* per request: step, remaining request, registry copy, TxnState
    started, crashes

vars == <<db, durable, lease, locks, seq, commitSeq, observed, pc, req, reg, txn, started, crashes>>
-----------------------------------------------------------------------------
(* Keys.  A uniqueness lock is named by the row key, or by the value prefix *)
(* of an index, of what it protects.                                        *)

schema_key(t) == <<"schema", t>>
tableid_key(t) == <<"tableid", t>>
colcat_key(t) == <<"colcat", t>>
pkcat_key(t) == <<"pkcat", t>>
jsoncat_key(t) == <<"jsoncat", t>>
uniqueidx_key(t) == <<"uniqueidx", t>>
tableid_seq_key == <<"tableid_seq">>
views_key == <<"views">>
row_key(id, pk) == <<"row", id, pk>>
index_value_prefix(id, i, v) == <<"index", id, i, v>>
index_entry_key(id, i, v, pk) == <<"index", id, i, v, pk>>

\* Mutant: locks in no order.
LockBeforeNever(a, b) == FALSE

(* Byte order of the keys that are locked: tag, then the rest. *)
LockBefore(a, b) ==
    LET tag(k) == IF k[1] = "row" THEN 0 ELSE 1
    IN  \/ tag(a) < tag(b)
        \/ tag(a) = tag(b) /\ \E n \in 2..Len(a) :
                /\ \A m \in 2..(n - 1) : a[m] = b[m]
                /\ a[n] < b[n]

(* A transaction over a snapshot (TxnState).  Outside one, the overlay is   *)
(* unused.                                                                  *)
NoTxn == [snap |-> <<>>, overlay |-> <<>>, uniq |-> {}, uniqIdx |-> {},
          changes |-> {}, seq |-> <<>>, failed |-> FALSE]
NewTxn(store, counters) == [NoTxn EXCEPT !.snap = store, !.seq = counters]

(* merge_sorted: the overlay shadows the base, a tombstone drops the key.   *)
merge_sorted(base, overlay) ==
    [k \in {j \in DOMAIN base \cup DOMAIN overlay : j \in DOMAIN overlay => overlay[j] # <<>>} |->
        IF k \in DOMAIN overlay THEN overlay[k][1] ELSE base[k]]

read_key(x, k) ==
    IF k \in DOMAIN x.overlay THEN x.overlay[k]
    ELSE IF k \in DOMAIN x.snap THEN <<x.snap[k]>> ELSE <<>>
scan_range(x) == merge_sorted(x.snap, x.overlay)
write_all(x, f) == [x EXCEPT !.overlay = Over(f, x.overlay)]
write_key(x, k, v) == write_all(x, Single(k, <<v>>))
delete_key(x, k) == write_all(x, Single(k, <<>>))
delete_keys(x, ks) == write_all(x, [k \in ks |-> <<>>])
Fail(x) == [x EXCEPT !.failed = TRUE]

read_or(x, k, default) == LET o == read_key(x, k) IN IF o = <<>> THEN default ELSE o[1]
read_unique_indexes(x, t) == read_or(x, uniqueidx_key(t), {})
Exists(x, t) == read_key(x, schema_key(t)) # <<>>
read_schema(x, t) == read_key(x, schema_key(t))[1]
table_id(x, t) == read_key(x, tableid_key(t))[1]
(* What reads or writes rows or entries asks for the table's id, and fails  *)
(* without one.                                                             *)
Known(x, t) == Exists(x, t) /\ read_key(x, tableid_key(t)) # <<>>
-----------------------------------------------------------------------------
(* Rows, through the column catalog of their table.                          *)

read_catalog(x, t) == read_key(x, colcat_key(t))
Logical(x, t, phys) == LET c == read_catalog(x, t) IN IF c = <<>> THEN phys ELSE to_logical(c[1], phys)
Physical(x, t, row) == LET c == read_catalog(x, t) IN IF c = <<>> THEN row ELSE to_physical(c[1], row)

(* collect_rows: the rows of a table in logical form, by primary key. *)
RowKeys(store, id) == {k \in DOMAIN store : k[1] = "row" /\ k[2] = id}
collect_rows(x, t) ==
    LET v == scan_range(x)
        ks == RowKeys(v, table_id(x, t))
    IN  [pk \in {k[3] : k \in ks} |-> Logical(x, t, v[row_key(table_id(x, t), pk)])]
-----------------------------------------------------------------------------
(* Secondary indexes.  An index is [name, col]; a column the row has no     *)
(* longer makes the statement fail (IndexEval).                             *)

Position(cols, col) == CHOOSE i \in DOMAIN cols : cols[i] = col
index_value(cols, row, col) == row[Position(cols, col)]
Evaluates(cols, row, col) == (\E i \in DOMAIN cols : cols[i] = col) /\ Position(cols, col) \in DOMAIN row
IndexEntries(store, id, i) == {k \in DOMAIN store : k[1] = "index" /\ k[2] = id /\ k[3] = i}

(* enforce_unique_index: another row owns the value, in the txn's view. *)
enforce_unique_index(x, id, i, v, pk) ==
    \A k \in IndexEntries(scan_range(x), id, i) : k[4] = v => k[5] = pk

apply_index_entries(x, t, pk, row, insert) ==
    LET s == read_schema(x, t)
        id == table_id(x, t)
        unique == read_unique_indexes(x, t)
        value(d) == index_value(s.cols, row, d.col)
        guarded == {d \in s.indexes : insert /\ d.name \in unique /\ value(d) # Null}
        entries == {index_entry_key(id, d.name, value(d), pk) : d \in s.indexes}
    IN  IF \E d \in s.indexes : ~ Evaluates(s.cols, row, d.col) THEN Fail(x)
        ELSE IF \E d \in guarded : ~ enforce_unique_index(x, id, d.name, value(d), pk) THEN Fail(x)
        ELSE [write_all(x, [k \in entries |-> IF insert THEN <<pk>> ELSE <<>>])
                 EXCEPT !.uniqIdx = @ \cup {[prefix |-> index_value_prefix(id, d.name, value(d)), pk |-> pk]
                                              : d \in guarded}]
-----------------------------------------------------------------------------
(* Rows: StoreMut. *)

record_change(x, k) == [x EXCEPT !.changes = @ \cup {k}]

\* Mutant: the entries of the row's old values stay.
insert_data_keeps_entries(x, t, pk, row) ==
    LET k == row_key(table_id(x, t), pk)
        indexed == apply_index_entries(x, t, pk, row, TRUE)
    IN  IF indexed.failed THEN Fail(x) ELSE write_key(record_change(indexed, k), k, Physical(x, t, row))

insert_data(x, t, pk, row) ==
    LET k == row_key(table_id(x, t), pk)
        old == read_key(x, k)
        cleared == IF old = <<>> THEN [x EXCEPT !.uniq = @ \cup {k}]
                   ELSE apply_index_entries(x, t, pk, Logical(x, t, old[1]), FALSE)
        indexed == IF cleared.failed THEN cleared ELSE apply_index_entries(cleared, t, pk, row, TRUE)
    IN  IF indexed.failed THEN Fail(x)
        ELSE write_key(record_change(indexed, k), k, Physical(x, t, row))

delete_data(x, t, pk) ==
    LET k == row_key(table_id(x, t), pk)
        cleared == apply_index_entries(x, t, pk, Logical(x, t, read_key(x, k)[1]), FALSE)
    IN  IF cleared.failed THEN Fail(x)
        ELSE delete_key(record_change(cleared, k), k)

(* The counter of a table is seeded once from the live rows. *)
live_max_i64_key(id) == Max({0} \cup {k[3] : k \in RowKeys(db, id)})
allocate_keys(x, id) == 1 + (IF id \in DOMAIN x.seq THEN x.seq[id] ELSE live_max_i64_key(id))

append_data(x, t, row) ==
    LET id == table_id(x, t)
        pk == allocate_keys(x, id)
        y == apply_index_entries([x EXCEPT !.seq = (id :> pk) @@ @], t, pk, row, TRUE)
    IN  IF y.failed THEN y
        ELSE write_key(record_change(y, row_key(id, pk)), row_key(id, pk), Physical(x, t, row))
-----------------------------------------------------------------------------
(* Schemas: StoreMut, IndexMut, AlterTable. *)

ensure_table_id(x, t) ==
    IF read_key(x, tableid_key(t)) # <<>> THEN x
    ELSE LET next == read_or(x, tableid_seq_key, 0) + 1
         IN  write_key(write_key(x, tableid_seq_key, next), tableid_key(t), next)

insert_schema(x, t, s) == write_key(ensure_table_id(x, t), schema_key(t), s)

(* schema_rules::enforce: a strict connection wants columns and a primary key. *)
enforce(cols, keyed, strict) == strict => keyed /\ cols # <<>>

create_table(x, q) ==
    IF Exists(x, q.t) \/ ~ enforce(q.cols, q.keyed, q.strict) THEN Fail(x)
    ELSE insert_schema(x, q.t, [cols |-> q.cols, indexes |-> {}, keyed |-> q.keyed])

(* The entries of all rows, as apply_index_entries removes them. *)
entries_of_rows(id, s, rows) ==
    {index_entry_key(id, d.name, index_value(s.cols, rows[pk], d.col), pk) : d \in s.indexes, pk \in DOMAIN rows}
delete_schema(x, t) ==
    IF ~ Known(x, t) THEN Fail(x)
    ELSE LET id == table_id(x, t)
             s == read_schema(x, t)
             rows == collect_rows(x, t)
         IN  IF \E d \in s.indexes, pk \in DOMAIN rows : ~ Evaluates(s.cols, rows[pk], d.col) THEN Fail(x)
             ELSE delete_keys(x, entries_of_rows(id, s, rows) \cup {row_key(id, pk) : pk \in DOMAIN rows}
                          \cup {schema_key(t), colcat_key(t), pkcat_key(t), tableid_key(t)})

(* A new index gets an entry for every row; duplicates are not looked for.  *)
create_index(x, q) ==
    IF ~ Known(x, q.t) THEN Fail(x)
    ELSE LET s == read_schema(x, q.t)
             id == table_id(x, q.t)
             rows == collect_rows(x, q.t)
             index == [name |-> q.i, col |-> q.col]
         IN  IF (\E d \in s.indexes : d.name = q.i) \/ q.col \notin Range(s.cols)
                   \/ \E pk \in DOMAIN rows : ~ Evaluates(s.cols, rows[pk], q.col) THEN Fail(x)
             ELSE write_key(write_all(x, [k \in entries_of_rows(id, [s EXCEPT !.indexes = {index}], rows) |-> <<k[5]>>]),
                            schema_key(q.t), [s EXCEPT !.indexes = @ \cup {index}])

(* Several indexes of a table, one after the other. *)
drop_indexes(x, t, names) ==
    LET s == read_schema(x, t)
        unique == read_unique_indexes(x, t)
        gone == delete_keys(x, UNION {IndexEntries(scan_range(x), table_id(x, t), i) : i \in names})
        kept == write_key(gone, schema_key(t), [s EXCEPT !.indexes = {d \in @ : d.name \notin names}])
    IN  IF names \cap unique # {} THEN write_key(kept, uniqueidx_key(t), unique \ names) ELSE kept
drop_index(x, t, i) ==
    IF ~ Known(x, t) \/ ~ \E d \in read_schema(x, t).indexes : d.name = i THEN Fail(x)
    ELSE drop_indexes(x, t, {i})

CatalogOf(x, t, s) == read_or(x, colcat_key(t), identity(Len(s.cols)))

(* The values of a new column of old rows come from the catalog: the        *)
(* column's default, or NULL.                                               *)
fill_value(q) == IF q.default = <<>> THEN Null ELSE q.default[1]
add_column(x, q) ==
    IF ~ Exists(x, q.t) \/ (q.default = <<>> /\ ~ q.nullable) THEN Fail(x)
    ELSE LET s == read_schema(x, q.t)
         IN  IF q.col \in Range(s.cols) THEN Fail(x)
             ELSE write_key(insert_schema(x, q.t, [s EXCEPT !.cols = Append(@, q.col)]),
                            colcat_key(q.t), catalog_add_column(CatalogOf(x, q.t, s), fill_value(q)))

(* A component of the key stays; GlueSQL drops the column's indexes first.  *)
drop_column(x, q) ==
    LET names == {d.name : d \in {e \in read_schema(x, q.t).indexes : e.col = q.col}}
        y == IF names = {} THEN x ELSE drop_indexes(x, q.t, names)
        s == read_schema(y, q.t)
        i == Position(s.cols, q.col)
    IN  IF ~ Exists(x, q.t) \/ q.col \notin Range(read_schema(x, q.t).cols)
               \/ q.col \in read_or(x, pkcat_key(q.t), {}) \/ (names # {} /\ ~ Known(x, q.t)) THEN Fail(x)
        ELSE write_key(insert_schema(y, q.t, [s EXCEPT !.cols = RemoveAt(@, i)]),
                       colcat_key(q.t), catalog_drop_column(CatalogOf(y, q.t, s), i))

rename_column(x, q) ==
    IF ~ Exists(x, q.t) THEN Fail(x)
    ELSE LET s == read_schema(x, q.t)
         IN  IF q.to \in Range(s.cols) \/ q.col \notin Range(s.cols) THEN Fail(x)
             ELSE insert_schema(x, q.t, [s EXCEPT !.cols = [s.cols EXCEPT ![Position(s.cols, q.col)] = q.to]])

(* The records kept per name move; the unique-index and JSON records stay.  *)
rename_schema(x, t, u) ==
    IF ~ Known(x, t) THEN Fail(x)
    ELSE LET moved == {key \in {"schema", "tableid", "colcat", "pkcat"} : read_key(x, <<key, t>>) # <<>>}
         IN  delete_keys(write_all(x, [k \in {<<key, u>> : key \in moved} |-> read_key(x, <<k[1], t>>)]),
                         {<<key, t>> : key \in moved})
-----------------------------------------------------------------------------
(* Statements: which storage calls GlueSQL's executor makes.                *)

reject_pk_assignment(x, q) == q.col \in read_or(x, pkcat_key(q.t), {})
Matching(x, q) == {pk \in DOMAIN collect_rows(x, q.t) : pk \in q.pks}

(* UPDATE and DELETE: the rows are fetched, then written one by one. *)
WriteRow(acc, q, cols, fetched, pk) ==
    IF acc.failed THEN acc
    ELSE IF q.op = "delete" THEN delete_data(acc, q.t, pk)
    ELSE insert_data(acc, q.t, pk, [fetched[pk] EXCEPT ![Position(cols, q.col)] = q.v])
WriteRows(x, q) ==
    LET cols == read_schema(x, q.t).cols
        fetched == collect_rows(x, q.t)
    IN  FoldSet(LAMBDA pk, acc : WriteRow(acc, q, cols, fetched, pk), x, Matching(x, q))

(* INSERT, UPDATE and DELETE on a table there is. *)
ChangeRows(x, q) ==
    CASE q.op = "append" ->
            IF Len(q.row) # Len(read_schema(x, q.t).cols) THEN Fail(x) ELSE append_data(x, q.t, q.row)
      [] q.op = "insert" ->
            IF Len(q.row) # Len(read_schema(x, q.t).cols) \/ q.pk \in DOMAIN collect_rows(x, q.t)
            THEN Fail(x) ELSE insert_data(x, q.t, q.pk, q.row)
      [] q.op = "update" ->
            IF q.col \notin Range(read_schema(x, q.t).cols) \/ reject_pk_assignment(x, q) THEN Fail(x)
            ELSE WriteRows(x, q)
      [] q.op = "delete" -> WriteRows(x, q)

Execute(x, q) ==
    CASE q.op = "create_table" -> create_table(x, q)
      [] q.op = "drop_table" -> delete_schema(x, q.t)
      [] q.op = "create_index" -> create_index(x, q)
      [] q.op = "drop_index" -> drop_index(x, q.t, q.i)
      [] q.op = "add_column" -> add_column(x, q)
      [] q.op = "drop_column" -> drop_column(x, q)
      [] q.op = "rename_column" -> rename_column(x, q)
      [] q.op = "rename_table" -> rename_schema(x, q.t, q.to)
      [] q.op \in {"view", "select"} -> x
      [] q.op \in {"append", "insert", "update", "delete"} ->
            IF Known(x, q.t) THEN ChangeRows(x, q) ELSE Fail(x)

(* An index scan finds the entries of a value and fetches their rows, as    *)
(* they are stored.                                                         *)
scan_indexed_data(x, t, i, v) ==
    LET id == table_id(x, t)
    IN  {<<k[5], scan_range(x)[row_key(id, k[5])]>> :
            k \in {e \in IndexEntries(scan_range(x), id, i) :
                     e[4] = v /\ read_key(x, row_key(id, e[5])) # <<>>}}
-----------------------------------------------------------------------------
(* Requests. *)

Idle(c) == pc[c] = "idle"
IsDDL(q) == q.op \notin {"insert", "append", "update", "delete", "select"}
ChangesSchema(r) == \E n \in DOMAIN r.stmts : IsDDL(r.stmts[n])
NoRequest == [mode |-> "auto", stmts |-> <<>>, ddl |-> FALSE]

Live(store, k, default) == IF k \in DOMAIN store THEN store[k] ELSE default

(* prepare: what the records outside any transaction become.  With any view *)
(* defined, a query is rewritten, and the views are written back.           *)
rewritten_views(store, r) ==
    LET step(acc, q) ==
            CASE q.op = "view" -> [touched |-> TRUE, views |-> IF q.drop THEN acc.views \ {q.name}
                                                               ELSE acc.views \cup {q.name}]
              [] q.op = "select" -> [acc EXCEPT !.touched = @ \/ acc.views # {}]
              [] OTHER -> acc
    IN  FoldLeft(step, [touched |-> FALSE, views |-> Live(store, views_key, {})], r.stmts)
view_rewrite(store, r) ==
    LET done == rewritten_views(store, r) IN IF done.touched THEN Single(views_key, done.views) ELSE <<>>

apply(store, q) ==
    CASE q.op = "create_table" ->
            Over(IF q.json # {} THEN Single(jsoncat_key(q.t), q.json) ELSE <<>>,
                 IF q.components # {} THEN Single(pkcat_key(q.t), q.components) ELSE <<>>)
      [] q.op = "create_index" /\ q.unique ->
            Single(uniqueidx_key(q.t), Live(store, uniqueidx_key(q.t), {}) \cup {q.i})
      [] OTHER -> <<>>

(* The last statement that writes a record decides. *)
prepare(store, r) ==
    LET writes(k) == {n \in DOMAIN r.stmts : k \in DOMAIN apply(store, r.stmts[n])}
        views == view_rewrite(store, r)
    IN  [k \in DOMAIN views \cup UNION {DOMAIN apply(store, r.stmts[n]) : n \in DOMAIN r.stmts} |->
            IF writes(k) = {} THEN views[k] ELSE apply(store, r.stmts[Max(writes(k))])[k]]
-----------------------------------------------------------------------------
(* Steps. *)

SetPc(c, p) == pc' = [pc EXCEPT ![c] = p]

(* The request is over, or its future is dropped: its transaction, lease    *)
(* and locks go with it.                                                    *)
Finish(c) ==
    /\ SetPc(c, "idle")
    /\ req' = [req EXCEPT ![c] = NoRequest]
    /\ reg' = [reg EXCEPT ![c] = <<>>]
    /\ txn' = [txn EXCEPT ![c] = NoTxn]
    /\ lease' = IF lease = c THEN NoConn ELSE lease
    /\ locks' = [k \in {j \in DOMAIN locks : locks[j] # c} |-> locks[k]]

Submit(c) ==
    /\ Idle(c) /\ started < MaxRequests
    /\ \E r \in Request :
          /\ QuietDDL => \A d \in Conn \ {c} : ~ Idle(d) => ~ ChangesSchema(r) /\ ~ req[d].ddl
          /\ req' = [req EXCEPT ![c] = [mode |-> r.mode, stmts |-> r.stmts, ddl |-> ChangesSchema(r)]]
    /\ SetPc(c, "prepare")
    /\ started' = started + 1
    /\ UNCHANGED <<db, durable, lease, locks, seq, commitSeq, observed, reg, txn, crashes>>

Prepare(c) ==
    /\ pc[c] = "prepare"
    /\ reg' = [reg EXCEPT ![c] = prepare(db, req[c])]
    /\ SetPc(c, IF prepare(db, req[c]) = <<>> THEN "begin" ELSE "register")
    /\ UNCHANGED <<db, durable, lease, locks, seq, commitSeq, observed, req, txn, started, crashes>>

Register(c) ==
    /\ pc[c] = "register"
    /\ db' = Over(reg[c], db)
    /\ reg' = [reg EXCEPT ![c] = <<>>]
    /\ SetPc(c, "registered")
    /\ UNCHANGED <<durable, lease, locks, seq, commitSeq, observed, req, txn, started, crashes>>

RegisterFlush(c) ==
    /\ pc[c] = "registered"
    /\ durable' = db
    /\ SetPc(c, "begin")
    /\ UNCHANGED <<db, lease, locks, seq, commitSeq, observed, req, reg, txn, started, crashes>>

\* Mutant: only a block takes the lease.
OnlyBlocksTakeLease(c) == req[c].mode # "block"
NeedsNoLease(c) == req[c].mode = "auto"

(* begin: the lease first, for a block and on a serialized connection, then *)
(* the snapshot.                                                            *)
TakeLease(c) ==
    /\ pc[c] = "begin" /\ ~ NeedsNoLease(c) /\ lease = NoConn
    /\ lease' = c
    /\ SetPc(c, "snapshot")
    /\ UNCHANGED <<db, durable, locks, seq, commitSeq, observed, req, reg, txn, started, crashes>>

Begin(c) ==
    /\ \/ pc[c] = "begin" /\ NeedsNoLease(c)
       \/ pc[c] = "snapshot"
    /\ txn' = [txn EXCEPT ![c] = NewTxn(db, <<>>)]
    /\ SetPc(c, "run")
    /\ UNCHANGED <<db, durable, lease, locks, seq, commitSeq, observed, req, reg, started, crashes>>

(* One statement.  Outside a block each commits on its own.  An error drops *)
(* the transaction and the rest of the request.                             *)
Exec(c) ==
    /\ pc[c] = "run" /\ req[c].stmts # <<>>
    /\ LET x == Execute([txn[c] EXCEPT !.seq = seq], Head(req[c].stmts))
       IN  /\ seq' = x.seq
           /\ \/ x.failed /\ Finish(c)
              \/ /\ ~ x.failed
                 /\ txn' = [txn EXCEPT ![c] = [x EXCEPT !.seq = <<>>]]
                 /\ req' = [req EXCEPT ![c] = [mode |-> req[c].mode, stmts |-> Tail(req[c].stmts), ddl |-> req[c].ddl]]
                 /\ SetPc(c, IF req[c].mode = "block" /\ Len(req[c].stmts) > 1 THEN "run" ELSE "commit")
                 /\ UNCHANGED <<lease, locks, reg>>
    /\ UNCHANGED <<db, durable, commitSeq, observed, started, crashes>>

LockKeys(x) == x.uniq \cup {k.prefix : k \in x.uniqIdx}
Held(c) == {k \in DOMAIN locks : locks[k] = c}
EndTxn(c) ==
    IF req[c].stmts = <<>> THEN Finish(c)
    ELSE /\ SetPc(c, "begin")
         /\ txn' = [txn EXCEPT ![c] = NoTxn]
         /\ lease' = IF lease = c THEN NoConn ELSE lease
         /\ locks' = [k \in {j \in DOMAIN locks : locks[j] # c} |-> locks[k]]
         /\ UNCHANGED <<req, reg>>

CommitNothing(c) ==
    /\ pc[c] = "commit" /\ txn[c].overlay = <<>>
    /\ EndTxn(c)
    /\ UNCHANGED <<db, durable, seq, commitSeq, observed, started, crashes>>

(* acquire_unique_locks: one key after the other, in the keys' order. *)
acquire_unique_locks(c) ==
    /\ pc[c] = "commit" /\ txn[c].overlay # <<>>
    /\ \E k \in LockKeys(txn[c]) \ Held(c) :
          /\ \A j \in LockKeys(txn[c]) \ Held(c) : ~ LockBefore(j, k)
          /\ k \notin DOMAIN locks
          /\ locks' = Over(Single(k, c), locks)
    /\ UNCHANGED <<db, durable, lease, seq, commitSeq, observed, pc, req, reg, txn, started, crashes>>

\* Mutant: only the row keys are checked again.
StillUniqueKeysOnly(x) == x.uniq \cap DOMAIN db = {}

(* The checks against the live store: fresh keys are still absent, unique   *)
(* values belong to the same row or to none.                                *)
StillUnique(x) ==
    /\ x.uniq \cap DOMAIN db = {}
    /\ \A u \in x.uniqIdx : \A k \in DOMAIN db :
          k[1] = "index" /\ SubSeq(k, 1, 4) = u.prefix => k[5] = u.pk

Check(c) ==
    /\ pc[c] = "commit" /\ txn[c].overlay # <<>> /\ LockKeys(txn[c]) \subseteq Held(c)
    /\ \/ StillUnique(txn[c]) /\ SetPc(c, "write") /\ UNCHANGED <<lease, locks, req, reg, txn>>
       \/ ~ StillUnique(txn[c]) /\ Finish(c)
    /\ UNCHANGED <<db, durable, seq, commitSeq, observed, started, crashes>>

Write(c) ==
    /\ pc[c] = "write"
    /\ db' = merge_sorted(db, txn[c].overlay)
    /\ SetPc(c, "flush")
    /\ UNCHANGED <<durable, lease, locks, seq, commitSeq, observed, req, reg, txn, started, crashes>>

Flush(c) ==
    /\ pc[c] = "flush"
    /\ durable' = db
    /\ SetPc(c, "report")
    /\ UNCHANGED <<db, lease, locks, seq, commitSeq, observed, req, reg, txn, started, crashes>>

(* The watermark, then the observer: it is told the row as committed. *)
Report(c) ==
    /\ pc[c] = "report"
    /\ commitSeq' = IF txn[c].changes = {} THEN commitSeq ELSE commitSeq + 1
    /\ observed' = [k \in txn[c].changes |-> txn[c].overlay[k]] @@ observed
    /\ EndTxn(c)
    /\ UNCHANGED <<db, durable, seq, started, crashes>>

(* The caller goes away while the request waits. *)
Drop(c) ==
    /\ ~ Idle(c)
    /\ Finish(c)
    /\ UNCHANGED <<db, durable, seq, commitSeq, observed, started, crashes>>

(* The process ends and restarts on what is durable. *)
Crash ==
    /\ crashes < MaxCrashes
    /\ db' = durable
    /\ lease' = NoConn
    /\ locks' = <<>>
    /\ seq' = <<>>
    /\ commitSeq' = 0
    /\ observed' = <<>>
    /\ pc' = [c \in Conn |-> "idle"]
    /\ req' = [c \in Conn |-> NoRequest]
    /\ reg' = [c \in Conn |-> <<>>]
    /\ txn' = [c \in Conn |-> NoTxn]
    /\ crashes' = crashes + 1
    /\ UNCHANGED <<durable, started>>

(* The store after one statement on its own. *)
SetUp(store, q) ==
    LET known == Over(prepare(store, [mode |-> "auto", stmts |-> <<q>>]), store)
    IN  merge_sorted(known, Execute(NewTxn(known, <<>>), q).overlay)
SetupStore ==
    LET Store[n \in 0..Len(Setup)] == IF n = 0 THEN <<>> ELSE SetUp(Store[n - 1], Setup[n])
    IN  Store[Len(Setup)]

InitOn(store) ==
    /\ db = store /\ durable = store
    /\ lease = NoConn /\ locks = <<>> /\ seq = <<>>
    /\ commitSeq = 0 /\ observed = <<>>
    /\ pc = [c \in Conn |-> "idle"]
    /\ req = [c \in Conn |-> NoRequest]
    /\ reg = [c \in Conn |-> <<>>]
    /\ txn = [c \in Conn |-> NoTxn]
    /\ started = 0 /\ crashes = 0
Init == InitOn(SetupStore)

Continue(c) ==
    \/ Prepare(c) \/ Register(c) \/ RegisterFlush(c)
    \/ Begin(c) \/ Exec(c)
    \/ CommitNothing(c) \/ Check(c) \/ Write(c) \/ Flush(c) \/ Report(c)

Next ==
    \/ \E c \in Conn :
          Submit(c) \/ Continue(c) \/ TakeLease(c) \/ acquire_unique_locks(c) \/ Drop(c)
    \/ Crash

Spec == Init /\ [][Next]_vars
-----------------------------------------------------------------------------
(* Correctness. *)

Tables(store) == {k[2] : k \in {j \in DOMAIN store : j[1] = "schema"}}
View(store) == NewTxn(store, <<>>)

(* The lease and the locks are held by requests in the steps that need      *)
(* them (begin, acquire_unique_locks); what is prepared or written is a     *)
(* store.                                                                   *)
TypeOK ==
    /\ lease \in Conn \cup {NoConn}
    /\ \A k \in DOMAIN locks : pc[locks[k]] \in {"commit", "write", "flush", "report"}
    /\ pc \in [Conn -> {"idle", "prepare", "register", "registered", "begin", "snapshot", "run",
                        "commit", "write", "flush", "report"}]
    /\ lease # NoConn => pc[lease] \in {"snapshot", "run", "commit", "write", "flush", "report"}
    /\ commitSeq \in Nat /\ started \in 0..MaxRequests /\ crashes \in 0..MaxCrashes

(* Every index holds exactly one entry per row, under the row's value of    *)
(* the indexed column (apply_index_entries, create_index, drop_index,       *)
(* delete_schema), in the visible store and in the one a restart finds; no  *)
(* entry outlives its index or its table; and a query served by an index    *)
(* finds the rows a full scan finds (scan_indexed_data, scan_data), altered *)
(* or not.  The rows it returns are as stored: with AlteredScanned they     *)
(* must be those of the full scan.                                          *)
ValueOf(schema, rws, d, pk) == rws[pk][Position(schema.cols, d.col)]
EntriesFor(id, schema, rws) ==
    {index_entry_key(id, d.name, ValueOf(schema, rws, d, pk), pk) : d \in schema.indexes, pk \in DOMAIN rws}
RowsWith(schema, rws, d, v) == {<<pk, rws[pk]>> : pk \in {p \in DOMAIN rws : ValueOf(schema, rws, d, p) = v}}
ScansFind(x, t, schema, rws) ==
    \A d \in schema.indexes : \A v \in {ValueOf(schema, rws, d, pk) : pk \in DOMAIN rws} :
        {<<e[1], Logical(x, t, e[2])>> : e \in scan_indexed_data(x, t, d.name, v)} = RowsWith(schema, rws, d, v)
ScansReturn(x, t, schema, rws) ==
    \A d \in schema.indexes : \A v \in {ValueOf(schema, rws, d, pk) : pk \in DOMAIN rws} :
        scan_indexed_data(x, t, d.name, v) = RowsWith(schema, rws, d, v)
IndexExactIn(store, x) ==
    {k \in DOMAIN store : k[1] = "index"}
        = UNION {EntriesFor(table_id(x, t), read_schema(x, t), collect_rows(x, t)) : t \in Tables(store)}
IndexScansIn(store, x) == \A t \in Tables(store) : ScansFind(x, t, read_schema(x, t), collect_rows(x, t))
IndexesKept ==
    /\ IndexExactIn(db, View(db)) /\ IndexScansIn(db, View(db))
    /\ durable # db => IndexExactIn(durable, View(durable))
IndexExact ==
    /\ IndexesKept
    /\ AlteredScanned => \A t \in Tables(db) : ScansReturn(View(db), t, read_schema(View(db), t), collect_rows(View(db), t))

(* Committing never makes two rows share a value of a unique index that     *)
(* existed before: transactions reading their own snapshot and overlay, and *)
(* committers in parallel, are caught by the locks and the live checks      *)
(* (enforce_unique_index, acquire_unique_locks, commit).                    *)
Enforced(store, id, i) ==
    \E t \in Tables(store) :
        /\ store[tableid_key(t)] = id
        /\ i \in Live(store, uniqueidx_key(t), {})
        /\ \E d \in store[schema_key(t)].indexes : d.name = i
Duplicates(store) ==
    {d \in {k \in DOMAIN store : k[1] = "index"} \X {k \in DOMAIN store : k[1] = "index"} :
        SubSeq(d[1], 1, 4) = SubSeq(d[2], 1, 4) /\ d[1][4] # Null /\ d[1][5] # d[2][5]}
NoNewDuplicate ==
    [][crashes' = crashes =>
           \A d \in Duplicates(db') : Enforced(db, d[1][2], d[1][3]) => d \in Duplicates(db)]_db

(* Requests of this store are snapshot transactions on one table of rows,   *)
(* where the first committer of a row wins: nobody overwrites a row that    *)
(* changed after the snapshot, so no update is lost between the serialized  *)
(* writers and the lease-free inserters (begin, commit); what is reported   *)
(* is durable.                                                              *)
RowsOf(store) == [k \in {j \in DOMAIN store : j[1] = "row"} |-> store[k]]
InTxn(c) == pc[c] \in {"run", "commit", "write"}
Abstract == INSTANCE SnapshotTable WITH
    Client <- Conn,
    rows <- RowsOf(db),
    stable <- RowsOf(durable),
    seen <- [c \in Conn |-> IF InTxn(c) THEN <<RowsOf(txn[c].snap)>> ELSE <<>>],
    commit <- [c \in Conn |-> IF pc[c] = "flush" THEN "visible" ELSE IF pc[c] = "report" THEN "stable" ELSE "none"],
    acks <- commitSeq
RefinesSnapshotTable == Abstract!Spec

(* Requests never wait for each other in a circle: the lease is taken       *)
(* before any lock and the locks in one order (begin,                       *)
(* acquire_unique_locks), and every way out releases them all: whoever      *)
(* holds one is in a step that needs it (TypeOK).                           *)
NextLock(c) == {k \in LockKeys(txn[c]) \ Held(c) : \A j \in LockKeys(txn[c]) \ Held(c) : ~ LockBefore(j, k)}
WaitsFor(c) ==
    IF pc[c] = "begin" /\ ~ NeedsNoLease(c) THEN {lease} \ {NoConn}
    ELSE IF pc[c] = "commit" THEN {locks[k] : k \in NextLock(c) \cap DOMAIN locks}
    ELSE {}
NoWaitCycle == TypeOK /\ \A S \in (SUBSET Conn) \ {{}} : \E c \in S : WaitsFor(c) \cap S = {}
=============================================================================
