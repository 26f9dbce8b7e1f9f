--------------------------- MODULE SchemaEvolution ---------------------------
(***************************************************************************)
(* ALTER TABLE on a mirrored table (crates/bluedb-lakehouse: schema.rs,    *)
(* writer.rs).  The row store keeps a stable slot per column; the Iceberg  *)
(* table keeps a stable field id per column and is brought up to date when *)
(* it is next opened, by a seal, a read or a compaction.  A row in the CDC *)
(* log is a sequence of values in the column order of its commit.          *)
(*                                                                         *)
(* The primary key is not a column here, as in ColumnCatalog, and all      *)
(* columns have one type.  Iceberg is external: a file holds values by     *)
(* field id, a field it lacks reads as null.                               *)
(***************************************************************************)
EXTENDS ColumnCatalog

CONSTANTS
    Pk, ColumnName,
    AtAnyTime,   \* whether a table is altered before the last change is in the mirror
    WithDefault, \* whether a column may be added with a default
    MaxAlters,   \* bound: ALTER TABLE statements
    MaxWrites    \* bound: rows written

VARIABLES
    columns,  \* the schema: names and whether NOT NULL, in order
    catalog,  \* the column catalog
    stored,   \* pk -> physical row
    tail,     \* the CDC log: pk and logical row, in commit order
    fields,   \* the Iceberg schema: id, name, required, in order
    files,    \* the data files, oldest first: pk -> (field id -> value)
    alters, writes

evoVars == <<columns, catalog, stored, tail, fields, files, alters, writes>>

Names(defs) == {defs[i].name : i \in DOMAIN defs}

\* The schema Iceberg should have: field ids are slots.
table_to_iceberg ==
    [i \in DOMAIN columns |->
        [id |-> catalog.slots[i], name |-> columns[i].name, required |-> columns[i].required]]

\* A field whose name Iceberg knows keeps its id, another is taken as it is.
reconcile_schema(current, desired) ==
    [i \in DOMAIN desired |->
        IF desired[i].name \in Names(current)
        THEN [desired[i] EXCEPT !.id =
                 current[CHOOSE j \in DOMAIN current : current[j].name = desired[i].name].id]
        ELSE desired[i]]

\* writer_for, open and evolve_schema_to: the schema a reader or writer works with.
Evolved == reconcile_schema(fields, table_to_iceberg)

\* The i-th value goes to the i-th field, whatever the columns were at the commit.
rows_to_record_batch(row) ==
    [id \in {Evolved[i].id : i \in DOMAIN Evolved} |->
        LET i == CHOOSE i \in DOMAIN Evolved : Evolved[i].id = id
        IN  IF i \in DOMAIN row THEN row[i] ELSE Null]

\* A batch with a null in a required field is refused.
Accepted(batch) ==
    \A i \in DOMAIN Evolved : Evolved[i].required => batch[Evolved[i].id] # Null

\* Per key the last change of the log.
collapse(entries) ==
    [pk \in {entries[i].pk : i \in DOMAIN entries} |->
        entries[CHOOSE i \in DOMAIN entries :
                    entries[i].pk = pk /\ \A j \in (i + 1)..Len(entries) : entries[j].pk # pk].row]

-----------------------------------------------------------------------------

write_row(pk) ==
    /\ writes < MaxWrites /\ writes' = writes + 1
    /\ LET row == [i \in DOMAIN columns |-> 10 * writes' + i]
       IN  /\ stored' = (pk :> to_physical(catalog, row)) @@ stored
           /\ tail' = Append(tail, [pk |-> pk, row |-> row])
    /\ UNCHANGED <<columns, catalog, fields, files, alters>>

\* An ALTER writes no entry: the mirror learns of it when it is next opened.
Alter ==
    /\ alters < MaxAlters /\ alters' = alters + 1
    /\ AtAnyTime \/ (tail = <<>> /\ fields = table_to_iceberg)
    /\ UNCHANGED <<stored, tail, fields, files, writes>>

alter_add(name, required, default) ==
    /\ Alter
    /\ name \notin Names(columns)
    /\ required => default # Null
    /\ columns' = Append(columns, [name |-> name, required |-> required])
    /\ catalog' = catalog_add_column(catalog, default)

alter_drop(i) ==
    /\ Alter
    /\ columns' = RemoveAt(columns, i)
    /\ catalog' = catalog_drop_column(catalog, i)

alter_rename(i, name) ==
    /\ Alter
    /\ name \notin Names(columns)
    /\ columns' = [columns EXCEPT ![i].name = name]
    /\ UNCHANGED catalog

\* A read or a compaction opens the table, which may publish a schema.
open_table ==
    /\ fields' = Evolved
    /\ UNCHANGED <<columns, catalog, stored, tail, files, alters, writes>>

\* seal_table: the table is opened, then the batch is written, or refused.
seal_batch ==
    /\ tail # <<>>
    /\ fields' = Evolved
    /\ LET changes == collapse(tail)
           batch == [pk \in DOMAIN changes |-> rows_to_record_batch(changes[pk])]
       IN  IF \A pk \in DOMAIN batch : Accepted(batch[pk])
           THEN files' = Append(files, batch) /\ tail' = <<>>
           ELSE UNCHANGED <<files, tail>>
    /\ UNCHANGED <<columns, catalog, stored, alters, writes>>

EvoInit ==
    /\ \E names \in {s \in [1..2 -> ColumnName] : s[1] # s[2]} :
         columns = [i \in 1..2 |-> [name |-> names[i], required |-> FALSE]]
    /\ catalog = identity(2)
    /\ fields = table_to_iceberg
    /\ stored = <<>> /\ tail = <<>> /\ files = <<>> /\ alters = 0 /\ writes = 0

EvoNext ==
    \/ \E pk \in Pk : write_row(pk)
    \/ \E name \in ColumnName, required \in BOOLEAN,
          default \in {Null} \cup IF WithDefault THEN {9} ELSE {} : alter_add(name, required, default)
    \/ \E i \in DOMAIN columns : alter_drop(i) \/ \E name \in ColumnName : alter_rename(i, name)
    \/ open_table \/ seal_batch

-----------------------------------------------------------------------------

\* A row as SQL reads it, and as the mirror does: from the log if it is still
\* there, else from the newest file that has it.
SqlRow(pk) ==
    LET row == to_logical(catalog, stored[pk])
    IN  [name \in Names(columns) |->
            row[CHOOSE i \in DOMAIN columns : columns[i].name = name]]

MirrorRow(pk) ==
    LET newest == files[CHOOSE i \in DOMAIN files :
                           pk \in DOMAIN files[i] /\ \A j \in (i + 1)..Len(files) : pk \notin DOMAIN files[j]]
        values == IF pk \in DOMAIN collapse(tail) THEN rows_to_record_batch(collapse(tail)[pk])
                  ELSE newest[pk]
    IN  [name \in Names(columns) |->
            LET id == Evolved[CHOOSE i \in DOMAIN Evolved : Evolved[i].name = name].id
            IN  IF id \in DOMAIN values THEN values[id] ELSE Null]

\* docs/lakehouse/iceberg-mirror.md, "Schema evolution": after any ALTER TABLE
\* the mirror shows the table's rows, each value under the column it was written
\* to, whether it is still in the log or in a file of an older schema.
ColumnsAligned == \A pk \in DOMAIN stored : MirrorRow(pk) = SqlRow(pk)

=============================================================================
