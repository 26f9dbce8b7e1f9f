-------------------------- MODULE LakehouseMirror --------------------------
(***************************************************************************)
(* The lakehouse mirror of one tenant: commits that append to the CDC log  *)
(* (crates/bluedb-sql), the seal loop that drains the log into Iceberg     *)
(* snapshots, the compaction loop that rewrites them, the PRAGMAs that     *)
(* switch the mirroring of tables on and off (crates/bluedb-lakehouse) and *)
(* the analytical read that unions a snapshot with the unsealed tail       *)
(* (crates/bluedb-query).                                                  *)
(*                                                                         *)
(* A commit, a PRAGMA, a read and the two loops are tasks of one process;  *)
(* every await is a step boundary.  The row store, the log, the registry   *)
(* and the Iceberg files survive a restart, the rest does not.  SlateDB    *)
(* and the object store are external: a write batch and the PUT of one     *)
(* object are atomic.  The Iceberg table of every table was opened once,   *)
(* so its version 0 exists.                                                *)
(*                                                                         *)
(* A snapshot is a set of data files and of equality-delete files, each    *)
(* with the sequence number of the commit that added it, since that is     *)
(* what merge-on-read goes by.                                             *)
(***************************************************************************)
EXTENDS Integers, FiniteSets, FiniteSetsExt

CONSTANTS
    Table, Key, Value,
    Client,         \* connections that commit at the same time
    Absent,         \* no row
    Overlap,        \* whether seal and compaction may run at the same time
    MaxDataFiles,   \* cfg.max_data_files
    MaxDeleteFiles, \* cfg.max_delete_files
    MaxVersion,     \* bound: metadata versions of a table
    Budget,         \* bound: the scenarios, how much of everything each allows
    Unguarded,      \* the uses the code leaves to the operator's care, see Calm
    AsDocumented    \* whether every enabled table is held to be mirrored

\* The tables and keys a scenario works on, and how many of each event it has.
Allowance == [tables : SUBSET Table, keys : SUBSET Key,
              commits : Nat, faults : Nat, reads : Nat, pragmas : Nat]

ASSUME MirrorAssumption ==
    /\ Absent \notin Value /\ Overlap \in BOOLEAN
    /\ MaxDataFiles \in Nat /\ MaxDeleteFiles \in Nat /\ MaxVersion \in Nat
    /\ Budget \subseteq Allowance
    /\ Unguarded \subseteq {"busy", "drop", "read", "save"} /\ AsDocumented \in BOOLEAN

VARIABLES
    rows,      \* the row store: rows[t][k]
    log,       \* the CDC log: sequence -> entry
    cdc_seq,   \* the in-memory counter, Unseeded after a start
    commit_seq, \* commits since the start
    seal_signal, \* the Notify permit
    client,    \* what each connection is committing
    metadata,  \* metadata[t][v]: v{N}.metadata.json
    hint,      \* version-hint.text
    seal,      \* where the seal loop is
    compact,   \* where the compaction loop is
    cdc,       \* the flags a commit goes by: the tenant's default, and the overrides
    state,     \* the engine's copy of the registry
    registry,  \* _registry.json
    indexed,   \* whether _tenants.json names the tenant
    opened,    \* whether the manager holds the tenant's engine
    dropped,   \* the tables that do not exist at present
    pragma,    \* where the PRAGMA being applied is
    reader,    \* where the analytical read is
    left,      \* what the environment may still do
    unwoken,   \* a seal failed or the process restarted since the last wake-up (history)
    restarted, \* whether the process was ever restarted (history)
    missing,   \* tables with rows no entry was written for (history)
    diverged,  \* mirrored tables changed while their mirroring was off (history)
    behind,    \* tables whose watermark is ahead of their last backfill (history)
    unsaved    \* what a PRAGMA that failed left unsaved: "flags", "index" (history)

store == <<rows, log>>
iceberg == <<metadata, hint>>
control == <<cdc, state, registry, indexed, opened, dropped, pragma>>
history == <<unwoken, restarted, missing, diverged, behind, unsaved>>
loops == <<seal, compact>>
sequences == <<cdc_seq, commit_seq>>
vars == <<store, sequences, seal_signal, client, iceberg, loops, control, reader, left, history>>

Unseeded == -1

-----------------------------------------------------------------------------
(* The CDC log.                                                            *)

Max0(S) == IF S = {} THEN 0 ELSE Max(S)

max_persisted_cdc_seq == Max0(DOMAIN log)

next_cdc_seq == 1 + IF cdc_seq = Unseeded THEN max_persisted_cdc_seq ELSE cdc_seq

\* Mutant: the exclusive start is stepped over.
scan_cdc_skips(after) == [s \in {s \in DOMAIN log : s > after + 1} |-> log[s]]

\* The watermark a write's response carries.
write_watermark == Max({commit_seq, cdc_seq})

\* The entries after sequence `after`, in sequence order by construction.
scan_cdc(after) == [s \in {s \in DOMAIN log : s > after} |-> log[s]]

\* Last writer wins: per key of t, the row of its last entry.
collapse_lww(entries, t) ==
    LET of(k) == {s \in DOMAIN entries : entries[s].table = t /\ entries[s].key = k}
    IN  [k \in {k \in Key : of(k) # {}} |-> entries[Max(of(k))].row]

-----------------------------------------------------------------------------
(* Iceberg metadata.                                                       *)

NoSnapshot == [seq |-> 0, data |-> {}, deletes |-> {}, watermark |-> 0]

\* Merge-on-read: a delete retires the rows of its key that were added before.
Visible(data, deletes) ==
    {kv \in Key \X Value :
        \E d \in data :
            /\ kv[1] \in DOMAIN d.rows /\ d.rows[kv[1]] = kv[2]
            /\ ~\E e \in deletes : e.seq > d.seq /\ kv[1] \in e.keys}

View(md) == Visible(md.data, md.deletes)

DataFile(seq, content) ==
    IF DOMAIN content = {} THEN {} ELSE {[seq |-> seq, rows |-> content]}

DeleteFile(seq, keys) == IF keys = {} THEN {} ELSE {[seq |-> seq, keys |-> keys]}

\* Mutant: the previous version of an updated row is not retired.
DeletesOnly(changes) == {k \in DOMAIN changes : changes[k] = Absent}

\* upsert stages a delete of the keys it writes, delete of the ones it removes.
Retired(changes) == DOMAIN changes

\* One seal of a table: the parent's files and the new ones, all under the next
\* sequence number.
Sealed(md, changes, watermark) ==
    LET next == md.seq + 1
        upserts == {k \in DOMAIN changes : changes[k] # Absent}
    IN  [seq |-> next, watermark |-> watermark,
         data |-> md.data \cup DataFile(next, [k \in upserts |-> changes[k]]),
         deletes |-> md.deletes \cup DeleteFile(next, Retired(changes))]

\* The rows of a set of pairs that holds one value per key.
AsRows(pairs) ==
    [k \in {kv[1] : kv \in pairs} |-> CHOOSE v \in Value : <<k, v>> \in pairs]

\* Rewrites the whole table, deletes applied; nothing left is nothing done.
Major(md) ==
    IF View(md) = {} THEN {}
    ELSE {[seq |-> md.seq + 1, watermark |-> md.watermark, deletes |-> {},
           data |-> DataFile(md.seq + 1, AsRows(View(md)))]}

CohortRows(md, cohort) == Visible(cohort, md.deletes)

\* Mutant: the rewritten snapshot reuses its parent's sequence number.
MinorSameSeq(md, cohort) ==
    [seq |-> md.seq, watermark |-> md.watermark, deletes |-> md.deletes,
     data |-> (md.data \ cohort) \cup DataFile(md.seq, AsRows(CohortRows(md, cohort)))]

\* Mutant: the rewritten snapshot does not carry the watermark.
MinorNoWatermark(md, cohort) ==
    [seq |-> md.seq + 1, watermark |-> 0, deletes |-> md.deletes,
     data |-> (md.data \ cohort) \cup DataFile(md.seq + 1, AsRows(CohortRows(md, cohort)))]

\* Bin-packs the cohort of small files and keeps every delete.
Minor(md, cohort) ==
    [seq |-> md.seq + 1, watermark |-> md.watermark, deletes |-> md.deletes,
     data |-> (md.data \ cohort)
              \cup DataFile(md.seq + 1, AsRows(CohortRows(md, cohort)))]

\* What choose_compaction picks; which files are small is left open.
Compacted(md) ==
    IF Cardinality(md.deletes) > MaxDeleteFiles THEN Major(md)
    ELSE IF Cardinality(md.data) > MaxDataFiles
    THEN {Minor(md, cohort) : cohort \in {c \in SUBSET md.data : Cardinality(c) > 1}}
    ELSE {}

Current(t) == metadata[t][hint[t]]

-----------------------------------------------------------------------------
(* The mirroring flags.                                                    *)

Idle == [at |-> "idle"]

\* Whether commits on t write to the log.
is_enabled(t) == cdc.default # (t \in cdc.overrides)

\* The overrides once t is forced to `on` under the default `d`.
SetTable(overrides, d, t, on) == IF on = d THEN overrides \ {t} ELSE overrides \cup {t}

\* A registry's flags applied to the control, as reopen does.
Restored(r) ==
    [default |-> r.default_on,
     overrides |-> {t \in Table : r.tables[t] = IF r.default_on THEN "off" ELSE "on"}]

NoRegistry == [default_on |-> FALSE, tables |-> [t \in Table |-> "none"]]

\* The tables the mirror owes completeness: all their rows went through the log
\* or a backfill.  The documentation owes it to every table that is enabled.
Captured ==
    IF AsDocumented THEN {t \in Table : is_enabled(t) /\ pragma = Idle}
    ELSE Table \ (missing \cup diverged)

\* A PRAGMA and the two loops: the code runs them side by side ("busy" in
\* Unguarded), which is not safe; without it the operator waits for a quiet moment.
Calm == "busy" \in Unguarded \/ pragma = Idle

-----------------------------------------------------------------------------
(* Commits.                                                                *)

Ready == [at |-> "idle"]

\* Whether c may commit a change of row k of t while d commits: unique locks
\* and the write lease keep changes of one row apart, and updates and deletes
\* from each other; single inserts run side by side.
Compatible(d, t, k) ==
    client[d] # Ready =>
        LET e == client[d].entry
        IN  /\ <<t, k>> # <<e.table, e.key>>
            /\ rows[t][k] = Absent \/ rows[e.table][e.key] = Absent

\* Building its batch, a commit on a mirrored table takes a sequence.
allocate(c) ==
    /\ client[c] = Ready /\ left.commits > 0
    /\ \E t \in left.tables \ dropped, k \in left.keys, row \in Value \cup {Absent} :
         /\ row # rows[t][k]
         /\ \A d \in Client : Compatible(d, t, k)
         /\ client' = [client EXCEPT ![c] =
                [at |-> "write", seq |-> IF is_enabled(t) THEN next_cdc_seq ELSE 0,
                 entry |-> [table |-> t, key |-> k, row |-> row]]]
         /\ cdc_seq' = IF is_enabled(t) THEN next_cdc_seq ELSE cdc_seq
    /\ left' = [left EXCEPT !.commits = @ - 1]
    /\ UNCHANGED <<store, commit_seq, seal_signal, iceberg, loops, control, reader, history>>

WriteRow(e) == rows' = [rows EXCEPT ![e.table][e.key] = e.row]

WriteEntry(seq, e) ==
    log' = [s \in DOMAIN log \cup {seq} |-> IF s = seq THEN e ELSE log[s]]

InMirror(t) == hint[t] > 0 \/ \E s \in DOMAIN log : log[s].table = t

\* What a change of t without an entry does to the history.
Uncaptured(t) ==
    IF InMirror(t) THEN diverged' = diverged \cup {t} /\ UNCHANGED missing
    ELSE missing' = missing \cup {t} /\ UNCHANGED diverged

\* Mutant: the loop is woken before the batch is written, not after.
write_batch_signals_first(c) ==
    /\ client[c] # Ready
    /\ \/ /\ client[c].at = "write"
          /\ seal_signal' = TRUE /\ unwoken' = FALSE
          /\ client' = [client EXCEPT ![c].at = "signalled"]
          /\ UNCHANGED <<store, commit_seq>>
       \/ /\ client[c].at = "signalled"
          /\ WriteRow(client[c].entry) /\ WriteEntry(client[c].seq, client[c].entry)
          /\ client' = [client EXCEPT ![c] = Ready]
          /\ commit_seq' = commit_seq + 1
          /\ UNCHANGED <<seal_signal, unwoken>>
    /\ UNCHANGED <<cdc_seq, iceberg, loops, control, reader, left, restarted, missing, diverged,
                   behind, unsaved>>

\* The batch holds the row and its entry; then the seal loop is woken.
write_batch(c) ==
    /\ client[c] # Ready
    /\ LET e == client[c].entry
           logged == client[c].seq > 0
       IN  /\ WriteRow(e)
           /\ IF logged THEN WriteEntry(client[c].seq, e) ELSE UNCHANGED log
           /\ seal_signal' = (seal_signal \/ logged)
           /\ unwoken' = (unwoken /\ ~logged)
           /\ IF logged THEN UNCHANGED <<missing, diverged>> ELSE Uncaptured(e.table)
    /\ commit_seq' = commit_seq + 1
    /\ client' = [client EXCEPT ![c] = Ready]
    /\ UNCHANGED <<cdc_seq, iceberg, loops, control, reader, left, restarted, behind, unsaved>>

-----------------------------------------------------------------------------
(* The seal loop.                                                          *)

Asleep == [at |-> "idle"]

MayRun(other) == Overlap \/ other = Asleep

\* The debounce over, scan the log; an empty log is nothing to seal.
seal_scan ==
    /\ seal = Asleep /\ seal_signal /\ MayRun(compact) /\ Calm
    /\ seal_signal' = FALSE
    /\ seal' = IF DOMAIN log = {} THEN Asleep
               ELSE [at |-> "tables", entries |-> scan_cdc(0), watermark |-> Max(DOMAIN log),
                     todo |-> {log[s].table : s \in DOMAIN log}]
    /\ UNCHANGED <<store, sequences, client, iceberg, compact, control, reader, left, history>>

\* seal_table up to its publication: load the table, write its new files.  A
\* table that was dropped fails the whole seal.
seal_table ==
    /\ seal.at = "tables" /\ seal.todo # {}
    /\ \E t \in seal.todo :
         /\ hint[t] < MaxVersion
         /\ seal' = IF t \in dropped THEN Asleep
                    ELSE [at |-> "metadata", entries |-> seal.entries,
                          watermark |-> seal.watermark,
                          todo |-> seal.todo, table |-> t, version |-> hint[t] + 1,
                          md |-> Sealed(Current(t), collapse_lww(seal.entries, t),
                                        seal.watermark)]
    /\ UNCHANGED <<store, sequences, seal_signal, client, iceberg, compact, control, reader,
                   left, history>>

\* write_metadata: the versioned file, then the pointer.  The versions before
\* stay in the bucket; the model forgets those that nothing will point to again.
InFlight(t) == {j.version : j \in {j \in {seal, compact, pragma} :
                                     j.at \in {"metadata", "hint"} /\ j.table = t}}

PutMetadata(job) ==
    /\ job.at = "metadata"
    /\ metadata' = [metadata EXCEPT ![job.table][job.version] = job.md]
    /\ UNCHANGED hint

PutHint(job) ==
    /\ job.at = "hint"
    /\ hint' = [hint EXCEPT ![job.table] = job.version]
    /\ metadata' = [metadata EXCEPT ![job.table] =
           [v \in 0..MaxVersion |->
               IF \A w \in InFlight(job.table) : v < w THEN NoSnapshot ELSE @[v]]]

\* Whether the registry has to be saved to note that the table has a snapshot: at
\* its first one, and after a restart, which may have lost the note, perhaps again.
Unnoted(job) == {job.version = 1} \cup {restarted \/ job.version = 1}

save == registry' = state /\ unsaved' = unsaved \ {"flags"}

seal_put_metadata ==
    /\ PutMetadata(seal)
    /\ seal' = [seal EXCEPT !.at = "hint"]
    /\ UNCHANGED <<store, sequences, seal_signal, client, compact, control, reader, left, history>>

seal_put_hint ==
    /\ PutHint(seal)
    /\ \E unnoted \in Unnoted(seal) :
         seal' = [at |-> IF unnoted THEN "mark" ELSE "tables", entries |-> seal.entries,
                  watermark |-> seal.watermark, todo |-> seal.todo \ {seal.table}]
    /\ behind' = behind \ {seal.table}
    /\ UNCHANGED <<store, sequences, seal_signal, client, compact, control, reader, left,
                   unwoken, restarted, missing, diverged, unsaved>>

\* mark_materialized
seal_mark ==
    /\ seal.at = "mark" /\ save
    /\ seal' = [seal EXCEPT !.at = "tables"]
    /\ UNCHANGED <<store, sequences, seal_signal, client, iceberg, compact, cdc, state, indexed,
                   opened, dropped, pragma, reader, left, unwoken, restarted, missing, diverged,
                   behind>>

\* Mutant: the whole log is collected.
SweptAll(through) == DOMAIN log

\* gc_cdc scans again and deletes what is at or below the watermark.
Swept(through) == {s \in DOMAIN log : s <= through}

gc_cdc ==
    /\ seal.at = "tables" /\ seal.todo = {}
    /\ log' = [s \in DOMAIN log \ Swept(seal.watermark) |-> log[s]]
    /\ seal' = Asleep
    /\ UNCHANGED <<rows, sequences, seal_signal, client, iceberg, compact, control, reader,
                   left, history>>

Fault == left.faults > 0 /\ left' = [left EXCEPT !.faults = @ - 1] /\ unwoken' = TRUE

\* A step of a seal fails: the loop reports it and waits for the next signal.
seal_fails ==
    /\ seal # Asleep /\ Fault
    /\ seal' = Asleep
    /\ UNCHANGED <<store, sequences, seal_signal, client, iceberg, compact, control, reader,
                   restarted, missing, diverged, behind, unsaved>>

-----------------------------------------------------------------------------
(* The compaction loop.                                                    *)

\* The loop visits the tables the registry names, not those on by default.
mirrored_tables == {t \in Table : state.tables[t] = "on"}

compact_table ==
    /\ compact = Asleep /\ MayRun(seal) /\ Calm
    /\ \E t \in mirrored_tables \ dropped :
         /\ hint[t] < MaxVersion
         /\ \E md \in Compacted(Current(t)) :
              compact' = [at |-> "metadata", table |-> t, version |-> hint[t] + 1, md |-> md]
    /\ UNCHANGED <<store, sequences, seal_signal, client, iceberg, seal, control, reader, left,
                   history>>

compact_put_metadata ==
    /\ PutMetadata(compact)
    /\ compact' = [compact EXCEPT !.at = "hint"]
    /\ UNCHANGED <<store, sequences, seal_signal, client, seal, control, reader, left, history>>

compact_put_hint ==
    /\ PutHint(compact)
    /\ compact' = Asleep
    /\ UNCHANGED <<store, sequences, seal_signal, client, seal, control, reader, left, history>>

-----------------------------------------------------------------------------
(* PRAGMA lakehouse_mirror.                                                *)

Spend == left.pragmas > 0 /\ left' = [left EXCEPT !.pragmas = @ - 1]

Directive == [kind : {"table"}, table : left.tables, on : BOOLEAN]
             \cup [kind : {"default"}, on : BOOLEAN]

\* engine_for: the tenant's engine, or its first opening, which restores the
\* registry into the flags.
MayApply == pragma = Idle /\ ("busy" \in Unguarded \/ (seal = Asleep /\ compact = Asleep))

Reopened ==
    IF opened THEN UNCHANGED <<cdc, state>> ELSE state' = registry /\ cdc' = Restored(registry)

\* A new engine is entered in the index once it is in the map.
engine_for ==
    /\ MayApply /\ Spend /\ Reopened
    /\ opened' = TRUE
    /\ indexed' = (indexed \/ ~opened)
    /\ unsaved' = IF opened THEN unsaved ELSE unsaved \ {"index"}
    /\ \E d \in Directive : pragma' = [at |-> "apply", directive |-> d]
    /\ UNCHANGED <<store, sequences, seal_signal, client, iceberg, loops, registry, dropped,
                   reader, unwoken, restarted, missing, diverged, behind>>

\* The index cannot be written: the PRAGMA fails, and the next one finds the
\* engine in the map and does not try again.
register_tenant_fails ==
    /\ MayApply /\ Reopened
    /\ ~opened /\ opened' = TRUE
    /\ left.pragmas > 0 /\ left.faults > 0
    /\ left' = [left EXCEPT !.pragmas = @ - 1, !.faults = @ - 1]
    /\ unsaved' = unsaved \cup {"index"}
    /\ UNCHANGED <<store, sequences, seal_signal, client, iceberg, loops, registry, indexed,
                   dropped, pragma, reader, unwoken, restarted, missing, diverged, behind>>

\* enable_table and disable_table set both flags before they save; a new default
\* is set first and the explicit flags are applied again after it.  A commit
\* that asked for the flag before is still under way, unless nobody writes.
apply_pragma ==
    /\ pragma.at = "apply"
    /\ "busy" \in Unguarded \/ \A c \in Client : client[c] = Ready
    /\ LET d == pragma.directive IN
         \/ /\ d.kind = "table"
            /\ cdc' = [cdc EXCEPT !.overrides = SetTable(@, cdc.default, d.table, d.on)]
            /\ state' = [state EXCEPT !.tables[d.table] = IF d.on THEN "on" ELSE "off"]
            /\ pragma' = [at |-> "persist", directive |-> d]
         \/ /\ d.kind = "default"
            /\ cdc' = [cdc EXCEPT !.default = d.on]
            /\ pragma' = [at |-> "flags", directive |-> d]
            /\ UNCHANGED state
    /\ UNCHANGED <<store, sequences, seal_signal, client, iceberg, loops, registry, indexed,
                   opened, dropped, reader, left, history>>

reapply_flags ==
    /\ pragma.at = "flags"
    /\ state' = [state EXCEPT !.default_on = pragma.directive.on]
    /\ cdc' = Restored(state')
    /\ pragma' = [at |-> "persist", directive |-> pragma.directive]
    /\ UNCHANGED <<store, sequences, seal_signal, client, iceberg, loops, registry, indexed,
                   opened, dropped, reader, left, history>>

\* The flag saved, a table switched on is backfilled.  A default switched on is not.
persist_registry ==
    /\ pragma.at = "persist" /\ save
    /\ LET d == pragma.directive
       IN  pragma' = IF d.kind = "table" /\ d.on
                     THEN [at |-> "scan", table |-> d.table] ELSE Idle
    /\ UNCHANGED <<store, sequences, seal_signal, client, iceberg, loops, cdc, state, indexed,
                   opened, dropped, reader, left, unwoken, restarted, missing, diverged, behind>>

\* An await of a PRAGMA fails and the statement with it; the flags stay set.
pragma_fails ==
    /\ pragma.at \in {"persist", "scan", "load", "metadata", "hint", "mark"}
    /\ left.faults > 0 /\ left' = [left EXCEPT !.faults = @ - 1]
    /\ unsaved' = unsaved \cup {what \in {"flags"} : pragma.at = "persist"}
    /\ pragma' = Idle
    /\ UNCHANGED <<store, sequences, seal_signal, client, iceberg, loops, cdc, state, registry,
                   indexed, opened, dropped, reader, unwoken, restarted, missing, diverged, behind>>

\* The rows are read; a table that is dropped or empty is done with.
backfill_scan ==
    /\ pragma.at = "scan"
    /\ LET t == pragma.table
           found == {k \in Key : rows[t][k] # Absent}
       IN  IF found = {} THEN pragma' = Idle /\ missing' = missing \ {t}
           ELSE /\ pragma' = [at |-> "load", table |-> t, rows |-> [k \in found |-> rows[t][k]]]
                /\ UNCHANGED missing
    /\ UNCHANGED <<store, sequences, seal_signal, client, iceberg, loops, cdc, state, registry,
                   indexed, opened, dropped, reader, left, unwoken, restarted, diverged, behind,
                   unsaved>>

\* Then the log's last sequence, the watermark, and the table to add them to.
\* The watermark also covers the changes the scan of the rows came too early for,
\* and the deletes that are waiting to be sealed.
backfill_load ==
    /\ pragma.at = "load" /\ hint[pragma.table] < MaxVersion
    /\ LET t == pragma.table
           pending == collapse_lww(log, t)
       IN  pragma' = [at |-> "metadata", table |-> t, version |-> hint[t] + 1,
                      md |-> Sealed(Current(t), pragma.rows, max_persisted_cdc_seq),
                      behind |-> {t : k \in {k \in DOMAIN pending :
                                     \/ pending[k] = Absent
                                     \/ k \notin DOMAIN pragma.rows
                                     \/ pragma.rows[k] # pending[k]}}]
    /\ UNCHANGED <<store, sequences, seal_signal, client, iceberg, loops, cdc, state, registry,
                   indexed, opened, dropped, reader, left, history>>

backfill_put_metadata ==
    /\ PutMetadata(pragma)
    /\ pragma' = [pragma EXCEPT !.at = "hint"]
    /\ UNCHANGED <<store, sequences, seal_signal, client, loops, cdc, state, registry, indexed,
                   opened, dropped, reader, left, history>>

backfill_put_hint ==
    /\ PutHint(pragma)
    /\ \E unnoted \in Unnoted(pragma) : pragma' = IF unnoted THEN [at |-> "mark"] ELSE Idle
    /\ missing' = missing \ {pragma.table}
    /\ behind' = (behind \ {pragma.table}) \cup pragma.behind
    /\ UNCHANGED <<store, sequences, seal_signal, client, loops, cdc, state, registry, indexed,
                   opened, dropped, reader, left, unwoken, restarted, diverged, unsaved>>

backfill_mark ==
    /\ pragma.at = "mark" /\ save
    /\ pragma' = Idle
    /\ UNCHANGED <<store, sequences, seal_signal, client, iceberg, loops, cdc, state, indexed,
                   opened, dropped, reader, left, unwoken, restarted, missing, diverged, behind>>

\* DROP TABLE deletes the rows and writes no entries; CREATE TABLE brings back an
\* empty table of that name.  Neither touches the registry or the Iceberg files.
delete_schema(t) ==
    /\ t \in left.tables \ dropped /\ Spend /\ pragma = Idle
    /\ \A c \in Client : client[c] # Ready => client[c].entry.table # t
    /\ "drop" \in Unguarded \/ (seal = Asleep /\ ~\E s \in DOMAIN log : log[s].table = t)
    /\ dropped' = dropped \cup {t}
    /\ rows' = [rows EXCEPT ![t] = [k \in Key |-> Absent]]
    /\ IF \A k \in Key : rows[t][k] = Absent THEN UNCHANGED <<missing, diverged>>
       ELSE Uncaptured(t)
    /\ UNCHANGED <<log, sequences, seal_signal, client, iceberg, loops, cdc, state, registry,
                   indexed, opened, pragma, reader, unwoken, restarted, behind, unsaved>>

insert_schema(t) ==
    /\ t \in dropped
    /\ dropped' = dropped \ {t}
    /\ UNCHANGED <<store, sequences, seal_signal, client, iceberg, loops, cdc, state, registry,
                   indexed, opened, pragma, reader, left, history>>

-----------------------------------------------------------------------------
(* The analytical read.                                                    *)

Rows(t) == {<<k, rows[t][k]>> : k \in {k \in Key : rows[t][k] # Absent}}

\* The snapshot's rows whose key the unsealed tail did not touch, and the rows
\* the tail wrote.
Merged(t, md, tail) ==
    LET delta == collapse_lww(tail, t)
    IN  {kv \in View(md) : kv[1] \notin DOMAIN delta}
        \cup {<<k, delta[k]>> : k \in {k \in DOMAIN delta : delta[k] # Absent}}

\* What a read that meets no other task returns; a table that is not mirrored is
\* read from the row store.
MergedRead(t) ==
    IF is_enabled(t) THEN Merged(t, Current(t), scan_cdc(Current(t).watermark)) ELSE Rows(t)

\* scan_merge: the snapshot, then the watermark, read again, then the log's tail.
read_snapshot ==
    /\ reader = Idle /\ left.reads > 0
    /\ \E t \in left.tables \ dropped :
         /\ is_enabled(t)
         /\ reader' = [at |-> "delta", table |-> t, version |-> hint[t], md |-> Current(t)]
    /\ left' = [left EXCEPT !.reads = @ - 1]
    /\ UNCHANGED <<store, sequences, seal_signal, client, iceberg, loops, control, history>>

read_watermark ==
    /\ reader.at = "delta"
    /\ reader' = [at |-> "tail", table |-> reader.table, version |-> reader.version,
                  md |-> reader.md, watermark |-> Current(reader.table).watermark]
    /\ UNCHANGED <<store, sequences, seal_signal, client, iceberg, loops, control, left, history>>

\* The tail is scanned and the answer is Answer, as of now.
read_tail ==
    /\ reader.at = "tail"
    /\ reader' = Idle
    /\ UNCHANGED <<store, sequences, seal_signal, client, iceberg, loops, control, left, history>>

Answer == Merged(reader.table, reader.md, scan_cdc(reader.watermark))

-----------------------------------------------------------------------------

\* A crash, or a failover to another node: reopen_all restores what the index
\* and the registry name.
restart ==
    /\ Fault
    /\ cdc_seq' = Unseeded /\ commit_seq' = 0 /\ seal_signal' = FALSE
    /\ client' = [c \in Client |-> Ready]
    /\ seal' = Asleep /\ compact' = Asleep /\ pragma' = Idle /\ reader' = Idle
    /\ state' = IF indexed THEN registry ELSE NoRegistry
    /\ cdc' = Restored(state')
    /\ restarted' = TRUE /\ opened' = indexed
    /\ unsaved' = unsaved \ {"flags"}
    /\ UNCHANGED <<store, iceberg, registry, indexed, dropped, missing, diverged, behind>>

\* Mirrored from its creation, or not mirrored and possibly holding rows.
Init ==
    /\ left \in Budget
    /\ \E on \in {TRUE} \cup {left.pragmas = 0} :
         /\ registry = [NoRegistry EXCEPT !.tables = [t \in Table |-> IF on THEN "on" ELSE "none"]]
         /\ rows \in [Table -> [Key -> IF on THEN {Absent} ELSE Value \cup {Absent}]]
         /\ \A t \in Table, k \in Key :
              rows[t][k] # Absent => t \in left.tables /\ k \in left.keys
         /\ indexed = on /\ opened = on
    /\ missing = {t \in Table : \E k \in Key : rows[t][k] # Absent}
    /\ state = registry /\ cdc = Restored(registry)
    /\ log = [s \in {} |-> Absent]
    /\ cdc_seq = Unseeded /\ commit_seq = 0 /\ seal_signal = FALSE
    /\ client = [c \in Client |-> Ready]
    /\ metadata = [t \in Table |-> [v \in 0..MaxVersion |-> NoSnapshot]]
    /\ hint = [t \in Table |-> 0]
    /\ seal = Asleep /\ compact = Asleep /\ pragma = Idle /\ reader = Idle
    /\ dropped = {} /\ diverged = {} /\ behind = {}
    /\ unwoken = FALSE /\ restarted = FALSE /\ unsaved = {}

Sealing ==
    seal_scan \/ seal_table \/ seal_put_metadata \/ seal_put_hint \/ seal_mark \/ gc_cdc

Applying ==
    \/ apply_pragma \/ reapply_flags \/ persist_registry
    \/ backfill_scan \/ backfill_load \/ backfill_put_metadata \/ backfill_put_hint
    \/ backfill_mark

Reading == read_watermark \/ read_tail

Next ==
    \/ \E c \in Client : allocate(c) \/ write_batch(c)
    \/ Sealing \/ seal_fails
    \/ compact_table \/ compact_put_metadata \/ compact_put_hint
    \/ engine_for \/ register_tenant_fails \/ Applying \/ pragma_fails
    \/ \E t \in Table : delete_schema(t) \/ insert_schema(t)
    \/ read_snapshot \/ Reading
    \/ restart

Spec == Init /\ [][Next]_vars

\* The runtime schedules every ready task; a written batch is acknowledged.
FairSpec ==
    /\ Spec
    /\ WF_vars(Sealing)
    /\ WF_vars(Applying)
    /\ WF_vars(compact_put_metadata \/ compact_put_hint)
    /\ \A c \in Client : WF_vars(write_batch(c))

-----------------------------------------------------------------------------
(* Properties.                                                             *)

\* The log's entries and the flags have their shape, and the hint names a
\* complete metadata file: the version it points to is the number of snapshots
\* published.
TypeOK ==
    /\ rows \in [Table -> [Key -> Value \cup {Absent}]]
    /\ DOMAIN log \subseteq Nat \ {0}
    /\ \A s \in DOMAIN log :
         log[s] \in [table : Table, key : Key, row : Value \cup {Absent}]
    /\ cdc_seq \in {Unseeded} \cup Nat /\ commit_seq \in Nat
    /\ seal_signal \in BOOLEAN
    /\ hint \in [Table -> 0..MaxVersion]
    /\ \A t \in Table : Current(t).seq = hint[t] /\ Current(t).watermark \in Nat
    /\ left \in Allowance
    /\ cdc \in [default : BOOLEAN, overrides : SUBSET Table]
    /\ {state, registry} \subseteq [default_on : BOOLEAN, tables : [Table -> {"on", "off", "none"}]]

\* Between two PRAGMAs the commits go by the engine's flags, and those are saved
\* and the tenant is in the index, so that a restart changes nothing: unless a save
\* or the entry in the index failed and was not made good ("save" in Unguarded: even
\* then).
FlagsSaved ==
    pragma = Idle =>
        /\ cdc = Restored(state)
        /\ unsaved = {} \/ "save" \in Unguarded =>
              state = registry /\ (indexed \/ registry = NoRegistry)

\* Nothing committed is lost to the mirror: the published snapshot, with what
\* the log still holds applied over it, is the table.  It holds at every step
\* of a seal, also of one that fails or crashes half way or is repeated, of a
\* compaction and of a backfill, which makes up for the rows a table had before.
NoChangeLost ==
    /\ \A t \in Captured : Merged(t, Current(t), log) = Rows(t)
    /\ FlagsSaved

\* Merge-on-read shows one version of a row: every update retires the version
\* before it, through seals that are repeated and files that are rewritten.
OneRowPerKey ==
    \A t \in Table :
        \A x, y \in View(Current(t)) : x[1] = y[1] => x = y

\* docs/guarantees/consistency.md: "The active writer additionally unions its
\* own unsealed tail, so an analytical read on the writer is still
\* read-your-writes."  A read takes several steps; unless "read" is in
\* Unguarded, an answer counts only if no snapshot was published between them.
\* After a backfill the reads of a table may have to wait for the next seal.
ReadYourWrites ==
    /\ \A t \in Captured : (t \in behind /\ ~AsDocumented) \/ MergedRead(t) = Rows(t)
    /\ reader.at = "tail" /\ reader.table \in Captured \ behind
       /\ ("read" \in Unguarded \/ hint[reader.table] = reader.version)
       => Answer = Rows(reader.table)

\* The same, for a writer that was never restarted.
ReadYourWritesUntilRestart == restarted \/ ReadYourWrites

\* A snapshot that is published never goes back to an older state of the log:
\* without a restart its watermark only grows, and so does the one that writes
\* are answered with.  A backfill of a table that is mirrored already starts from
\* what the log still holds and may lower it.
WatermarkGrows ==
    [][\/ ~AsDocumented /\ (restarted' \/ pragma.at = "hint")
       \/ /\ \A t \in Table : Current(t)'.watermark >= Current(t).watermark
          /\ write_watermark' >= write_watermark]_vars

\* Event-driven freshness: whatever is committed is sealed and its entry
\* collected, once the writes pause.  A failed seal and a restart leave the log
\* waiting, and the next commit's wake-up picks up all they left.  No commit is
\* missed between the wake-up, the scan and the collection.
SealedEventually ==
    DOMAIN log # {} ~> DOMAIN log = {} \/ unwoken

=============================================================================
