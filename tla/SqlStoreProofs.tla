--------------------------- MODULE SqlStoreProofs ---------------------------
(***************************************************************************)
(* Requests of the SQL store never wait for each other in a circle, the    *)
(* store implements SnapshotTable, unique values stay unique and indexes   *)
(* exact, for any number of connections, any statements and any store they *)
(* work on.                                                                *)
(*                                                                         *)
(* The argument is the order of the locks: what a committing request still *)
(* has to lock comes after what it holds.  That this order is total is a   *)
(* fact about the keys, whose parts come from the catalog, the rows and    *)
(* the statements; so the store has to be followed through every           *)
(* statement (sections 2 to 6).  The same walk through the statements      *)
(* shows what first-committer-wins (sections 10 and 11) and unique values  *)
(* (section 12) rest on.  Indexes are followed row by row through the      *)
(* statements (section 13) and the commits beside others (section 14).     *)
(***************************************************************************)
EXTENDS SqlStore, FiniteSetTheorems, SequenceTheorems, WellFoundedInduction, TLAPS

-----------------------------------------------------------------------------
(* 1. The order of the locks.                                              *)

RowLock(k) == k = <<"row", k[2], k[3]>> /\ k[2] \in Int /\ k[3] \in Int
IndexLock(k) == k = <<"index", k[2], k[3], k[4]>> /\ k[2] \in Int /\ k[3] \in Int /\ k[4] \in Int
LockKey(k) == RowLock(k) \/ IndexLock(k)

LEMMA RowsInOrder ==
    ASSUME NEW a, NEW b, RowLock(a), RowLock(b)
    PROVE  LockBefore(a, b) <=> a[2] < b[2] \/ (a[2] = b[2] /\ a[3] < b[3])
<1>1. Len(a) = 3 /\ a[1] = "row" /\ b[1] = "row"
  BY DEF RowLock
<1>2. LockBefore(a, b) <=> \E n \in 2..3 : (\A m \in 2..(n - 1) : a[m] = b[m]) /\ a[n] < b[n]
  BY <1>1 DEF LockBefore
<1> QED BY <1>2

LEMMA EntriesInOrder ==
    ASSUME NEW a, NEW b, IndexLock(a), IndexLock(b)
    PROVE  LockBefore(a, b) <=> \/ a[2] < b[2] \/ (a[2] = b[2] /\ a[3] < b[3])
                                \/ (a[2] = b[2] /\ a[3] = b[3] /\ a[4] < b[4])
<1>1. Len(a) = 4 /\ a[1] = "index" /\ b[1] = "index"
  BY DEF IndexLock
<1>2. LockBefore(a, b) <=> \E n \in 2..4 : (\A m \in 2..(n - 1) : a[m] = b[m]) /\ a[n] < b[n]
  BY <1>1 DEF LockBefore
<1> QED BY <1>2

LEMMA RowsBeforeEntries ==
    ASSUME NEW a, NEW b, RowLock(a), IndexLock(b)
    PROVE  LockBefore(a, b) /\ ~ LockBefore(b, a)
<1>1. a[1] = "row" /\ b[1] = "index" /\ "row" # "index"
  BY DEF RowLock, IndexLock
<1> QED BY <1>1 DEF LockBefore

LEMMA OrderTotal ==
    ASSUME NEW a, NEW b, LockKey(a), LockKey(b), a # b
    PROVE  LockBefore(a, b) \/ LockBefore(b, a)
<1>1. CASE RowLock(a) /\ RowLock(b)
  <2>1. a = <<"row", a[2], a[3]>> /\ b = <<"row", b[2], b[3]>>
    BY <1>1 DEF RowLock
  <2>2. a[2] # b[2] \/ a[3] # b[3]
    BY <2>1
  <2> QED BY <1>1, <2>2, RowsInOrder DEF RowLock
<1>2. CASE IndexLock(a) /\ IndexLock(b)
  <2>1. a = <<"index", a[2], a[3], a[4]>> /\ b = <<"index", b[2], b[3], b[4]>>
    BY <1>2 DEF IndexLock
  <2>2. a[2] # b[2] \/ a[3] # b[3] \/ a[4] # b[4]
    BY <2>1
  <2> QED BY <1>2, <2>2, EntriesInOrder DEF IndexLock
<1> QED BY <1>1, <1>2, RowsBeforeEntries DEF LockKey

LEMMA OrderIrreflexive ==
    ASSUME NEW a, LockKey(a)
    PROVE  ~ LockBefore(a, a)
<1>1. CASE RowLock(a)
  BY <1>1, RowsInOrder DEF RowLock
<1>2. CASE IndexLock(a)
  BY <1>2, EntriesInOrder DEF IndexLock
<1> QED BY <1>1, <1>2 DEF LockKey

LEMMA OrderTransitive ==
    ASSUME NEW a, NEW b, NEW c, LockKey(a), LockKey(b), LockKey(c), LockBefore(a, b), LockBefore(b, c)
    PROVE  LockBefore(a, c)
<1>1. CASE RowLock(a) /\ RowLock(b) /\ RowLock(c)
  <2>1. a[2] < b[2] \/ (a[2] = b[2] /\ a[3] < b[3])
    BY <1>1, RowsInOrder
  <2>2. b[2] < c[2] \/ (b[2] = c[2] /\ b[3] < c[3])
    BY <1>1, RowsInOrder
  <2>3. a[2] < c[2] \/ (a[2] = c[2] /\ a[3] < c[3])
    BY <1>1, <2>1, <2>2 DEF RowLock
  <2> QED BY <1>1, <2>3, RowsInOrder
<1>2. CASE IndexLock(a) /\ IndexLock(b) /\ IndexLock(c)
  <2>1. a[2] < b[2] \/ (a[2] = b[2] /\ a[3] < b[3]) \/ (a[2] = b[2] /\ a[3] = b[3] /\ a[4] < b[4])
    BY <1>2, EntriesInOrder
  <2>2. b[2] < c[2] \/ (b[2] = c[2] /\ b[3] < c[3]) \/ (b[2] = c[2] /\ b[3] = c[3] /\ b[4] < c[4])
    BY <1>2, EntriesInOrder
  <2>3. a[2] < c[2] \/ (a[2] = c[2] /\ a[3] < c[3]) \/ (a[2] = c[2] /\ a[3] = c[3] /\ a[4] < c[4])
    BY <1>2, <2>1, <2>2 DEF IndexLock
  <2> QED BY <1>2, <2>3, EntriesInOrder
<1>3. CASE RowLock(a) /\ IndexLock(c)
  BY <1>3, RowsBeforeEntries
<1>4. CASE (IndexLock(a) /\ RowLock(b)) \/ (IndexLock(b) /\ RowLock(c))
  BY <1>4, RowsBeforeEntries
<1> QED BY <1>1, <1>2, <1>3, <1>4 DEF LockKey

\* A set of naturals has a least element.
LEMMA LeastNatural ==
    ASSUME NEW T, T \subseteq Nat, T # {}
    PROVE  \E x \in T : \A y \in T : x <= y
<1> DEFINE R == OpToRel(<, Nat)
<1>1. IsWellFoundedOn(R, Nat)
  BY NatLessThanWellFounded
<1>2. \A x, y \in Nat : x < y => <<x, y>> \in R
  BY DEF OpToRel
<1> HIDE DEF R
<1>3. PICK x \in T : \A y \in T : ~(<<y, x>> \in R)
  BY <1>1, WFMin
<1>4. ASSUME NEW y \in T PROVE x <= y
  <2>1. x \in Nat /\ y \in Nat
    OBVIOUS
  <2>2. ~(y < x)
    BY <1>2, <1>3, <2>1, Zenon
  <2> QED BY <2>1, <2>2
<1> QED BY <1>4

\* Finitely many locks have a last one.
LEMMA LastLock ==
    ASSUME NEW B, IsFiniteSet(B), B # {}, \A k \in B : LockKey(k)
    PROVE  \E k \in B : \A j \in B : ~ LockBefore(k, j)
<1> DEFINE Later(k) == {j \in B : LockBefore(k, j)}
           T == {Cardinality(Later(k)) : k \in B}
<1>1. ASSUME NEW k \in B PROVE IsFiniteSet(Later(k)) /\ Cardinality(Later(k)) \in Nat
  <2>1. Later(k) \subseteq B
    OBVIOUS
  <2> QED BY <2>1, FS_Subset, FS_CardinalityType
<1>2. T \subseteq Nat /\ T # {}
  BY <1>1
<1>3. PICK k \in B : \A j \in B : Cardinality(Later(k)) <= Cardinality(Later(j))
  <2> HIDE DEF T
  <2>1. PICK n \in T : \A y \in T : n <= y
    BY <1>2, LeastNatural
  <2> QED BY <2>1 DEF T
<1>4. ASSUME NEW j \in B, LockBefore(k, j) PROVE FALSE
  <2>1. Later(j) \subseteq Later(k)
    BY <1>4, OrderTransitive
  <2>2. j \in Later(k) /\ j \notin Later(j)
    BY <1>4, OrderIrreflexive
  <2>3. Cardinality(Later(j)) < Cardinality(Later(k))
    <3> HIDE DEF Later
    <3>1. Cardinality(Later(j)) <= Cardinality(Later(k)) /\ (Cardinality(Later(j)) = Cardinality(Later(k)) => Later(j) = Later(k))
      BY <1>1, <2>1, FS_Subset
    <3> QED BY <1>1, <2>2, <3>1
  <2>4. Cardinality(Later(k)) <= Cardinality(Later(j))
    BY <1>3
  <2> HIDE DEF Later
  <2> QED BY <1>1, <2>3, <2>4
<1> QED BY <1>3, <1>4

-----------------------------------------------------------------------------
(* 2. What a store holds.                                                  *)

RowOK(row) == \A i \in DOMAIN row : row[i] \in Int
SchemaOK(s) == s = [cols |-> s.cols, indexes |-> s.indexes, keyed |-> s.keyed] /\ \A d \in s.indexes : d.name \in Int
CatalogOK(c) == c = [slots |-> c.slots, width |-> c.width, defaults |-> c.defaults] /\ RowOK(c.defaults)

RecordOK(k, v) ==
    /\ k[1] = "row" => k = row_key(k[2], k[3]) /\ RowOK(v)
    /\ k[1] \in {"tableid", "tableid_seq"} => v \in Int
    /\ k[1] = "index" => k = index_entry_key(k[2], k[3], k[4], k[5])
    /\ k[1] = "schema" => k = schema_key(k[2]) /\ SchemaOK(v)
    /\ k[1] = "colcat" => CatalogOK(v)

StoreOK(s) == \A k \in DOMAIN s : RecordOK(k, s[k])

\* An overlay, or what is written to one: a tombstone or a record for each key.
WritesOK(f) == \A k \in DOMAIN f : f[k] # <<>> => RecordOK(k, f[k][1])

TxnOK(x) ==
    /\ x = [snap |-> x.snap, overlay |-> x.overlay, uniq |-> x.uniq, uniqIdx |-> x.uniqIdx,
            changes |-> x.changes, seq |-> x.seq, failed |-> x.failed]
    /\ StoreOK(x.snap) /\ WritesOK(x.overlay)
    /\ \A k \in x.uniq : LockKey(k)
    /\ \A u \in x.uniqIdx : LockKey(u.prefix)

\* Work on a transaction: the snapshot stays, overlay and guarded keys grow, and
\* a row it writes is one it could read, or one whose key is guarded.
Moves(x, y) ==
    /\ y.snap = x.snap /\ DOMAIN x.overlay \subseteq DOMAIN y.overlay /\ x.uniq \subseteq y.uniq
    /\ \A k \in y.uniq \ x.uniq : k[1] = "row"
    /\ \A k \in DOMAIN y.overlay : k[1] = "row" => k \in DOMAIN x.overlay \cup DOMAIN x.snap \cup y.uniq

LEMMA MovesTwice ==
    ASSUME NEW x, NEW y, NEW z, Moves(x, y), Moves(y, z)
    PROVE  Moves(x, z)
BY DEF Moves

LEMMA MovesOver ==
    ASSUME NEW x, NEW f, NEW y, y.snap = x.snap, y.uniq = x.uniq, y.overlay = Over(f, x.overlay),
           \A k \in DOMAIN f : k[1] = "row" => k \in DOMAIN x.overlay \cup DOMAIN x.snap \cup x.uniq
    PROVE  Moves(x, y)
<1>1. DOMAIN y.overlay = DOMAIN f \cup DOMAIN x.overlay
  BY DEF Over
<1> QED BY <1>1 DEF Moves

LEMMA MovesAside ==
    ASSUME NEW x, NEW y, y.snap = x.snap, y.uniq = x.uniq, y.overlay = x.overlay
    PROVE  Moves(x, y)
BY DEF Moves

LEMMA OverWrites ==
    ASSUME NEW f, NEW g, WritesOK(f), WritesOK(g)
    PROVE  WritesOK(Over(f, g))
BY DEF WritesOK, Over

LEMMA MergedOK ==
    ASSUME NEW s, NEW f, StoreOK(s), WritesOK(f)
    PROVE  StoreOK(merge_sorted(s, f))
<1>1. PICK m : m = merge_sorted(s, f)
  OBVIOUS
<1>2. ASSUME NEW k \in DOMAIN m PROVE RecordOK(k, m[k])
  <2>1. /\ k \in DOMAIN f \cup DOMAIN s
        /\ k \in DOMAIN f => f[k] # <<>>
        /\ m[k] = IF k \in DOMAIN f THEN f[k][1] ELSE s[k]
    BY <1>1, <1>2 DEF merge_sorted
  <2> QED BY <2>1 DEF StoreOK, WritesOK
<1> QED BY <1>1, <1>2 DEF StoreOK

\* What is read is absent or a record.
LEMMA ReadOK ==
    ASSUME NEW x, TxnOK(x), NEW k, read_key(x, k) # <<>>
    PROVE  RecordOK(k, read_key(x, k)[1])
<1>1. CASE k \in DOMAIN x.overlay
  BY <1>1 DEF read_key, TxnOK, WritesOK
<1>2. CASE k \notin DOMAIN x.overlay
  <2>1. k \in DOMAIN x.snap /\ read_key(x, k) = <<x.snap[k]>>
    BY <1>2 DEF read_key
  <2>2. read_key(x, k)[1] = x.snap[k]
    BY <2>1
  <2> QED BY <2>1, <2>2 DEF TxnOK, StoreOK
<1> QED BY <1>1, <1>2

\* What a write of records leaves.
LEMMA WrittenOK ==
    ASSUME NEW x, TxnOK(x), NEW f, WritesOK(f), NEW y, y = write_all(x, f)
    PROVE  /\ TxnOK(y) /\ y.uniq = x.uniq /\ y.uniqIdx = x.uniqIdx /\ y.failed = x.failed /\ y.snap = x.snap
           /\ y.overlay = Over(f, x.overlay)
<1>1. PICK o : o = Over(f, x.overlay)
  OBVIOUS
<1>2. y = [x EXCEPT !.overlay = o]
  BY <1>1 DEF write_all
<1>3. x = [snap |-> x.snap, overlay |-> x.overlay, uniq |-> x.uniq, uniqIdx |-> x.uniqIdx,
          changes |-> x.changes, seq |-> x.seq, failed |-> x.failed]
  BY DEF TxnOK
<1>4. y = [snap |-> x.snap, overlay |-> o, uniq |-> x.uniq, uniqIdx |-> x.uniqIdx,
          changes |-> x.changes, seq |-> x.seq, failed |-> x.failed]
  BY <1>2, <1>3
<1>5. /\ y.uniq = x.uniq /\ y.uniqIdx = x.uniqIdx /\ y.failed = x.failed /\ y.snap = x.snap /\ y.overlay = o
      /\ y.changes = x.changes /\ y.seq = x.seq
  BY <1>4
<1>6. WritesOK(o)
  BY <1>1, OverWrites DEF TxnOK
<1>7. y = [snap |-> y.snap, overlay |-> y.overlay, uniq |-> y.uniq, uniqIdx |-> y.uniqIdx,
          changes |-> y.changes, seq |-> y.seq, failed |-> y.failed]
  BY <1>4, <1>5
<1> QED BY <1>1, <1>5, <1>6, <1>7 DEF TxnOK

LEMMA OneWritten ==
    ASSUME NEW x, TxnOK(x), NEW k, NEW v, RecordOK(k, v), NEW y, y = write_key(x, k, v)
    PROVE  /\ TxnOK(y) /\ y.uniq = x.uniq /\ y.uniqIdx = x.uniqIdx /\ y.failed = x.failed /\ y.snap = x.snap
           /\ y.overlay = Over(Single(k, <<v>>), x.overlay)
<1>1. WritesOK(Single(k, <<v>>))
  BY DEF WritesOK, Single
<1> QED BY <1>1, WrittenOK DEF write_key

LEMMA KeysDeleted ==
    ASSUME NEW x, TxnOK(x), NEW ks, NEW y, y = delete_keys(x, ks)
    PROVE  /\ TxnOK(y) /\ y.uniq = x.uniq /\ y.uniqIdx = x.uniqIdx /\ y.failed = x.failed /\ y.snap = x.snap
           /\ y.overlay = Over([k \in ks |-> <<>>], x.overlay)
<1>1. WritesOK([k \in ks |-> <<>>])
  BY DEF WritesOK
<1> QED BY <1>1, WrittenOK DEF delete_keys

LEMMA FailedOK ==
    ASSUME NEW x, TxnOK(x)
    PROVE  TxnOK(Fail(x)) /\ Fail(x).failed /\ Moves(x, Fail(x))
<1>1. PICK y : y = Fail(x)
  OBVIOUS
<1>2. y = [snap |-> x.snap, overlay |-> x.overlay, uniq |-> x.uniq, uniqIdx |-> x.uniqIdx,
          changes |-> x.changes, seq |-> x.seq, failed |-> TRUE]
  BY <1>1 DEF Fail, TxnOK
<1>3. /\ y.uniq = x.uniq /\ y.uniqIdx = x.uniqIdx /\ y.failed = TRUE /\ y.snap = x.snap /\ y.overlay = x.overlay
      /\ y.changes = x.changes /\ y.seq = x.seq
  BY <1>2
<1>4. Moves(x, y)
  BY <1>3, MovesAside
<1> QED BY <1>1, <1>2, <1>3, <1>4 DEF TxnOK

-----------------------------------------------------------------------------
(* 3. Rows and index entries.                                              *)

LEMMA LogicalOK ==
    ASSUME NEW x, TxnOK(x), NEW t, NEW row, RowOK(row)
    PROVE  RowOK(Logical(x, t, row))
<1>1. CASE read_catalog(x, t) = <<>>
  BY <1>1 DEF Logical
<1>2. CASE read_catalog(x, t) # <<>>
  <2>1. PICK c : c = read_catalog(x, t)[1]
    OBVIOUS
  <2>2. CatalogOK(c)
    BY <1>2, <2>1, ReadOK DEF read_catalog, colcat_key, RecordOK
  <2>3. RowOK(to_logical(c, row))
    BY <2>2, SqlAssumption DEF to_logical, RowOK, CatalogOK
  <2> QED BY <1>2, <2>1, <2>3 DEF Logical
<1> QED BY <1>1, <1>2

LEMMA PhysicalOK ==
    ASSUME NEW x, NEW t, NEW row, RowOK(row)
    PROVE  RowOK(Physical(x, t, row))
<1>1. CASE read_catalog(x, t) = <<>>
  BY <1>1 DEF Physical
<1>2. CASE read_catalog(x, t) # <<>>
  <2>1. PICK c : c = read_catalog(x, t)[1]
    OBVIOUS
  <2>2. RowOK(to_physical(c, row))
    <3>1. ASSUME NEW s \in 1..c.width, NEW g, g = DOMAIN c.slots \cap DOMAIN row
          PROVE  (IF \E i \in g : c.slots[i] = s THEN row[CHOOSE i \in g : c.slots[i] = s] ELSE Null) \in Int
      <4>1. CASE \E i \in g : c.slots[i] = s
        <5>1. (CHOOSE i \in g : c.slots[i] = s) \in g
          BY <4>1
        <5> QED BY <3>1, <4>1, <5>1 DEF RowOK
      <4> QED BY <4>1, SqlAssumption
    <3> QED BY <3>1 DEF to_physical, RowOK
  <2> QED BY <1>2, <2>1, <2>2 DEF Physical
<1> QED BY <1>1, <1>2

\* The rows of a table, as they are fetched.
LEMMA FetchedOK ==
    ASSUME NEW x, TxnOK(x), NEW t, NEW pk \in DOMAIN collect_rows(x, t)
    PROVE  RowOK(collect_rows(x, t)[pk])
<1>1. PICK v : v = scan_range(x)
  OBVIOUS
<1>2. StoreOK(v)
  BY <1>1, MergedOK DEF scan_range, TxnOK
<1>3. PICK id : id = table_id(x, t)
  OBVIOUS
<1>4. /\ pk \in {k[3] : k \in RowKeys(v, id)}
      /\ collect_rows(x, t)[pk] = Logical(x, t, v[row_key(id, pk)])
  BY <1>1, <1>3 DEF collect_rows
<1>5. PICK k \in DOMAIN v : k[1] = "row" /\ k[2] = id /\ k[3] = pk
  BY <1>4 DEF RowKeys
<1>6. k = row_key(id, pk) /\ RowOK(v[k])
  BY <1>2, <1>5 DEF StoreOK, RecordOK
<1> QED BY <1>4, <1>6, LogicalOK

\* They are there to be read.
LEMMA FetchedRow ==
    ASSUME NEW x, TxnOK(x), NEW t, NEW pk \in DOMAIN collect_rows(x, t)
    PROVE  row_key(table_id(x, t), pk) \in DOMAIN x.overlay \cup DOMAIN x.snap
<1>1. PICK v : v = scan_range(x)
  OBVIOUS
<1>2. StoreOK(v)
  BY <1>1, MergedOK DEF scan_range, TxnOK
<1>3. PICK id : id = table_id(x, t)
  OBVIOUS
<1>4. pk \in {k[3] : k \in RowKeys(v, id)}
  BY <1>1, <1>3 DEF collect_rows
<1>5. PICK k \in DOMAIN v : k[1] = "row" /\ k[2] = id /\ k[3] = pk
  BY <1>4 DEF RowKeys
<1>6. k = row_key(id, pk)
  BY <1>2, <1>5 DEF StoreOK, RecordOK
<1>7. k \in DOMAIN x.overlay \cup DOMAIN x.snap
  BY <1>1, <1>5 DEF scan_range, merge_sorted
<1> QED BY <1>3, <1>6, <1>7

\* The catalog of a transaction: which tables there are, under which ids.
SameCatalog(x, y) == \A t : /\ read_key(y, schema_key(t)) = read_key(x, schema_key(t))
                            /\ read_key(y, tableid_key(t)) = read_key(x, tableid_key(t))

RowsOnly(f) == \A k \in DOMAIN f : k[1] \in {"row", "index"}

LEMMA CatalogKept ==
    ASSUME NEW x, NEW f, RowsOnly(f), NEW y, y.snap = x.snap, y.overlay = Over(f, x.overlay)
    PROVE  SameCatalog(x, y)
<1>1. ASSUME NEW k, k \notin DOMAIN f PROVE read_key(y, k) = read_key(x, k)
  BY <1>1 DEF read_key, Over
<1>2. \A t : schema_key(t) \notin DOMAIN f /\ tableid_key(t) \notin DOMAIN f
  BY DEF RowsOnly, schema_key, tableid_key
<1> QED BY <1>1, <1>2 DEF SameCatalog

LEMMA KnownKept ==
    ASSUME NEW x, NEW y, SameCatalog(x, y), NEW t
    PROVE  Known(y, t) <=> Known(x, t)
BY DEF SameCatalog, Known, Exists

\* The parts of a known table.
LEMMA TableOK ==
    ASSUME NEW x, TxnOK(x), NEW t, Known(x, t)
    PROVE  table_id(x, t) \in Int /\ SchemaOK(read_schema(x, t))
BY ReadOK DEF Known, Exists, table_id, read_schema, tableid_key, schema_key, RecordOK

-----------------------------------------------------------------------------
(* What guards the values of a unique index, in a transaction.  Ids are      *)
(* given once: they number the tables.                                       *)

Numbered(x) ==
    /\ \A t : read_key(x, schema_key(t)) # <<>> => read_key(x, tableid_key(t)) # <<>>
    /\ \A t, u : /\ read_key(x, tableid_key(t)) # <<>> /\ read_key(x, tableid_key(u)) # <<>>
                 /\ table_id(x, t) = table_id(x, u)
                 => t = u
    /\ \A t : read_key(x, tableid_key(t)) # <<>> =>
          read_key(x, tableid_seq_key) # <<>> /\ table_id(x, t) <= read_key(x, tableid_seq_key)[1]

\* An entry that is written under a value of a unique index is guarded by the
\* lock of the value, and no other row of the view has the value.
EntryGuarded(x, k) ==
    /\ [prefix |-> index_value_prefix(k[2], k[3], k[4]), pk |-> k[5]] \in x.uniqIdx
    /\ \A j \in DOMAIN scan_range(x) : j[1] = "index" /\ j[2] = k[2] /\ j[3] = k[3] /\ j[4] = k[4] => j[5] = k[5]
MustGuard(x, k) ==
    /\ k \in DOMAIN x.overlay /\ k[1] = "index" /\ x.overlay[k] # <<>>
    /\ k[4] # Null /\ Enforced(x.snap, k[2], k[3])
EntriesGuarded(x) == \A k : MustGuard(x, k) => EntryGuarded(x, k)

Guarded(x) == RowsOnly(x.overlay) /\ Numbered(View(x.snap)) /\ EntriesGuarded(x)
Guards(x, y) == y.snap = x.snap /\ (Guarded(x) => Guarded(y))

LEMMA GuardsTwice ==
    ASSUME NEW x, NEW y, NEW z, Guards(x, y), Guards(y, z)
    PROVE  Guards(x, z)
BY DEF Guards

LEMMA GuardsSame ==
    ASSUME NEW x, NEW y, y.snap = x.snap, y.overlay = x.overlay, y.uniqIdx = x.uniqIdx
    PROVE  Guards(x, y)
BY DEF Guards, Guarded, EntriesGuarded, EntryGuarded, MustGuard, scan_range

\* The keys of the view after a write.
LEMMA ViewOver ==
    ASSUME NEW x, NEW f, NEW y, y.snap = x.snap, y.overlay = Over(f, x.overlay), NEW j
    PROVE  j \in DOMAIN scan_range(y) <=>
              IF j \in DOMAIN f THEN f[j] # <<>> ELSE j \in DOMAIN scan_range(x)
<1>1. /\ DOMAIN y.overlay = DOMAIN f \cup DOMAIN x.overlay
      /\ \A k \in DOMAIN y.overlay : y.overlay[k] = IF k \in DOMAIN f THEN f[k] ELSE x.overlay[k]
  BY DEF Over
<1>2. j \in DOMAIN scan_range(y) <=>
         j \in DOMAIN y.snap \cup DOMAIN y.overlay /\ (j \in DOMAIN y.overlay => y.overlay[j] # <<>>)
  BY DEF scan_range, merge_sorted
<1>3. j \in DOMAIN scan_range(x) <=>
         j \in DOMAIN x.snap \cup DOMAIN x.overlay /\ (j \in DOMAIN x.overlay => x.overlay[j] # <<>>)
  BY DEF scan_range, merge_sorted
<1> QED BY <1>1, <1>2, <1>3

\* Rows and tombstones need no guard.
LEMMA GuardsOver ==
    ASSUME NEW x, NEW f, NEW y, y.snap = x.snap, y.uniqIdx = x.uniqIdx, y.overlay = Over(f, x.overlay),
           \A k \in DOMAIN f : k[1] = "row" \/ (k[1] = "index" /\ f[k] = <<>>)
    PROVE  Guards(x, y)
<1>1. /\ DOMAIN y.overlay = DOMAIN f \cup DOMAIN x.overlay
      /\ \A k \in DOMAIN y.overlay : y.overlay[k] = IF k \in DOMAIN f THEN f[k] ELSE x.overlay[k]
  BY DEF Over
<1>2. SUFFICES ASSUME Guarded(x) PROVE Guarded(y)
  BY DEF Guards
<1>3. RowsOnly(y.overlay)
  BY <1>1, <1>2 DEF Guarded, RowsOnly
<1>4. ASSUME NEW k, MustGuard(y, k) PROVE EntryGuarded(y, k)
  <2>1. k \in DOMAIN y.overlay /\ k[1] = "index" /\ y.overlay[k] # <<>>
    BY <1>4 DEF MustGuard
  <2>2. k \notin DOMAIN f /\ MustGuard(x, k)
    BY <1>1, <1>4, <2>1 DEF MustGuard
  <2>3. EntryGuarded(x, k)
    BY <1>2, <2>2 DEF Guarded, EntriesGuarded
  <2>4. ASSUME NEW j \in DOMAIN scan_range(y), j[1] = "index" PROVE j \in DOMAIN scan_range(x)
    BY <2>4, ViewOver
  <2> QED BY <2>3, <2>4 DEF EntryGuarded
<1> QED BY <1>2, <1>3, <1>4 DEF Guarded, EntriesGuarded

\* Outside the overlay a transaction reads its snapshot.
LEMMA ReadsSnapshot ==
    ASSUME NEW x, NEW k, k \notin DOMAIN x.overlay
    PROVE  read_key(x, k) = read_key(View(x.snap), k)
<1>1. PICK v : v = View(x.snap)
  OBVIOUS
<1>2. v.snap = x.snap /\ v.overlay = <<>>
  BY <1>1 DEF View, NewTxn, NoTxn
<1>3. DOMAIN v.overlay = {}
  BY <1>2
<1> QED BY <1>1, <1>2, <1>3 DEF read_key

LEMMA ViewReads ==
    ASSUME NEW s, NEW k
    PROVE  read_key(View(s), k) = IF k \in DOMAIN s THEN <<s[k]>> ELSE <<>>
<1>1. PICK v : v = View(s)
  OBVIOUS
<1>2. v.snap = s /\ v.overlay = <<>>
  BY <1>1 DEF View, NewTxn, NoTxn
<1>3. DOMAIN v.overlay = {}
  BY <1>2
<1> QED BY <1>1, <1>2, <1>3 DEF read_key

\* A unique index that the store enforces is one of exactly one table.
LEMMA EnforcedTable ==
    ASSUME NEW s, StoreOK(s), Numbered(View(s)), NEW t, tableid_key(t) \in DOMAIN s, NEW i,
           Enforced(s, s[tableid_key(t)], i)
    PROVE  /\ i \in Live(s, uniqueidx_key(t), {}) /\ schema_key(t) \in DOMAIN s
           /\ \E d \in s[schema_key(t)].indexes : d.name = i
<1>1. PICK u \in Tables(s) : /\ s[tableid_key(u)] = s[tableid_key(t)] /\ i \in Live(s, uniqueidx_key(u), {})
                             /\ \E d \in s[schema_key(u)].indexes : d.name = i
  BY DEF Enforced
<1>2. PICK k \in DOMAIN s : k[1] = "schema" /\ k[2] = u
  BY DEF Tables
<1>3. k = schema_key(u)
  BY <1>2 DEF StoreOK, RecordOK
<1>4. read_key(View(s), schema_key(u)) = <<s[k]>>
  BY <1>2, <1>3, ViewReads
<1>5. read_key(View(s), schema_key(u)) # <<>>
  BY <1>4
<1>6. read_key(View(s), tableid_key(u)) # <<>>
  BY <1>5 DEF Numbered
<1>7. tableid_key(u) \in DOMAIN s
  BY <1>6, ViewReads
<1>8. /\ read_key(View(s), tableid_key(t)) = <<s[tableid_key(t)]>>
      /\ read_key(View(s), tableid_key(u)) = <<s[tableid_key(u)]>>
  BY <1>7, ViewReads
<1>9. table_id(View(s), t) = table_id(View(s), u) /\ read_key(View(s), tableid_key(t)) # <<>>
  BY <1>1, <1>8 DEF table_id
<1>10. t = u
  BY <1>6, <1>9 DEF Numbered
<1> QED BY <1>1, <1>2, <1>3, <1>10

\* The entries of a row that is inserted, the unique indexes among them, and
\* their guards.
NewEntries(id, s, vals, pk) == [k \in {index_entry_key(id, d.name, vals[d], pk) : d \in s.indexes} |-> <<pk>>]
UniqueOnes(s, names, vals) == {d \in s.indexes : d.name \in names /\ vals[d] # Null}
NewGuards(id, g, vals, pk) == {[prefix |-> index_value_prefix(id, d.name, vals[d]), pk |-> pk] : d \in g}

LEMMA EntriesInserted ==
    ASSUME NEW x, TxnOK(x), Guarded(x), NEW t, Known(x, t), NEW pk, NEW vals, NEW s, s = read_schema(x, t),
           NEW id, id = table_id(x, t), NEW f, NEW g, NEW y,
           f = NewEntries(id, s, vals, pk), g = UniqueOnes(s, read_unique_indexes(x, t), vals),
           \A d \in g : enforce_unique_index(x, id, d.name, vals[d], pk),
           y.snap = x.snap, y.overlay = Over(f, x.overlay),
           y.uniqIdx = x.uniqIdx \cup NewGuards(id, g, vals, pk)
    PROVE  Guarded(y)
<1>1. /\ DOMAIN y.overlay = DOMAIN f \cup DOMAIN x.overlay
      /\ \A k \in DOMAIN y.overlay : y.overlay[k] = IF k \in DOMAIN f THEN f[k] ELSE x.overlay[k]
  BY DEF Over
<1>2. RowsOnly(x.overlay) /\ Numbered(View(x.snap)) /\ StoreOK(x.snap)
  BY DEF Guarded, TxnOK
<1>3. \A k \in DOMAIN f : k[1] = "index"
  BY DEF NewEntries, index_entry_key
<1>4. RowsOnly(y.overlay)
  BY <1>1, <1>2, <1>3 DEF RowsOnly
<1>5. tableid_key(t) \in DOMAIN x.snap /\ id = x.snap[tableid_key(t)]
  <2>1. tableid_key(t) \notin DOMAIN x.overlay
    BY <1>2 DEF RowsOnly, tableid_key
  <2>2. read_key(x, tableid_key(t)) # <<>>
    BY DEF Known
  <2>3. tableid_key(t) \in DOMAIN x.snap /\ read_key(x, tableid_key(t)) = <<x.snap[tableid_key(t)]>>
    BY <2>1, <2>2 DEF read_key
  <2> QED BY <2>3 DEF table_id
<1>6. read_unique_indexes(x, t) = Live(x.snap, uniqueidx_key(t), {})
  <2>1. uniqueidx_key(t) \notin DOMAIN x.overlay
    BY <1>2 DEF RowsOnly, uniqueidx_key
  <2>2. read_key(x, uniqueidx_key(t)) =
           IF uniqueidx_key(t) \in DOMAIN x.snap THEN <<x.snap[uniqueidx_key(t)]>> ELSE <<>>
    BY <2>1 DEF read_key
  <2> QED BY <2>2 DEF read_unique_indexes, read_or, Live
\* The row's values of unique indexes are nobody else's.
<1>7. ASSUME NEW d \in s.indexes, vals[d] # Null, Enforced(x.snap, id, d.name)
      PROVE  /\ d \in g
             /\ \A j \in DOMAIN scan_range(x) :
                   j[1] = "index" /\ j[2] = id /\ j[3] = d.name /\ j[4] = vals[d] => j[5] = pk
  <2>1. d.name \in read_unique_indexes(x, t)
    BY <1>2, <1>5, <1>6, <1>7, EnforcedTable
  <2>2. d \in g
    BY <1>7, <2>1 DEF UniqueOnes
  <2> QED BY <2>2 DEF enforce_unique_index, IndexEntries
<1>8. ASSUME NEW j \in DOMAIN f
      PROVE  \E d \in s.indexes : j = index_entry_key(id, d.name, vals[d], pk)
  BY DEF NewEntries
<1>9. ASSUME NEW k, MustGuard(y, k) PROVE EntryGuarded(y, k)
  <2>1. k \in DOMAIN y.overlay /\ k[1] = "index" /\ y.overlay[k] # <<>> /\ k[4] # Null /\ Enforced(x.snap, k[2], k[3])
    BY <1>9 DEF MustGuard
  <2>2. CASE k \in DOMAIN f
    <3>1. PICK d \in s.indexes : k = index_entry_key(id, d.name, vals[d], pk)
      BY <1>8, <2>2
    <3>2. k[2] = id /\ k[3] = d.name /\ k[4] = vals[d] /\ k[5] = pk
      BY <3>1 DEF index_entry_key
    <3>3. d \in g
      BY <1>7, <2>1, <3>2
    <3>4. [prefix |-> index_value_prefix(k[2], k[3], k[4]), pk |-> k[5]] \in y.uniqIdx
      BY <3>2, <3>3 DEF NewGuards
    <3>5. ASSUME NEW j \in DOMAIN scan_range(y), j[1] = "index", j[2] = k[2], j[3] = k[3], j[4] = k[4]
          PROVE  j[5] = k[5]
      <4>1. CASE j \in DOMAIN f
        BY <1>8, <3>2, <4>1 DEF index_entry_key
      <4>2. CASE j \notin DOMAIN f
        <5>1. j \in DOMAIN scan_range(x)
          BY <3>5, <4>2, ViewOver
        <5> QED BY <1>7, <2>1, <3>2, <3>5, <5>1
      <4> QED BY <4>1, <4>2
    <3> QED BY <3>4, <3>5 DEF EntryGuarded
  <2>3. CASE k \notin DOMAIN f
    <3>1. MustGuard(x, k)
      BY <1>1, <2>1, <2>3 DEF MustGuard
    <3>2. EntryGuarded(x, k)
      BY <3>1 DEF Guarded, EntriesGuarded
    <3>3. k \in DOMAIN scan_range(x)
      BY <3>1 DEF MustGuard, scan_range, merge_sorted
    <3>4. ASSUME NEW j \in DOMAIN scan_range(y), j[1] = "index", j[2] = k[2], j[3] = k[3], j[4] = k[4]
          PROVE  j[5] = k[5]
      <4>1. CASE j \in DOMAIN f
        <5>1. PICK d \in s.indexes : j = index_entry_key(id, d.name, vals[d], pk)
          BY <1>8, <4>1
        <5>2. j[2] = id /\ j[3] = d.name /\ j[4] = vals[d] /\ j[5] = pk
          BY <5>1 DEF index_entry_key
        <5> QED BY <1>7, <2>1, <3>3, <3>4, <5>2
      <4>2. CASE j \notin DOMAIN f
        <5>1. j \in DOMAIN scan_range(x)
          BY <3>4, <4>2, ViewOver
        <5> QED BY <3>2, <3>4, <5>1 DEF EntryGuarded
      <4> QED BY <4>1, <4>2
    <3> QED BY <3>2, <3>4 DEF EntryGuarded
  <2> QED BY <2>2, <2>3
<1> QED BY <1>2, <1>4, <1>9 DEF Guarded, EntriesGuarded

-----------------------------------------------------------------------------
\* Index entries are written under the values of a row, whose unique ones are
\* locked.
LEMMA EntriesApplied ==
    ASSUME NEW x, TxnOK(x), NEW t, Known(x, t), NEW pk, NEW row, NEW insert, insert => RowOK(row),
           NEW y, y = apply_index_entries(x, t, pk, row, insert)
    PROVE  TxnOK(y) /\ SameCatalog(x, y) /\ Moves(x, y) /\ (insert \in BOOLEAN => Guards(x, y))
<1>1. PICK s : s = read_schema(x, t)
  OBVIOUS
<1>2. PICK id : id = table_id(x, t)
  OBVIOUS
<1>3. id \in Int /\ SchemaOK(s)
  BY <1>1, <1>2, TableOK
<1> DEFINE value(d) == index_value(s.cols, row, d.col)
           guarded == {d \in s.indexes : insert /\ d.name \in read_unique_indexes(x, t) /\ value(d) # Null}
           entries == {index_entry_key(id, d.name, value(d), pk) : d \in s.indexes}
<1>4. PICK f : f = [k \in entries |-> IF insert THEN <<pk>> ELSE <<>>]
  OBVIOUS
<1>5. PICK w : w = write_all(x, f)
  OBVIOUS
<1>6. PICK g : g = guarded
  OBVIOUS
<1>7. \/ y = Fail(x)
      \/ /\ \A d \in s.indexes : Evaluates(s.cols, row, d.col)
         /\ \A d \in g : enforce_unique_index(x, id, d.name, value(d), pk)
         /\ y = [w EXCEPT !.uniqIdx = @ \cup {[prefix |-> index_value_prefix(id, d.name, value(d)), pk |-> pk] : d \in g}]
  BY <1>1, <1>2, <1>4, <1>5, <1>6 DEF apply_index_entries
<1>8. CASE y = Fail(x)
  <2>1. y = [x EXCEPT !.failed = TRUE]
    BY <1>8 DEF Fail
  <2>2. y.snap = x.snap /\ y.overlay = x.overlay /\ y.uniqIdx = x.uniqIdx
    BY <2>1 DEF TxnOK
  <2> QED BY <1>8, <2>2, FailedOK, GuardsSame DEF SameCatalog, read_key
<1>9. CASE /\ \A d \in s.indexes : Evaluates(s.cols, row, d.col)
           /\ \A d \in g : enforce_unique_index(x, id, d.name, value(d), pk)
           /\ y = [w EXCEPT !.uniqIdx = @ \cup {[prefix |-> index_value_prefix(id, d.name, value(d)), pk |-> pk] : d \in g}]
  <2>1. \A k \in DOMAIN f : k[1] = "index" /\ k = index_entry_key(k[2], k[3], k[4], k[5])
    BY <1>4 DEF index_entry_key
  <2>2. WritesOK(f) /\ RowsOnly(f)
    BY <2>1 DEF WritesOK, RecordOK, RowsOnly
  <2>3. TxnOK(w) /\ w.uniq = x.uniq /\ w.uniqIdx = x.uniqIdx /\ w.snap = x.snap /\ w.overlay = Over(f, x.overlay)
    BY <1>5, <2>2, WrittenOK
  <2>4. PICK more : more = {[prefix |-> index_value_prefix(id, d.name, value(d)), pk |-> pk] : d \in g}
    OBVIOUS
  <2>5. \A u \in more : LockKey(u.prefix)
    <3>1. ASSUME NEW d \in g PROVE value(d) \in Int /\ d.name \in Int
      <4>1. d \in s.indexes /\ insert
        BY <1>6
      <4>2. RowOK(row) /\ Position(s.cols, d.col) \in DOMAIN row
        BY <1>9, <4>1 DEF Evaluates
      <4> QED BY <1>3, <4>1, <4>2 DEF RowOK, index_value, SchemaOK
    <3>2. ASSUME NEW d \in g PROVE LockKey(index_value_prefix(id, d.name, value(d)))
      BY <1>3, <3>1 DEF index_value_prefix, LockKey, IndexLock
    <3> QED BY <2>4, <3>2
  <2>6. y = [snap |-> w.snap, overlay |-> w.overlay, uniq |-> w.uniq, uniqIdx |-> w.uniqIdx \cup more,
            changes |-> w.changes, seq |-> w.seq, failed |-> w.failed]
    BY <1>9, <2>3, <2>4 DEF TxnOK
  <2>7. /\ y.snap = w.snap /\ y.overlay = w.overlay /\ y.uniq = w.uniq /\ y.uniqIdx = w.uniqIdx \cup more
        /\ y.changes = w.changes /\ y.seq = w.seq /\ y.failed = w.failed
    BY <2>6
  <2>8. TxnOK(y)
    BY <2>3, <2>5, <2>6, <2>7 DEF TxnOK
  <2>9. Moves(x, y)
    BY <2>1, <2>3, <2>7, MovesOver
  <2>10. ASSUME insert = TRUE PROVE Guards(x, y)
    <3>1. PICK vals : vals = [d \in s.indexes |-> value(d)]
      OBVIOUS
    <3>2. g \subseteq s.indexes /\ \A d \in s.indexes : vals[d] = value(d)
      BY <1>6, <3>1
    <3>3. f = NewEntries(id, s, vals, pk)
      BY <1>4, <2>10, <3>2 DEF NewEntries
    <3>4. g = UniqueOnes(s, read_unique_indexes(x, t), vals)
      BY <1>6, <2>10, <3>2 DEF UniqueOnes
    <3>5. more = NewGuards(id, g, vals, pk)
      BY <2>4, <3>2 DEF NewGuards
    <3>6. \A d \in g : enforce_unique_index(x, id, d.name, vals[d], pk)
      BY <1>9, <3>2
    <3>7. /\ y.snap = x.snap /\ y.overlay = Over(f, x.overlay)
          /\ y.uniqIdx = x.uniqIdx \cup NewGuards(id, g, vals, pk)
      BY <2>3, <2>7, <3>5
    <3>8. ASSUME Guarded(x) PROVE Guarded(y)
      <4> HIDE DEF value, guarded, entries
      <4> QED BY <1>1, <1>2, <3>3, <3>4, <3>6, <3>7, <3>8, EntriesInserted
    <3> QED BY <3>7, <3>8 DEF Guards
  <2>11. ASSUME insert = FALSE PROVE Guards(x, y)
    <3>1. more = {} /\ \A k \in DOMAIN f : f[k] = <<>>
      BY <1>4, <1>6, <2>4, <2>11
    <3>2. y.snap = x.snap /\ y.overlay = Over(f, x.overlay) /\ y.uniqIdx = x.uniqIdx
      BY <2>3, <2>7, <3>1
    <3> QED BY <2>1, <3>1, <3>2, GuardsOver
  <2> QED BY <2>2, <2>3, <2>7, <2>8, <2>9, <2>10, <2>11, CatalogKept
<1> QED BY <1>7, <1>8, <1>9

\* They are all it writes.
LEMMA EntriesOnly ==
    ASSUME NEW x, TxnOK(x), DOMAIN x.overlay = {}, NEW t, NEW pk, NEW row, NEW insert,
           NEW y, y = apply_index_entries(x, t, pk, row, insert), ~ y.failed
    PROVE  \A k \in DOMAIN y.overlay : k[1] = "index"
<1>1. PICK s : s = read_schema(x, t)
  OBVIOUS
<1>2. PICK id : id = table_id(x, t)
  OBVIOUS
<1> DEFINE value(d) == index_value(s.cols, row, d.col)
           guarded == {d \in s.indexes : insert /\ d.name \in read_unique_indexes(x, t) /\ value(d) # Null}
           entries == {index_entry_key(id, d.name, value(d), pk) : d \in s.indexes}
<1>3. PICK f : f = [k \in entries |-> IF insert THEN <<pk>> ELSE <<>>]
  OBVIOUS
<1>4. PICK w : w = write_all(x, f)
  OBVIOUS
<1>5. PICK g : g = guarded
  OBVIOUS
<1>6. \/ y = Fail(x)
      \/ y = [w EXCEPT !.uniqIdx = @ \cup {[prefix |-> index_value_prefix(id, d.name, value(d)), pk |-> pk] : d \in g}]
  BY <1>1, <1>2, <1>3, <1>4, <1>5 DEF apply_index_entries
<1>7. y = [w EXCEPT !.uniqIdx = @ \cup {[prefix |-> index_value_prefix(id, d.name, value(d)), pk |-> pk] : d \in g}]
  BY <1>6, FailedOK
<1>8. \A k \in DOMAIN f : k[1] = "index" /\ k = index_entry_key(k[2], k[3], k[4], k[5])
  BY <1>3 DEF index_entry_key
<1>9. TxnOK(w) /\ w.overlay = Over(f, x.overlay)
  BY <1>4, <1>8, WrittenOK DEF WritesOK, RecordOK
<1>10. y.overlay = w.overlay
  BY <1>7, <1>9 DEF TxnOK
<1>11. DOMAIN Over(f, x.overlay) = DOMAIN f
  BY DEF Over
<1> QED BY <1>8, <1>9, <1>10, <1>11

\* The parts of a transaction that is changed in some fields.
LEMMA ChangeRecorded ==
    ASSUME NEW x, TxnOK(x), NEW k, NEW y, y = record_change(x, k)
    PROVE  TxnOK(y) /\ y.snap = x.snap /\ y.overlay = x.overlay /\ y.uniq = x.uniq /\ y.uniqIdx = x.uniqIdx
<1>1. PICK ch : ch = x.changes \cup {k}
  OBVIOUS
<1>2. y = [snap |-> x.snap, overlay |-> x.overlay, uniq |-> x.uniq, uniqIdx |-> x.uniqIdx,
          changes |-> ch, seq |-> x.seq, failed |-> x.failed]
  BY <1>1 DEF record_change, TxnOK
<1>3. /\ y.uniq = x.uniq /\ y.uniqIdx = x.uniqIdx /\ y.failed = x.failed /\ y.snap = x.snap /\ y.overlay = x.overlay
      /\ y.changes = ch /\ y.seq = x.seq
  BY <1>2
<1> QED BY <1>2, <1>3 DEF TxnOK

LEMMA KeyGuarded ==
    ASSUME NEW x, TxnOK(x), NEW k, RowLock(k), NEW y, y = [x EXCEPT !.uniq = @ \cup {k}]
    PROVE  TxnOK(y) /\ SameCatalog(x, y) /\ Moves(x, y) /\ k \in y.uniq /\ Guards(x, y)
<1>1. PICK un : un = x.uniq \cup {k}
  OBVIOUS
<1>2. y = [snap |-> x.snap, overlay |-> x.overlay, uniq |-> un, uniqIdx |-> x.uniqIdx,
          changes |-> x.changes, seq |-> x.seq, failed |-> x.failed]
  BY <1>1 DEF TxnOK
<1>3. /\ y.uniq = un /\ y.uniqIdx = x.uniqIdx /\ y.failed = x.failed /\ y.snap = x.snap /\ y.overlay = x.overlay
      /\ y.changes = x.changes /\ y.seq = x.seq
  BY <1>2
<1>4. \A j \in un : LockKey(j)
  BY <1>1 DEF TxnOK, LockKey
<1>5. k[1] = "row"
  BY DEF RowLock
<1>6. Moves(x, y) /\ k \in y.uniq
  BY <1>1, <1>3, <1>5 DEF Moves
<1>7. Guards(x, y)
  BY <1>3, GuardsSame
<1> QED BY <1>2, <1>3, <1>4, <1>6, <1>7 DEF TxnOK, SameCatalog, read_key

\* A counter is no part of it.
LEMMA CounterSet ==
    ASSUME NEW x, TxnOK(x), NEW n, NEW y, y = [x EXCEPT !.seq = n]
    PROVE  TxnOK(y) /\ SameCatalog(x, y) /\ Guards(x, y) /\ Guards(y, x)
<1>1. y = [snap |-> x.snap, overlay |-> x.overlay, uniq |-> x.uniq, uniqIdx |-> x.uniqIdx,
          changes |-> x.changes, seq |-> n, failed |-> x.failed]
  BY DEF TxnOK
<1>2. /\ y.uniq = x.uniq /\ y.uniqIdx = x.uniqIdx /\ y.failed = x.failed /\ y.snap = x.snap /\ y.overlay = x.overlay
      /\ y.changes = x.changes /\ y.seq = n
  BY <1>1
<1>3. Guards(x, y) /\ Guards(y, x)
  BY <1>2, GuardsSame
<1> QED BY <1>1, <1>2, <1>3 DEF TxnOK, SameCatalog, read_key

LEMMA FailedKeeps ==
    ASSUME NEW x, TxnOK(x), NEW y, y = Fail(x)
    PROVE  TxnOK(y) /\ SameCatalog(x, y) /\ Moves(x, y) /\ Guards(x, y)
<1>1. y.snap = x.snap /\ y.overlay = x.overlay /\ y.uniqIdx = x.uniqIdx
  BY DEF Fail, TxnOK
<1> QED BY <1>1, FailedOK, GuardsSame DEF SameCatalog, read_key

\* A row is written, or a tombstone for it.
LEMMA RowWritten ==
    ASSUME NEW x, TxnOK(x), NEW id, NEW pk, NEW v, v = <<>> \/ (v = <<v[1]>> /\ RowOK(v[1])),
           NEW z, NEW k, k = row_key(id, pk), z = write_all(record_change(x, k), Single(k, v))
    PROVE  /\ TxnOK(z) /\ SameCatalog(x, z) /\ Guards(x, z)
           /\ k \in DOMAIN x.overlay \cup DOMAIN x.snap \cup x.uniq => Moves(x, z)
<1>1. PICK y : y = record_change(x, k)
  OBVIOUS
<1>2. TxnOK(y) /\ y.snap = x.snap /\ y.overlay = x.overlay /\ y.uniq = x.uniq /\ y.uniqIdx = x.uniqIdx
  BY <1>1, ChangeRecorded
<1>3. PICK f : f = Single(k, v)
  OBVIOUS
<1>4. WritesOK(f) /\ RowsOnly(f)
  BY <1>3 DEF WritesOK, RowsOnly, Single, RecordOK, row_key
<1>5. TxnOK(z) /\ z.snap = y.snap /\ z.uniq = y.uniq /\ z.uniqIdx = y.uniqIdx /\ z.overlay = Over(f, y.overlay)
  BY <1>1, <1>2, <1>3, <1>4, WrittenOK
<1>6. DOMAIN f = {k} /\ k[1] = "row"
  BY <1>3 DEF Single, row_key
<1>7. k \in DOMAIN x.overlay \cup DOMAIN x.snap \cup x.uniq => Moves(x, z)
  BY <1>2, <1>5, <1>6, MovesOver
<1>8. Guards(x, z)
  BY <1>2, <1>5, <1>6, GuardsOver
<1> QED BY <1>2, <1>4, <1>5, <1>7, <1>8, CatalogKept

LEMMA CatalogTwice ==
    ASSUME NEW x, NEW y, NEW z, SameCatalog(x, y), SameCatalog(y, z)
    PROVE  SameCatalog(x, z)
BY DEF SameCatalog

LEMMA DataInserted ==
    ASSUME NEW x, TxnOK(x), NEW t, Known(x, t), NEW pk \in Int, NEW row, RowOK(row),
           NEW z, z = insert_data(x, t, pk, row)
    PROVE  TxnOK(z) /\ SameCatalog(x, z) /\ Moves(x, z) /\ Guards(x, z)
<1>1. PICK k : k = row_key(table_id(x, t), pk)
  OBVIOUS
<1>2. PICK old : old = read_key(x, k)
  OBVIOUS
<1>3. PICK y : y = IF old = <<>> THEN [x EXCEPT !.uniq = @ \cup {k}]
                   ELSE apply_index_entries(x, t, pk, Logical(x, t, old[1]), FALSE)
  OBVIOUS
<1>4. PICK w : w = IF y.failed THEN y ELSE apply_index_entries(y, t, pk, row, TRUE)
  OBVIOUS
<1>5. z = IF w.failed THEN Fail(x) ELSE write_key(record_change(w, k), k, Physical(x, t, row))
  BY <1>1, <1>2, <1>3, <1>4 DEF insert_data
<1>6. RowLock(k)
  BY <1>1, TableOK DEF RowLock, row_key
<1>7. TxnOK(y) /\ SameCatalog(x, y) /\ Moves(x, y) /\ Guards(x, y) /\ k \in DOMAIN y.overlay \cup DOMAIN y.snap \cup y.uniq
  <2>1. CASE old = <<>>
    BY <1>3, <1>6, <2>1, KeyGuarded
  <2>2. CASE old # <<>>
    <3>1. TxnOK(y) /\ SameCatalog(x, y) /\ Moves(x, y) /\ Guards(x, y)
      BY <1>3, <2>2, EntriesApplied
    <3>2. k \in DOMAIN x.overlay \cup DOMAIN x.snap
      BY <1>2, <2>2 DEF read_key
    <3> QED BY <3>1, <3>2 DEF Moves
  <2> QED BY <2>1, <2>2
<1>8. TxnOK(w) /\ SameCatalog(x, w) /\ Moves(x, w) /\ Guards(x, w) /\ k \in DOMAIN w.overlay \cup DOMAIN w.snap \cup w.uniq
  <2>1. CASE y.failed
    BY <1>4, <1>7, <2>1
  <2>2. CASE ~ y.failed
    <3>1. Known(y, t)
      BY <1>7, KnownKept
    <3>2. TxnOK(w) /\ SameCatalog(y, w) /\ Moves(y, w) /\ Guards(y, w)
      BY <1>4, <1>7, <2>2, <3>1, EntriesApplied
    <3>3. k \in DOMAIN w.overlay \cup DOMAIN w.snap \cup w.uniq
      BY <1>7, <3>2 DEF Moves
    <3> QED BY <1>7, <3>2, <3>3, CatalogTwice, MovesTwice, GuardsTwice
  <2> QED BY <2>1, <2>2
<1>9. CASE w.failed
  BY <1>5, <1>9, FailedKeeps
<1>10. CASE ~ w.failed
  <2>1. PICK v : v = <<Physical(x, t, row)>>
    OBVIOUS
  <2>2. v = <<v[1]>> /\ RowOK(v[1])
    BY <2>1, PhysicalOK
  <2>3. z = write_all(record_change(w, k), Single(k, v))
    BY <1>5, <1>10, <2>1 DEF write_key
  <2>4. TxnOK(z) /\ SameCatalog(w, z) /\ Moves(w, z) /\ Guards(w, z)
    BY <1>1, <1>8, <2>2, <2>3, RowWritten
  <2> QED BY <1>8, <2>4, CatalogTwice, MovesTwice, GuardsTwice
<1> QED BY <1>9, <1>10

LEMMA DataDeleted ==
    ASSUME NEW x, TxnOK(x), NEW t, Known(x, t), NEW pk, NEW z, z = delete_data(x, t, pk)
    PROVE  /\ TxnOK(z) /\ SameCatalog(x, z) /\ Guards(x, z)
           /\ row_key(table_id(x, t), pk) \in DOMAIN x.overlay \cup DOMAIN x.snap => Moves(x, z)
<1>1. PICK k : k = row_key(table_id(x, t), pk)
  OBVIOUS
<1>2. PICK w : w = apply_index_entries(x, t, pk, Logical(x, t, read_key(x, k)[1]), FALSE)
  OBVIOUS
<1>3. z = IF w.failed THEN Fail(x) ELSE delete_key(record_change(w, k), k)
  BY <1>1, <1>2 DEF delete_data
<1>4. TxnOK(w) /\ SameCatalog(x, w) /\ Moves(x, w) /\ Guards(x, w)
  BY <1>2, EntriesApplied
<1>5. CASE w.failed
  BY <1>3, <1>5, FailedKeeps
<1>6. CASE ~ w.failed
  <2>1. PICK v : v = <<>>
    OBVIOUS
  <2>2. z = write_all(record_change(w, k), Single(k, v))
    BY <1>3, <1>6, <2>1 DEF delete_key
  <2>3. /\ TxnOK(z) /\ SameCatalog(w, z) /\ Guards(w, z)
        /\ k \in DOMAIN w.overlay \cup DOMAIN w.snap \cup w.uniq => Moves(w, z)
    BY <1>1, <1>4, <2>1, <2>2, RowWritten
  <2>4. k \in DOMAIN x.overlay \cup DOMAIN x.snap => Moves(w, z)
    BY <1>4, <2>3 DEF Moves
  <2> QED BY <1>1, <1>4, <2>3, <2>4, CatalogTwice, MovesTwice, GuardsTwice
<1> QED BY <1>5, <1>6

LEMMA DataAppended ==
    ASSUME NEW x, TxnOK(x), NEW t, Known(x, t), NEW row, RowOK(row), NEW z, z = append_data(x, t, row)
    PROVE  TxnOK(z) /\ Guards(x, z)
<1>1. PICK id : id = table_id(x, t)
  OBVIOUS
<1>2. PICK pk : pk = allocate_keys(x, id)
  OBVIOUS
<1>3. PICK n : n = (id :> pk) @@ x.seq
  OBVIOUS
<1>4. PICK y : y = [x EXCEPT !.seq = n]
  OBVIOUS
<1>5. PICK w : w = apply_index_entries(y, t, pk, row, TRUE)
  OBVIOUS
<1>6. PICK k : k = row_key(id, pk)
  OBVIOUS
<1>7. z = IF w.failed THEN w ELSE write_key(record_change(w, k), k, Physical(x, t, row))
  BY <1>1, <1>2, <1>3, <1>4, <1>5, <1>6 DEF append_data
<1>8. TxnOK(y) /\ SameCatalog(x, y) /\ Guards(x, y)
  BY <1>4, CounterSet
<1>9. TxnOK(w) /\ Guards(x, w)
  <2>1. TxnOK(w) /\ Guards(y, w)
    BY <1>5, <1>8, KnownKept, EntriesApplied
  <2> QED BY <1>8, <2>1, GuardsTwice
<1>10. CASE ~ w.failed
  <2>1. PICK v : v = <<Physical(x, t, row)>>
    OBVIOUS
  <2>2. v = <<v[1]>> /\ RowOK(v[1])
    BY <2>1, PhysicalOK
  <2>3. z = write_all(record_change(w, k), Single(k, v))
    BY <1>7, <1>10, <2>1 DEF write_key
  <2>4. TxnOK(z) /\ Guards(w, z)
    BY <1>6, <1>9, <2>2, <2>3, RowWritten
  <2> QED BY <1>9, <2>4, GuardsTwice
<1> QED BY <1>7, <1>9, <1>10

-----------------------------------------------------------------------------
(* 4. Statements.                                                          *)

\* A record that is no row.
LEMMA RecordWritten ==
    ASSUME NEW x, TxnOK(x), NEW k, k[1] # "row", NEW v, RecordOK(k, v), NEW y, y = write_key(x, k, v)
    PROVE  TxnOK(y) /\ Moves(x, y) /\ y.overlay = Over(Single(k, <<v>>), x.overlay)
<1>1. TxnOK(y) /\ y.uniq = x.uniq /\ y.snap = x.snap /\ y.overlay = Over(Single(k, <<v>>), x.overlay)
  BY OneWritten
<1>2. DOMAIN Single(k, <<v>>) = {k}
  BY DEF Single
<1> QED BY <1>1, <1>2, MovesOver

LEMMA IdEnsured ==
    ASSUME NEW x, TxnOK(x), NEW t
    PROVE  TxnOK(ensure_table_id(x, t)) /\ Moves(x, ensure_table_id(x, t))
<1>1. CASE read_key(x, tableid_key(t)) # <<>>
  BY <1>1, MovesAside DEF ensure_table_id
<1>2. CASE read_key(x, tableid_key(t)) = <<>>
  <2>1. PICK n : n = read_or(x, tableid_seq_key, 0) + 1
    OBVIOUS
  <2>2. read_or(x, tableid_seq_key, 0) \in Int
    BY ReadOK DEF read_or, tableid_seq_key, RecordOK
  <2>3. n \in Int
    BY <2>1, <2>2
  <2>4. PICK y : y = write_key(x, tableid_seq_key, n)
    OBVIOUS
  <2>5. TxnOK(y) /\ Moves(x, y)
    <3>1. RecordOK(tableid_seq_key, n) /\ tableid_seq_key[1] # "row"
      BY <2>3 DEF RecordOK, tableid_seq_key
    <3> QED BY <2>4, <3>1, RecordWritten
  <2>6. RecordOK(tableid_key(t), n) /\ tableid_key(t)[1] # "row"
    BY <2>3 DEF RecordOK, tableid_key
  <2>7. ensure_table_id(x, t) = write_key(y, tableid_key(t), n)
    BY <1>2, <2>1, <2>4 DEF ensure_table_id
  <2> QED BY <2>5, <2>6, <2>7, RecordWritten, MovesTwice
<1> QED BY <1>1, <1>2

LEMMA SchemaInserted ==
    ASSUME NEW x, TxnOK(x), NEW t, NEW s, SchemaOK(s)
    PROVE  TxnOK(insert_schema(x, t, s)) /\ Moves(x, insert_schema(x, t, s))
<1>1. RecordOK(schema_key(t), s) /\ schema_key(t)[1] # "row"
  BY DEF RecordOK, schema_key
<1>2. PICK y : y = ensure_table_id(x, t)
  OBVIOUS
<1>3. TxnOK(y) /\ Moves(x, y)
  BY <1>2, IdEnsured
<1>4. PICK z : z = insert_schema(x, t, s)
  OBVIOUS
<1>5. z = write_key(y, schema_key(t), s)
  BY <1>2, <1>4 DEF insert_schema
<1>6. TxnOK(z) /\ Moves(y, z)
  BY <1>1, <1>3, <1>5, RecordWritten
<1> QED BY <1>3, <1>4, <1>6, MovesTwice

LEMMA SchemaRead ==
    ASSUME NEW x, TxnOK(x), NEW t, Exists(x, t)
    PROVE  SchemaOK(read_schema(x, t))
BY ReadOK DEF Exists, read_schema, schema_key, RecordOK

LEMMA CatalogRead ==
    ASSUME NEW x, TxnOK(x), NEW t, NEW s
    PROVE  CatalogOK(CatalogOf(x, t, s))
<1>1. CASE read_key(x, colcat_key(t)) = <<>>
  <2>1. CatalogOf(x, t, s) = [slots |-> [i \in 1..Len(s.cols) |-> i], width |-> Len(s.cols), defaults |-> <<>>]
    BY <1>1 DEF CatalogOf, read_or, identity
  <2> QED BY <2>1 DEF CatalogOK, RowOK
<1>2. CASE read_key(x, colcat_key(t)) # <<>>
  <2>1. CatalogOf(x, t, s) = read_key(x, colcat_key(t))[1]
    BY <1>2 DEF CatalogOf, read_or
  <2> QED BY <1>2, <2>1, ReadOK DEF colcat_key, RecordOK
<1> QED BY <1>1, <1>2

LEMMA CatalogWritten ==
    ASSUME NEW x, TxnOK(x), NEW t, NEW c, CatalogOK(c)
    PROVE  TxnOK(write_key(x, colcat_key(t), c)) /\ Moves(x, write_key(x, colcat_key(t), c))
<1>1. RecordOK(colcat_key(t), c) /\ colcat_key(t)[1] # "row"
  BY DEF RecordOK, colcat_key
<1> QED BY <1>1, RecordWritten

LEMMA TableCreated ==
    ASSUME NEW x, TxnOK(x), NEW q
    PROVE  TxnOK(create_table(x, q)) /\ Moves(x, create_table(x, q))
<1>1. SchemaOK([cols |-> q.cols, indexes |-> {}, keyed |-> q.keyed])
  BY DEF SchemaOK
<1> QED BY <1>1, FailedOK, SchemaInserted DEF create_table

LEMMA SchemaDeleted ==
    ASSUME NEW x, TxnOK(x), NEW t
    PROVE  TxnOK(delete_schema(x, t)) /\ Moves(x, delete_schema(x, t))
<1>1. PICK z : z = delete_schema(x, t)
  OBVIOUS
<1>2. PICK rows : rows = collect_rows(x, t)
  OBVIOUS
<1>3. PICK id : id = table_id(x, t)
  OBVIOUS
<1>4. PICK ks : ks = entries_of_rows(id, read_schema(x, t), rows) \cup {row_key(id, pk) : pk \in DOMAIN rows}
                          \cup {schema_key(t), colcat_key(t), pkcat_key(t), tableid_key(t)}
  OBVIOUS
<1>5. z = Fail(x) \/ z = delete_keys(x, ks)
  BY <1>1, <1>2, <1>3, <1>4, Zenon DEF delete_schema
<1>6. ASSUME NEW k \in ks, k[1] = "row" PROVE k \in DOMAIN x.overlay \cup DOMAIN x.snap
  <2>1. k \in {row_key(id, pk) : pk \in DOMAIN rows}
    BY <1>4, <1>6 DEF entries_of_rows, index_entry_key, schema_key, colcat_key, pkcat_key, tableid_key
  <2> QED BY <1>2, <1>3, <2>1, FetchedRow
<1>7. CASE z = delete_keys(x, ks)
  <2>1. PICK f : f = [k \in ks |-> <<>>]
    OBVIOUS
  <2>2. TxnOK(z) /\ z.uniq = x.uniq /\ z.snap = x.snap /\ z.overlay = Over(f, x.overlay)
    BY <1>7, <2>1, KeysDeleted
  <2>3. \A k \in DOMAIN f : k[1] = "row" => k \in DOMAIN x.overlay \cup DOMAIN x.snap \cup x.uniq
    BY <1>6, <2>1
  <2> QED BY <1>1, <2>2, <2>3, MovesOver
<1> QED BY <1>1, <1>5, <1>7, FailedOK

LEMMA IndexCreated ==
    ASSUME NEW x, TxnOK(x), NEW q, q.i \in Int
    PROVE  TxnOK(create_index(x, q)) /\ Moves(x, create_index(x, q))
<1>1. CASE ~ Known(x, q.t)
  BY <1>1, FailedOK DEF create_index
<1>2. CASE Known(x, q.t)
  <2>1. PICK s : s = read_schema(x, q.t)
    OBVIOUS
  <2>2. SchemaOK(s)
    BY <1>2, <2>1, TableOK
  <2>3. PICK index : index = [name |-> q.i, col |-> q.col]
    OBVIOUS
  <2>4. PICK ks : ks = entries_of_rows(table_id(x, q.t), [s EXCEPT !.indexes = {index}], collect_rows(x, q.t))
    OBVIOUS
  <2>5. PICK new : new = [s EXCEPT !.indexes = @ \cup {index}]
    OBVIOUS
  <2>6. PICK f : f = [k \in ks |-> <<k[5]>>]
    OBVIOUS
  <2>7. create_index(x, q) = Fail(x) \/ create_index(x, q) = write_key(write_all(x, f), schema_key(q.t), new)
    BY <1>2, <2>1, <2>3, <2>4, <2>5, <2>6 DEF create_index
  <2>8. WritesOK(f) /\ \A k \in DOMAIN f : k[1] # "row"
    <3>1. \A k \in ks : k[1] = "index" /\ k = index_entry_key(k[2], k[3], k[4], k[5])
      BY <2>4 DEF entries_of_rows, index_entry_key
    <3> QED BY <2>6, <3>1 DEF WritesOK, RecordOK
  <2>9. TxnOK(write_all(x, f)) /\ Moves(x, write_all(x, f))
    BY <2>8, WrittenOK, MovesOver
  <2>10. SchemaOK(new)
    <3>1. new = [cols |-> s.cols, indexes |-> s.indexes \cup {index}, keyed |-> s.keyed]
      BY <2>2, <2>5 DEF SchemaOK
    <3>2. new.cols = s.cols /\ new.indexes = s.indexes \cup {index} /\ new.keyed = s.keyed
      BY <3>1
    <3>3. \A d \in new.indexes : d.name \in Int
      BY <2>2, <2>3, <3>2 DEF SchemaOK
    <3> QED BY <3>1, <3>2, <3>3 DEF SchemaOK
  <2>11. RecordOK(schema_key(q.t), new) /\ schema_key(q.t)[1] # "row"
    BY <2>10 DEF RecordOK, schema_key
  <2> QED BY <2>7, <2>9, <2>11, FailedOK, RecordWritten, MovesTwice
<1> QED BY <1>1, <1>2

LEMMA IndexesDropped ==
    ASSUME NEW x, TxnOK(x), NEW t, Exists(x, t), NEW names
    PROVE  /\ TxnOK(drop_indexes(x, t, names)) /\ Exists(drop_indexes(x, t, names), t)
           /\ Moves(x, drop_indexes(x, t, names))
<1>1. PICK s : s = read_schema(x, t)
  OBVIOUS
<1>2. SchemaOK(s)
  BY <1>1, SchemaRead
<1>3. PICK unique : unique = read_unique_indexes(x, t)
  OBVIOUS
<1>4. PICK ks : ks = UNION {IndexEntries(scan_range(x), table_id(x, t), i) : i \in names}
  OBVIOUS
<1>5. PICK gone : gone = delete_keys(x, ks)
  OBVIOUS
<1>6. PICK new : new = [s EXCEPT !.indexes = {d \in @ : d.name \notin names}]
  OBVIOUS
<1>7. PICK kept : kept = write_key(gone, schema_key(t), new)
  OBVIOUS
<1>8. drop_indexes(x, t, names) = IF names \cap unique # {} THEN write_key(kept, uniqueidx_key(t), unique \ names) ELSE kept
  BY <1>1, <1>3, <1>4, <1>5, <1>6, <1>7, Zenon DEF drop_indexes
<1>9. SchemaOK(new)
  <2>1. PICK left : left = {d \in s.indexes : d.name \notin names}
    OBVIOUS
  <2>2. new = [cols |-> s.cols, indexes |-> left, keyed |-> s.keyed]
    BY <1>2, <1>6, <2>1 DEF SchemaOK
  <2>3. new.cols = s.cols /\ new.indexes = left /\ new.keyed = s.keyed
    BY <2>2
  <2>4. \A d \in new.indexes : d.name \in Int
    BY <1>2, <2>1, <2>3 DEF SchemaOK
  <2> QED BY <2>2, <2>3, <2>4 DEF SchemaOK
<1>10. RecordOK(schema_key(t), new) /\ schema_key(t)[1] # "row"
  BY <1>9 DEF RecordOK, schema_key
<1>11. TxnOK(gone) /\ Moves(x, gone)
  <2>1. PICK f : f = [k \in ks |-> <<>>]
    OBVIOUS
  <2>2. TxnOK(gone) /\ gone.uniq = x.uniq /\ gone.snap = x.snap /\ gone.overlay = Over(f, x.overlay)
    BY <1>5, <2>1, KeysDeleted
  <2>3. \A k \in DOMAIN f : k[1] # "row"
    BY <1>4, <2>1 DEF IndexEntries
  <2> QED BY <2>2, <2>3, MovesOver
<1>12. /\ TxnOK(kept) /\ kept.overlay = Over(Single(schema_key(t), <<new>>), gone.overlay)
       /\ Moves(x, kept)
  BY <1>7, <1>10, <1>11, RecordWritten, MovesTwice
<1>13. kept.overlay[schema_key(t)] = <<new>> /\ schema_key(t) \in DOMAIN kept.overlay
  BY <1>12 DEF Over, Single
<1>14. Exists(kept, t)
  BY <1>13 DEF Exists, read_key
<1>15. CASE names \cap unique # {}
  <2>1. PICK y : y = write_key(kept, uniqueidx_key(t), unique \ names)
    OBVIOUS
  <2>2. RecordOK(uniqueidx_key(t), unique \ names) /\ uniqueidx_key(t)[1] # "row"
    BY DEF RecordOK, uniqueidx_key
  <2>3. /\ TxnOK(y) /\ y.overlay = Over(Single(uniqueidx_key(t), <<unique \ names>>), kept.overlay)
        /\ Moves(x, y)
    BY <1>12, <2>1, <2>2, RecordWritten, MovesTwice
  <2>4. schema_key(t) # uniqueidx_key(t)
    BY DEF schema_key, uniqueidx_key
  <2>5. y.overlay[schema_key(t)] = <<new>> /\ schema_key(t) \in DOMAIN y.overlay
    BY <1>13, <2>3, <2>4 DEF Over, Single
  <2>6. Exists(y, t)
    BY <2>5 DEF Exists, read_key
  <2> QED BY <1>8, <1>15, <2>1, <2>3, <2>6
<1>16. CASE ~(names \cap unique # {})
  BY <1>8, <1>12, <1>14, <1>16
<1> QED BY <1>15, <1>16

LEMMA IndexDropped ==
    ASSUME NEW x, TxnOK(x), NEW t, NEW i
    PROVE  TxnOK(drop_index(x, t, i)) /\ Moves(x, drop_index(x, t, i))
BY FailedOK, IndexesDropped DEF drop_index, Known

LEMMA ColumnAdded ==
    ASSUME NEW x, TxnOK(x), NEW q, q.default \in Seq(Int)
    PROVE  TxnOK(add_column(x, q)) /\ Moves(x, add_column(x, q))
<1>1. CASE ~ Exists(x, q.t)
  BY <1>1, FailedOK DEF add_column
<1>2. CASE Exists(x, q.t)
  <2>1. PICK s : s = read_schema(x, q.t)
    OBVIOUS
  <2>2. PICK new : new = [s EXCEPT !.cols = Append(@, q.col)]
    OBVIOUS
  <2>3. SchemaOK(s)
    BY <1>2, <2>1, SchemaRead
  <2>4. SchemaOK(new)
    <3>1. PICK cols : cols = Append(s.cols, q.col)
      OBVIOUS
    <3>2. new = [cols |-> cols, indexes |-> s.indexes, keyed |-> s.keyed]
      BY <2>2, <2>3, <3>1 DEF SchemaOK
    <3>3. new.cols = cols /\ new.indexes = s.indexes /\ new.keyed = s.keyed
      BY <3>2
    <3> QED BY <2>3, <3>2, <3>3 DEF SchemaOK
  <2>5. PICK c : c = CatalogOf(x, q.t, s)
    OBVIOUS
  <2>6. CatalogOK(c)
    BY <2>5, CatalogRead
  <2>7. CatalogOK(catalog_add_column(c, fill_value(q)))
    <3>0. fill_value(q) \in Int
      BY SqlAssumption DEF fill_value
    <3>1. PICK d : d = IF fill_value(q) = Null THEN c.defaults ELSE Over(Single(c.width + 1, fill_value(q)), c.defaults)
      OBVIOUS
    <3>2. RowOK(d)
      BY <2>6, <3>0, <3>1 DEF RowOK, Over, Single, CatalogOK
    <3>3. PICK n : n = catalog_add_column(c, fill_value(q))
      OBVIOUS
    <3>4. n = [slots |-> Append(c.slots, c.width + 1), width |-> c.width + 1, defaults |-> d]
      BY <3>1, <3>3 DEF catalog_add_column
    <3>5. n.defaults = d /\ n = [slots |-> n.slots, width |-> n.width, defaults |-> n.defaults]
      BY <3>4
    <3> QED BY <3>2, <3>3, <3>5 DEF CatalogOK
  <2>8. \/ add_column(x, q) = Fail(x)
        \/ add_column(x, q) = write_key(insert_schema(x, q.t, new), colcat_key(q.t), catalog_add_column(c, fill_value(q)))
    BY <1>2, <2>1, <2>2, <2>5, Zenon DEF add_column
  <2> QED BY <2>4, <2>7, <2>8, FailedOK, SchemaInserted, CatalogWritten, MovesTwice
<1> QED BY <1>1, <1>2

LEMMA ColumnDropped ==
    ASSUME NEW x, TxnOK(x), NEW q
    PROVE  TxnOK(drop_column(x, q)) /\ Moves(x, drop_column(x, q))
<1>1. PICK names : names = {d.name : d \in {e \in read_schema(x, q.t).indexes : e.col = q.col}}
  OBVIOUS
<1>2. PICK y : y = IF names = {} THEN x ELSE drop_indexes(x, q.t, names)
  OBVIOUS
<1>3. PICK s : s = read_schema(y, q.t)
  OBVIOUS
<1>4. PICK i : i = Position(s.cols, q.col)
  OBVIOUS
<1>5. PICK new : new = [s EXCEPT !.cols = RemoveAt(@, i)]
  OBVIOUS
<1>6. PICK c : c = CatalogOf(y, q.t, s)
  OBVIOUS
<1>7. \/ drop_column(x, q) = Fail(x)
      \/ /\ Exists(x, q.t)
         /\ drop_column(x, q) = write_key(insert_schema(y, q.t, new), colcat_key(q.t), catalog_drop_column(c, i))
  BY <1>1, <1>2, <1>3, <1>4, <1>5, <1>6, Zenon DEF drop_column
<1>8. CASE drop_column(x, q) = Fail(x)
  BY <1>8, FailedOK
<1>9. CASE /\ Exists(x, q.t)
           /\ drop_column(x, q) = write_key(insert_schema(y, q.t, new), colcat_key(q.t), catalog_drop_column(c, i))
  <2>1. TxnOK(y) /\ Exists(y, q.t) /\ Moves(x, y)
    BY <1>2, <1>9, IndexesDropped, MovesAside
  <2>2. SchemaOK(s)
    BY <1>3, <2>1, SchemaRead
  <2>3. SchemaOK(new)
    <3>1. PICK cols : cols = RemoveAt(s.cols, i)
      OBVIOUS
    <3>2. new = [cols |-> cols, indexes |-> s.indexes, keyed |-> s.keyed]
      BY <1>5, <2>2, <3>1 DEF SchemaOK
    <3>3. new.cols = cols /\ new.indexes = s.indexes /\ new.keyed = s.keyed
      BY <3>2
    <3> QED BY <2>2, <3>2, <3>3 DEF SchemaOK
  <2>4. CatalogOK(c)
    BY <1>6, <2>1, CatalogRead
  <2>5. CatalogOK(catalog_drop_column(c, i))
    <3>1. PICK n : n = catalog_drop_column(c, i)
      OBVIOUS
    <3>2. PICK slots : slots = RemoveAt(c.slots, i)
      OBVIOUS
    <3>3. n = [slots |-> slots, width |-> c.width, defaults |-> c.defaults]
      BY <2>4, <3>1, <3>2 DEF catalog_drop_column, CatalogOK
    <3>4. n.defaults = c.defaults /\ n = [slots |-> n.slots, width |-> n.width, defaults |-> n.defaults]
      BY <3>3
    <3> QED BY <2>4, <3>1, <3>4 DEF CatalogOK
  <2> QED BY <1>9, <2>1, <2>3, <2>5, SchemaInserted, CatalogWritten, MovesTwice
<1> QED BY <1>7, <1>8, <1>9

LEMMA ColumnRenamed ==
    ASSUME NEW x, TxnOK(x), NEW q
    PROVE  TxnOK(rename_column(x, q)) /\ Moves(x, rename_column(x, q))
<1>1. PICK s : s = read_schema(x, q.t)
  OBVIOUS
<1>2. PICK cols : cols = [s.cols EXCEPT ![Position(s.cols, q.col)] = q.to]
  OBVIOUS
<1>3. PICK new : new = [s EXCEPT !.cols = cols]
  OBVIOUS
<1>4. \/ rename_column(x, q) = Fail(x)
      \/ Exists(x, q.t) /\ rename_column(x, q) = insert_schema(x, q.t, new)
  BY <1>1, <1>2, <1>3, Zenon DEF rename_column
<1>5. CASE Exists(x, q.t) /\ rename_column(x, q) = insert_schema(x, q.t, new)
  <2>1. SchemaOK(s)
    BY <1>1, <1>5, SchemaRead
  <2>2. new = [cols |-> cols, indexes |-> s.indexes, keyed |-> s.keyed]
    BY <1>3, <2>1 DEF SchemaOK
  <2>3. new.cols = cols /\ new.indexes = s.indexes /\ new.keyed = s.keyed
    BY <2>2
  <2>4. SchemaOK(new)
    BY <2>1, <2>2, <2>3 DEF SchemaOK
  <2> QED BY <1>5, <2>4, SchemaInserted
<1> QED BY <1>4, <1>5, FailedOK

LEMMA TableRenamed ==
    ASSUME NEW x, TxnOK(x), NEW t, NEW u
    PROVE  TxnOK(rename_schema(x, t, u)) /\ Moves(x, rename_schema(x, t, u))
<1>1. PICK moved : moved = {key \in {"schema", "tableid", "colcat", "pkcat"} : read_key(x, <<key, t>>) # <<>>}
  OBVIOUS
<1>2. PICK f : f = [k \in {<<key, u>> : key \in moved} |-> read_key(x, <<k[1], t>>)]
  OBVIOUS
<1>3. PICK ks : ks = {<<key, t>> : key \in moved}
  OBVIOUS
<1>4. rename_schema(x, t, u) = Fail(x) \/ rename_schema(x, t, u) = delete_keys(write_all(x, f), ks)
  BY <1>1, <1>2, <1>3 DEF rename_schema
<1>5. WritesOK(f)
  <2>1. ASSUME NEW key \in moved PROVE RecordOK(<<key, u>>, read_key(x, <<key, t>>)[1])
    <3>1. read_key(x, <<key, t>>) # <<>> /\ key # "row" /\ key # "index"
      BY <1>1
    <3>2. RecordOK(<<key, t>>, read_key(x, <<key, t>>)[1])
      BY <3>1, ReadOK
    <3> QED BY <3>1, <3>2 DEF RecordOK, schema_key
  <2>2. ASSUME NEW k \in DOMAIN f PROVE RecordOK(k, f[k][1])
    <3>1. PICK key \in moved : k = <<key, u>>
      BY <1>2
    <3>2. k[1] = key
      BY <3>1
    <3>3. f[k] = read_key(x, <<key, t>>)
      BY <1>2, <3>2
    <3> QED BY <2>1, <3>1, <3>3
  <2> QED BY <2>2 DEF WritesOK
<1>6. PICK y : y = write_all(x, f)
  OBVIOUS
<1>7. TxnOK(y) /\ Moves(x, y)
  <2>1. \A k \in DOMAIN f : k[1] # "row"
    <3>1. ASSUME NEW k \in DOMAIN f PROVE k[1] # "row"
      <4>1. PICK key \in moved : k = <<key, u>>
        BY <1>2
      <4> QED BY <1>1, <4>1
    <3> QED BY <3>1
  <2> QED BY <1>5, <1>6, <2>1, WrittenOK, MovesOver
<1>8. PICK z : z = delete_keys(y, ks)
  OBVIOUS
<1>9. TxnOK(z) /\ Moves(y, z)
  <2>1. PICK g : g = [k \in ks |-> <<>>]
    OBVIOUS
  <2>2. \A k \in DOMAIN g : k[1] # "row"
    <3>1. ASSUME NEW k \in DOMAIN g PROVE k[1] # "row"
      <4>1. PICK key \in moved : k = <<key, t>>
        BY <1>3, <2>1
      <4> QED BY <1>1, <4>1
    <3> QED BY <3>1
  <2> QED BY <1>7, <1>8, <2>1, <2>2, KeysDeleted, MovesOver
<1> QED BY <1>4, <1>6, <1>7, <1>8, <1>9, FailedOK, MovesTwice

-----------------------------------------------------------------------------
(* DDL on the ids of tables, and on index entries: only CREATE INDEX writes  *)
(* entries, of an index that nobody enforces yet.                            *)

IsTxn(x) == x = [snap |-> x.snap, overlay |-> x.overlay, uniq |-> x.uniq, uniqIdx |-> x.uniqIdx,
                 changes |-> x.changes, seq |-> x.seq, failed |-> x.failed]

LEMMA WriteAll ==
    ASSUME NEW x, IsTxn(x), NEW f, NEW y, y = write_all(x, f)
    PROVE  /\ IsTxn(y) /\ y.snap = x.snap /\ y.overlay = Over(f, x.overlay)
           /\ \A k : read_key(y, k) = IF k \in DOMAIN f THEN f[k] ELSE read_key(x, k)
<1>1. PICK o : o = Over(f, x.overlay)
  OBVIOUS
<1>2. y = [snap |-> x.snap, overlay |-> o, uniq |-> x.uniq, uniqIdx |-> x.uniqIdx,
          changes |-> x.changes, seq |-> x.seq, failed |-> x.failed]
  BY <1>1 DEF write_all, IsTxn
<1>3. /\ y.uniq = x.uniq /\ y.uniqIdx = x.uniqIdx /\ y.failed = x.failed /\ y.snap = x.snap /\ y.overlay = o
      /\ y.changes = x.changes /\ y.seq = x.seq
  BY <1>2
<1>4. IsTxn(y)
  BY <1>2, <1>3 DEF IsTxn
<1>5. /\ DOMAIN o = DOMAIN f \cup DOMAIN x.overlay
      /\ \A k \in DOMAIN o : o[k] = IF k \in DOMAIN f THEN f[k] ELSE x.overlay[k]
  BY <1>1 DEF Over
<1>6. ASSUME NEW k PROVE read_key(y, k) = IF k \in DOMAIN f THEN f[k] ELSE read_key(x, k)
  BY <1>3, <1>5 DEF read_key
<1> QED BY <1>1, <1>3, <1>4, <1>6

LEMMA WriteKey ==
    ASSUME NEW x, IsTxn(x), NEW k, NEW v, NEW y, y = write_key(x, k, v)
    PROVE  /\ IsTxn(y) /\ y.snap = x.snap /\ y.overlay = Over(Single(k, <<v>>), x.overlay)
           /\ \A j : read_key(y, j) = IF j = k THEN <<v>> ELSE read_key(x, j)
<1>1. PICK f : f = Single(k, <<v>>)
  OBVIOUS
<1>2. DOMAIN f = {k} /\ f[k] = <<v>>
  BY <1>1 DEF Single
<1>3. y = write_all(x, f)
  BY <1>1 DEF write_key
<1>4. /\ IsTxn(y) /\ y.snap = x.snap /\ y.overlay = Over(f, x.overlay)
      /\ \A j : read_key(y, j) = IF j \in DOMAIN f THEN f[j] ELSE read_key(x, j)
  BY <1>3, WriteAll
<1> QED BY <1>1, <1>2, <1>4

NoEntries(f) == \A k \in DOMAIN f : k[1] = "index" => f[k] = <<>>

LEMMA NoEntriesOver ==
    ASSUME NEW f, NEW g, NoEntries(f), NoEntries(g)
    PROVE  NoEntries(Over(f, g))
BY DEF NoEntries, Over

\* Work that writes no entries and keeps the tables numbered.
Tidy(x, y) ==
    /\ IsTxn(y) /\ y.snap = x.snap
    /\ Numbered(x) => Numbered(y)
    /\ NoEntries(x.overlay) => NoEntries(y.overlay)

LEMMA TidyTwice ==
    ASSUME NEW x, NEW y, NEW z, Tidy(x, y), Tidy(y, z)
    PROVE  Tidy(x, z)
BY DEF Tidy

LEMMA TidyFail ==
    ASSUME NEW x, IsTxn(x)
    PROVE  Tidy(x, x) /\ Tidy(x, Fail(x))
<1>1. PICK y : y = Fail(x)
  OBVIOUS
<1>2. y = [snap |-> x.snap, overlay |-> x.overlay, uniq |-> x.uniq, uniqIdx |-> x.uniqIdx,
          changes |-> x.changes, seq |-> x.seq, failed |-> TRUE]
  BY <1>1 DEF Fail, IsTxn
<1>3. /\ y.uniq = x.uniq /\ y.uniqIdx = x.uniqIdx /\ y.failed = TRUE /\ y.snap = x.snap /\ y.overlay = x.overlay
      /\ y.changes = x.changes /\ y.seq = x.seq
  BY <1>2
<1>4. IsTxn(y)
  BY <1>2, <1>3 DEF IsTxn
<1>5. \A k : read_key(y, k) = read_key(x, k)
  BY <1>3 DEF read_key
<1>6. Numbered(x) => Numbered(y)
  BY <1>5 DEF Numbered, table_id
<1> QED BY <1>1, <1>3, <1>4, <1>6 DEF Tidy

\* Ids are kept, and a schema is only written for a table that has one.
LEMMA NumberedKept ==
    ASSUME NEW x, Numbered(x), NEW y,
           \A t : read_key(y, tableid_key(t)) = read_key(x, tableid_key(t)),
           read_key(y, tableid_seq_key) = read_key(x, tableid_seq_key),
           \A t : read_key(y, schema_key(t)) # <<>> =>
                     read_key(x, schema_key(t)) # <<>> \/ read_key(x, tableid_key(t)) # <<>>
    PROVE  Numbered(y)
BY DEF Numbered, table_id

LEMMA TidySchema ==
    ASSUME NEW x, IsTxn(x), NEW t, read_key(x, tableid_key(t)) # <<>>, NEW s
    PROVE  Tidy(x, write_key(x, schema_key(t), s))
<1>1. PICK y : y = write_key(x, schema_key(t), s)
  OBVIOUS
<1>2. /\ IsTxn(y) /\ y.snap = x.snap /\ y.overlay = Over(Single(schema_key(t), <<s>>), x.overlay)
      /\ \A j : read_key(y, j) = IF j = schema_key(t) THEN <<s>> ELSE read_key(x, j)
  BY <1>1, WriteKey
<1>3. NoEntries(Single(schema_key(t), <<s>>))
  BY DEF NoEntries, Single, schema_key
<1>4. /\ \A u : tableid_key(u) # schema_key(t) /\ (schema_key(u) = schema_key(t) => u = t)
      /\ tableid_seq_key # schema_key(t)
  BY DEF tableid_key, schema_key, tableid_seq_key
<1>5. Numbered(x) => Numbered(y)
  BY <1>2, <1>4, NumberedKept
<1> QED BY <1>1, <1>2, <1>3, <1>5, NoEntriesOver DEF Tidy

LEMMA TidyRecord ==
    ASSUME NEW x, IsTxn(x), NEW k, k[1] \in {"colcat", "uniqueidx"}, NEW v
    PROVE  Tidy(x, write_key(x, k, v))
<1>1. PICK y : y = write_key(x, k, v)
  OBVIOUS
<1>2. /\ IsTxn(y) /\ y.snap = x.snap /\ y.overlay = Over(Single(k, <<v>>), x.overlay)
      /\ \A j : read_key(y, j) = IF j = k THEN <<v>> ELSE read_key(x, j)
  BY <1>1, WriteKey
<1>3. NoEntries(Single(k, <<v>>))
  BY DEF NoEntries, Single
<1>4. (\A u : tableid_key(u) # k /\ schema_key(u) # k) /\ tableid_seq_key # k
  BY DEF tableid_key, schema_key, tableid_seq_key
<1>5. Numbered(x) => Numbered(y)
  BY <1>2, <1>4, NumberedKept
<1> QED BY <1>1, <1>2, <1>3, <1>5, NoEntriesOver DEF Tidy

\* A table without an id gets the next one.
LEMMA TidyId ==
    ASSUME NEW x, TxnOK(x), NEW t
    PROVE  /\ Tidy(x, ensure_table_id(x, t))
           /\ read_key(ensure_table_id(x, t), tableid_key(t)) # <<>>
<1>1. IsTxn(x)
  BY DEF TxnOK, IsTxn
<1>2. CASE read_key(x, tableid_key(t)) # <<>>
  BY <1>1, <1>2, TidyFail DEF ensure_table_id
<1>3. CASE read_key(x, tableid_key(t)) = <<>>
  <2>1. PICK n : n = read_or(x, tableid_seq_key, 0) + 1
    OBVIOUS
  <2>2. PICK w : w = write_key(x, tableid_seq_key, n)
    OBVIOUS
  <2>3. PICK y : y = write_key(w, tableid_key(t), n)
    OBVIOUS
  <2>4. ensure_table_id(x, t) = y
    BY <1>3, <2>1, <2>2, <2>3 DEF ensure_table_id
  <2>5. /\ IsTxn(w) /\ w.snap = x.snap /\ w.overlay = Over(Single(tableid_seq_key, <<n>>), x.overlay)
        /\ \A j : read_key(w, j) = IF j = tableid_seq_key THEN <<n>> ELSE read_key(x, j)
    BY <1>1, <2>2, WriteKey
  <2>6. /\ IsTxn(y) /\ y.snap = w.snap /\ y.overlay = Over(Single(tableid_key(t), <<n>>), w.overlay)
        /\ \A j : read_key(y, j) = IF j = tableid_key(t) THEN <<n>> ELSE read_key(w, j)
    BY <2>3, <2>5, WriteKey
  <2>7. NoEntries(Single(tableid_seq_key, <<n>>)) /\ NoEntries(Single(tableid_key(t), <<n>>))
    BY DEF NoEntries, Single, tableid_seq_key, tableid_key
  <2>8. NoEntries(x.overlay) => NoEntries(y.overlay)
    BY <2>5, <2>6, <2>7, NoEntriesOver
  <2>9. /\ \A u : tableid_key(u) # tableid_seq_key /\ schema_key(u) # tableid_seq_key /\ schema_key(u) # tableid_key(t)
        /\ \A u : tableid_key(u) = tableid_key(t) => u = t
        /\ tableid_seq_key # tableid_key(t)
    BY DEF tableid_key, schema_key, tableid_seq_key
  <2>10. /\ read_key(y, tableid_seq_key) = <<n>> /\ read_key(y, tableid_key(t)) = <<n>>
         /\ \A u : u # t => read_key(y, tableid_key(u)) = read_key(x, tableid_key(u))
         /\ \A u : read_key(y, schema_key(u)) = read_key(x, schema_key(u))
    BY <2>5, <2>6, <2>9
  <2>11. ASSUME NEW u, Numbered(x), read_key(x, tableid_key(u)) # <<>> PROVE table_id(x, u) \in Int /\ table_id(x, u) < n
    <3>1. read_key(x, tableid_seq_key) # <<>> /\ table_id(x, u) <= read_key(x, tableid_seq_key)[1]
      BY <2>11 DEF Numbered
    <3>2. table_id(x, u) \in Int
      BY <2>11, ReadOK DEF RecordOK, tableid_key, table_id
    <3>3. read_key(x, tableid_seq_key)[1] \in Int
      BY <3>1, ReadOK DEF RecordOK, tableid_seq_key
    <3> QED BY <2>1, <3>1, <3>2, <3>3 DEF read_or
  <2>12. n \in Int
    <3>1. read_or(x, tableid_seq_key, 0) \in Int
      BY ReadOK DEF read_or, tableid_seq_key, RecordOK
    <3> QED BY <2>1, <3>1
  <2>13. ASSUME Numbered(x) PROVE Numbered(y)
    <3>1. table_id(y, t) = n /\ read_key(y, tableid_seq_key)[1] = n
      BY <2>10 DEF table_id
    <3>2. ASSUME NEW u, u # t PROVE table_id(y, u) = table_id(x, u)
      BY <2>10, <3>2 DEF table_id
    <3>3. \A u : read_key(y, schema_key(u)) # <<>> => read_key(y, tableid_key(u)) # <<>>
      BY <2>10, <2>13 DEF Numbered
    <3>4. ASSUME NEW u, NEW v, read_key(y, tableid_key(u)) # <<>>, read_key(y, tableid_key(v)) # <<>>,
                 table_id(y, u) = table_id(y, v)
          PROVE  u = v
      <4>1. CASE u # t /\ v # t
        BY <2>10, <2>13, <3>2, <3>4, <4>1 DEF Numbered
      <4>2. CASE u = t /\ v # t
        <5>1. table_id(x, v) \in Int /\ table_id(x, v) < n
          BY <2>10, <2>11, <2>13, <3>4, <4>2
        <5> QED BY <2>12, <3>1, <3>2, <3>4, <4>2, <5>1
      <4>3. CASE u # t /\ v = t
        <5>1. table_id(x, u) \in Int /\ table_id(x, u) < n
          BY <2>10, <2>11, <2>13, <3>4, <4>3
        <5> QED BY <2>12, <3>1, <3>2, <3>4, <4>3, <5>1
      <4> QED BY <4>1, <4>2, <4>3
    <3>5. ASSUME NEW u, read_key(y, tableid_key(u)) # <<>>
          PROVE  read_key(y, tableid_seq_key) # <<>> /\ table_id(y, u) <= read_key(y, tableid_seq_key)[1]
      <4>1. CASE u = t
        BY <2>10, <2>12, <3>1, <4>1
      <4>2. CASE u # t
        <5>1. table_id(x, u) \in Int /\ table_id(x, u) < n
          BY <2>10, <2>11, <2>13, <3>5, <4>2
        <5> QED BY <2>10, <2>12, <3>1, <3>2, <4>2, <5>1
      <4> QED BY <4>1, <4>2
    <3> QED BY <3>3, <3>4, <3>5 DEF Numbered
  <2> QED BY <2>4, <2>5, <2>6, <2>8, <2>10, <2>13 DEF Tidy
<1> QED BY <1>2, <1>3

LEMMA TidySchemaInserted ==
    ASSUME NEW x, TxnOK(x), NEW t, NEW s
    PROVE  Tidy(x, insert_schema(x, t, s))
<1>1. PICK y : y = ensure_table_id(x, t)
  OBVIOUS
<1>2. Tidy(x, y) /\ read_key(y, tableid_key(t)) # <<>> /\ IsTxn(y)
  BY <1>1, TidyId DEF Tidy
<1>3. Tidy(y, write_key(y, schema_key(t), s))
  BY <1>2, TidySchema
<1> QED BY <1>1, <1>2, <1>3, TidyTwice DEF insert_schema

LEMMA TidyDeleted ==
    ASSUME NEW x, IsTxn(x), NEW ks, tableid_seq_key \notin ks, \A t : tableid_key(t) \in ks => schema_key(t) \in ks
    PROVE  Tidy(x, delete_keys(x, ks))
<1>1. PICK f : f = [k \in ks |-> <<>>]
  OBVIOUS
<1>2. PICK y : y = delete_keys(x, ks)
  OBVIOUS
<1>3. DOMAIN f = ks /\ \A k \in ks : f[k] = <<>>
  BY <1>1
<1>4. /\ IsTxn(y) /\ y.snap = x.snap /\ y.overlay = Over(f, x.overlay)
      /\ \A k : read_key(y, k) = IF k \in ks THEN <<>> ELSE read_key(x, k)
  <2>1. y = write_all(x, f)
    BY <1>1, <1>2 DEF delete_keys
  <2> QED BY <1>3, <2>1, WriteAll
<1>5. NoEntries(f)
  BY <1>3 DEF NoEntries
<1>6. Numbered(x) => Numbered(y)
  BY <1>4 DEF Numbered, table_id
<1> QED BY <1>2, <1>4, <1>5, <1>6, NoEntriesOver DEF Tidy

LEMMA TidyIndexesDropped ==
    ASSUME NEW x, TxnOK(x), NEW t, Known(x, t), NEW names
    PROVE  Tidy(x, drop_indexes(x, t, names))
<1>1. PICK ks : ks = UNION {IndexEntries(scan_range(x), table_id(x, t), i) : i \in names}
  OBVIOUS
<1>2. PICK s : s = [read_schema(x, t) EXCEPT !.indexes = {d \in @ : d.name \notin names}]
  OBVIOUS
<1>3. PICK u : u = read_unique_indexes(x, t)
  OBVIOUS
<1>4. PICK y : y = delete_keys(x, ks)
  OBVIOUS
<1>5. PICK w : w = write_key(y, schema_key(t), s)
  OBVIOUS
<1>6. drop_indexes(x, t, names) = IF names \cap u # {} THEN write_key(w, uniqueidx_key(t), u \ names) ELSE w
  BY <1>1, <1>2, <1>3, <1>4, <1>5 DEF drop_indexes
<1>7. \A k \in ks : k[1] = "index"
  BY <1>1 DEF IndexEntries
<1>8. tableid_seq_key \notin ks /\ \A v : tableid_key(v) \notin ks
  BY <1>7 DEF tableid_seq_key, tableid_key
<1>9. IsTxn(x)
  BY DEF TxnOK, IsTxn
<1>10. Tidy(x, y)
  BY <1>4, <1>8, <1>9, TidyDeleted
<1>11. read_key(y, tableid_key(t)) # <<>>
  <2>1. PICK f : f = [k \in ks |-> <<>>]
    OBVIOUS
  <2>2. y = write_all(x, f) /\ DOMAIN f = ks
    BY <1>4, <2>1 DEF delete_keys
  <2>3. read_key(y, tableid_key(t)) = read_key(x, tableid_key(t))
    BY <1>8, <1>9, <2>2, WriteAll
  <2> QED BY <2>3 DEF Known
<1>12. Tidy(y, w)
  BY <1>5, <1>10, <1>11, TidySchema DEF Tidy
<1>13. Tidy(w, write_key(w, uniqueidx_key(t), u \ names))
  <2>1. uniqueidx_key(t)[1] = "uniqueidx"
    BY DEF uniqueidx_key
  <2> QED BY <1>12, <2>1, TidyRecord DEF Tidy
<1> QED BY <1>6, <1>10, <1>12, <1>13, TidyTwice

LEMMA TidyTableDropped ==
    ASSUME NEW x, TxnOK(x), NEW t
    PROVE  Tidy(x, delete_schema(x, t))
<1>1. IsTxn(x)
  BY DEF TxnOK, IsTxn
<1>2. PICK es : es = entries_of_rows(table_id(x, t), read_schema(x, t), collect_rows(x, t))
  OBVIOUS
<1>3. PICK rs : rs = {row_key(table_id(x, t), pk) : pk \in DOMAIN collect_rows(x, t)}
  OBVIOUS
<1>4. PICK ks : ks = es \cup rs \cup {schema_key(t), colcat_key(t), pkcat_key(t), tableid_key(t)}
  OBVIOUS
<1>5. delete_schema(x, t) = Fail(x) \/ delete_schema(x, t) = delete_keys(x, ks)
  BY <1>2, <1>3, <1>4 DEF delete_schema
<1>6. (\A k \in es : k[1] = "index") /\ (\A k \in rs : k[1] = "row")
  BY <1>2, <1>3 DEF entries_of_rows, index_entry_key, row_key
<1>7. tableid_seq_key \notin ks /\ \A u : tableid_key(u) \in ks => schema_key(u) \in ks
  <2>1. \A u : tableid_key(u)[1] = "tableid" /\ (tableid_key(u) = tableid_key(t) => u = t)
    BY DEF tableid_key
  <2>2. tableid_seq_key[1] = "tableid_seq"
    BY DEF tableid_seq_key
  <2>3. schema_key(t)[1] = "schema" /\ colcat_key(t)[1] = "colcat" /\ pkcat_key(t)[1] = "pkcat" /\ tableid_key(t)[1] = "tableid"
    BY DEF schema_key, colcat_key, pkcat_key, tableid_key
  <2> QED BY <1>4, <1>6, <2>1, <2>2, <2>3
<1> QED BY <1>1, <1>5, <1>7, TidyFail, TidyDeleted

LEMMA TidyTableRenamed ==
    ASSUME NEW x, TxnOK(x), NEW t, NEW u
    PROVE  Tidy(x, rename_schema(x, t, u))
<1>1. IsTxn(x)
  BY DEF TxnOK, IsTxn
<1>2. CASE ~ Known(x, t)
  BY <1>1, <1>2, TidyFail DEF rename_schema
<1>3. CASE Known(x, t)
  <2>1. PICK moved : moved = {key \in {"schema", "tableid", "colcat", "pkcat"} : read_key(x, <<key, t>>) # <<>>}
    OBVIOUS
  <2>2. PICK f : f = [k \in {<<key, u>> : key \in moved} |-> read_key(x, <<k[1], t>>)]
    OBVIOUS
  <2>3. PICK g : g = [k \in {<<key, t>> : key \in moved} |-> <<>>]
    OBVIOUS
  <2>4. PICK w : w = write_all(x, f)
    OBVIOUS
  <2>5. PICK y : y = write_all(w, g)
    OBVIOUS
  <2>6. rename_schema(x, t, u) = y
    BY <1>3, <2>1, <2>2, <2>3, <2>4, <2>5 DEF rename_schema, delete_keys
  <2>7. "schema" \in moved /\ "tableid" \in moved /\ "tableid_seq" \notin moved /\ "index" \notin moved
    BY <1>3, <2>1 DEF Known, Exists, schema_key, tableid_key
  <2>8. DOMAIN f = {<<key, u>> : key \in moved} /\ DOMAIN g = {<<key, t>> : key \in moved}
    BY <2>2, <2>3
  <2>9. /\ IsTxn(w) /\ w.snap = x.snap /\ w.overlay = Over(f, x.overlay)
        /\ \A k : read_key(w, k) = IF k \in DOMAIN f THEN f[k] ELSE read_key(x, k)
    BY <1>1, <2>4, WriteAll
  <2>10. /\ IsTxn(y) /\ y.snap = w.snap /\ y.overlay = Over(g, w.overlay)
         /\ \A k : read_key(y, k) = IF k \in DOMAIN g THEN g[k] ELSE read_key(w, k)
    BY <2>5, <2>9, WriteAll
  <2>11. NoEntries(f) /\ NoEntries(g)
    <3>1. (\A k \in DOMAIN f : k[1] \in moved) /\ (\A k \in DOMAIN g : k[1] \in moved)
      BY <2>8
    <3> QED BY <2>7, <3>1 DEF NoEntries
  <2>12. ASSUME NEW key \in {"schema", "tableid"}, NEW v
         PROVE  read_key(y, <<key, v>>) = IF v = t THEN <<>> ELSE IF v = u THEN read_key(x, <<key, t>>)
                                          ELSE read_key(x, <<key, v>>)
    <3>1. key \in moved
      BY <2>7
    <3>2. <<key, v>> \in DOMAIN g <=> v = t
      BY <2>8, <3>1
    <3>3. <<key, v>> \in DOMAIN f <=> v = u
      BY <2>8, <3>1
    <3>4. v = t => g[<<key, v>>] = <<>>
      BY <2>3, <2>8, <3>2
    <3>5. v = u => f[<<key, v>>] = read_key(x, <<key, t>>)
      <4>1. <<key, v>>[1] = key
        OBVIOUS
      <4> QED BY <2>2, <2>8, <3>3, <4>1
    <3> QED BY <2>9, <2>10, <3>2, <3>3, <3>4, <3>5
  <2>13. read_key(y, tableid_seq_key) = read_key(x, tableid_seq_key)
    <3>1. tableid_seq_key \notin DOMAIN f /\ tableid_seq_key \notin DOMAIN g
      <4>1. (\A k \in DOMAIN f : k[1] \in moved) /\ (\A k \in DOMAIN g : k[1] \in moved)
        BY <2>8
      <4> QED BY <2>7, <4>1 DEF tableid_seq_key
    <3> QED BY <2>9, <2>10, <3>1
  <2>14. ASSUME NEW v
         PROVE  /\ read_key(y, schema_key(v)) = IF v = t THEN <<>> ELSE IF v = u THEN read_key(x, schema_key(t))
                                                ELSE read_key(x, schema_key(v))
                /\ read_key(y, tableid_key(v)) = IF v = t THEN <<>> ELSE IF v = u THEN read_key(x, tableid_key(t))
                                                 ELSE read_key(x, tableid_key(v))
    BY <2>12 DEF schema_key, tableid_key
  <2>15. ASSUME Numbered(x) PROVE Numbered(y)
    <3>1. ASSUME NEW v, read_key(y, tableid_key(v)) # <<>>
          PROVE  /\ v # t /\ table_id(y, v) = IF v = u THEN table_id(x, t) ELSE table_id(x, v)
                 /\ v # u => read_key(x, tableid_key(v)) # <<>>
      BY <2>14, <3>1 DEF table_id
    <3>2. read_key(x, tableid_key(t)) # <<>>
      BY <1>3 DEF Known
    <3>3. \A v : read_key(y, schema_key(v)) # <<>> => read_key(y, tableid_key(v)) # <<>>
      BY <2>14, <2>15, <3>2 DEF Numbered
    <3>4. ASSUME NEW v, NEW v2, read_key(y, tableid_key(v)) # <<>>, read_key(y, tableid_key(v2)) # <<>>,
                 table_id(y, v) = table_id(y, v2)
          PROVE  v = v2
      BY <2>15, <3>1, <3>2, <3>4 DEF Numbered
    <3>5. ASSUME NEW v, read_key(y, tableid_key(v)) # <<>>
          PROVE  read_key(y, tableid_seq_key) # <<>> /\ table_id(y, v) <= read_key(y, tableid_seq_key)[1]
      BY <2>13, <2>15, <3>1, <3>2, <3>5 DEF Numbered
    <3> QED BY <3>3, <3>4, <3>5 DEF Numbered
  <2> QED BY <2>6, <2>9, <2>10, <2>11, <2>15, NoEntriesOver DEF Tidy
<1> QED BY <1>2, <1>3

LEMMA TidyColumns ==
    ASSUME NEW x, TxnOK(x), NEW q
    PROVE  /\ Tidy(x, create_table(x, q)) /\ Tidy(x, rename_column(x, q))
           /\ Tidy(x, add_column(x, q)) /\ Tidy(x, drop_column(x, q)) /\ Tidy(x, drop_index(x, q.t, q.i))
<1>1. IsTxn(x)
  BY DEF TxnOK, IsTxn
<1>2. ASSUME NEW y, TxnOK(y), NEW s, NEW c PROVE Tidy(y, write_key(insert_schema(y, q.t, s), colcat_key(q.t), c))
  <2>1. Tidy(y, insert_schema(y, q.t, s))
    BY <1>2, TidySchemaInserted
  <2>2. colcat_key(q.t)[1] = "colcat" /\ IsTxn(insert_schema(y, q.t, s))
    BY <2>1 DEF colcat_key, Tidy
  <2>3. Tidy(insert_schema(y, q.t, s), write_key(insert_schema(y, q.t, s), colcat_key(q.t), c))
    BY <2>2, TidyRecord
  <2> QED BY <2>1, <2>3, TidyTwice
<1>3. Tidy(x, create_table(x, q))
  BY <1>1, TidyFail, TidySchemaInserted DEF create_table
<1>4. Tidy(x, rename_column(x, q))
  <2>1. PICK new : new = [read_schema(x, q.t) EXCEPT !.cols =
                              [read_schema(x, q.t).cols EXCEPT ![Position(read_schema(x, q.t).cols, q.col)] = q.to]]
    OBVIOUS
  <2>2. rename_column(x, q) = Fail(x) \/ rename_column(x, q) = insert_schema(x, q.t, new)
    BY <2>1, Zenon DEF rename_column
  <2> QED BY <1>1, <2>2, TidyFail, TidySchemaInserted
<1>5. Tidy(x, add_column(x, q))
  <2>1. PICK s : s = read_schema(x, q.t)
    OBVIOUS
  <2>2. PICK new : new = [s EXCEPT !.cols = Append(@, q.col)]
    OBVIOUS
  <2>3. PICK c : c = catalog_add_column(CatalogOf(x, q.t, s), fill_value(q))
    OBVIOUS
  <2>4. add_column(x, q) = Fail(x) \/ add_column(x, q) = write_key(insert_schema(x, q.t, new), colcat_key(q.t), c)
    BY <2>1, <2>2, <2>3, Zenon DEF add_column
  <2> QED BY <1>1, <1>2, <2>4, TidyFail
<1>6. Tidy(x, drop_column(x, q))
  <2>1. PICK names : names = {d.name : d \in {e \in read_schema(x, q.t).indexes : e.col = q.col}}
    OBVIOUS
  <2>2. PICK y : y = IF names = {} THEN x ELSE drop_indexes(x, q.t, names)
    OBVIOUS
  <2>3. PICK s : s = read_schema(y, q.t)
    OBVIOUS
  <2>4. PICK i : i = Position(s.cols, q.col)
    OBVIOUS
  <2>5. PICK new : new = [s EXCEPT !.cols = RemoveAt(@, i)]
    OBVIOUS
  <2>6. PICK c : c = catalog_drop_column(CatalogOf(y, q.t, s), i)
    OBVIOUS
  <2>7. \/ drop_column(x, q) = Fail(x)
        \/ /\ Exists(x, q.t) /\ (names # {} => Known(x, q.t))
           /\ drop_column(x, q) = write_key(insert_schema(y, q.t, new), colcat_key(q.t), c)
    BY <2>1, <2>2, <2>3, <2>4, <2>5, <2>6, Zenon DEF drop_column
  <2>8. CASE /\ Exists(x, q.t) /\ (names # {} => Known(x, q.t))
             /\ drop_column(x, q) = write_key(insert_schema(y, q.t, new), colcat_key(q.t), c)
    <3>1. TxnOK(y) /\ Tidy(x, y)
      BY <1>1, <2>2, <2>8, IndexesDropped, TidyIndexesDropped, TidyFail
    <3> QED BY <1>2, <2>8, <3>1, TidyTwice
  <2> QED BY <1>1, <2>7, <2>8, TidyFail
<1>7. Tidy(x, drop_index(x, q.t, q.i))
  BY <1>1, TidyFail, TidyIndexesDropped DEF drop_index
<1> QED BY <1>3, <1>4, <1>5, <1>6, <1>7

\* A new index leaves the ids alone.
LEMMA NewIndexNumbered ==
    ASSUME NEW x, TxnOK(x), Numbered(x), NEW q, NEW y, y = create_index(x, q)
    PROVE  Numbered(y)
<1>1. IsTxn(x)
  BY DEF TxnOK, IsTxn
<1>2. CASE y = Fail(x)
  BY <1>1, <1>2, TidyFail DEF Tidy
<1>3. CASE y # Fail(x)
  <2>1. PICK s, id : s = read_schema(x, q.t) /\ id = table_id(x, q.t)
    OBVIOUS
  <2>2. PICK one, new : /\ one = [s EXCEPT !.indexes = {[name |-> q.i, col |-> q.col]}]
                        /\ new = [s EXCEPT !.indexes = @ \cup {[name |-> q.i, col |-> q.col]}]
    OBVIOUS
  <2>3. PICK ks : ks = entries_of_rows(id, one, collect_rows(x, q.t))
    OBVIOUS
  <2>4. PICK f : f = [k \in ks |-> <<k[5]>>]
    OBVIOUS
  <2>5. PICK w : w = write_all(x, f)
    OBVIOUS
  <2>6. Known(x, q.t) /\ y = write_key(w, schema_key(q.t), new)
    BY <1>3, <2>1, <2>2, <2>3, <2>4, <2>5 DEF create_index
  <2>7. \A k \in ks : k[1] = "index"
    BY <2>3 DEF entries_of_rows, index_entry_key
  <2>8. DOMAIN f = ks
    BY <2>4
  <2>9. IsTxn(w) /\ \A k : read_key(w, k) = IF k \in ks THEN f[k] ELSE read_key(x, k)
    BY <1>1, <2>5, <2>8, WriteAll
  <2>10. \A j : read_key(y, j) = IF j = schema_key(q.t) THEN <<new>> ELSE read_key(w, j)
    BY <2>6, <2>9, WriteKey
  <2>11. /\ \A u : tableid_key(u) # schema_key(q.t) /\ (schema_key(u) = schema_key(q.t) => u = q.t)
         /\ tableid_seq_key # schema_key(q.t)
         /\ \A u : tableid_key(u) \notin ks /\ schema_key(u) \notin ks
         /\ tableid_seq_key \notin ks
    BY <2>7 DEF tableid_key, schema_key, tableid_seq_key
  <2>12. read_key(x, schema_key(q.t)) # <<>>
    BY <2>6 DEF Known, Exists
  <2>13. /\ \A t : read_key(y, tableid_key(t)) = read_key(x, tableid_key(t))
         /\ read_key(y, tableid_seq_key) = read_key(x, tableid_seq_key)
         /\ \A t : read_key(y, schema_key(t)) # <<>> => read_key(x, schema_key(t)) # <<>>
    BY <2>9, <2>10, <2>11, <2>12
  <2> QED BY <2>13, NumberedKept
<1> QED BY <1>2, <1>3

\* A new index is nobody's, so its entries need no guard.
LEMMA NewIndexUnguarded ==
    ASSUME NEW x, TxnOK(x), DOMAIN x.overlay = {}, Numbered(x), NEW q, NEW y, y = create_index(x, q)
    PROVE  Numbered(y) /\ EntriesGuarded(y) /\ y.snap = x.snap
<1>1. IsTxn(x)
  BY DEF TxnOK, IsTxn
<1>2. CASE y = Fail(x)
  <2>1. Tidy(x, y) /\ NoEntries(x.overlay)
    BY <1>1, <1>2, TidyFail DEF NoEntries
  <2> QED BY <2>1 DEF Tidy, NoEntries, EntriesGuarded, MustGuard
<1>3. CASE y # Fail(x)
  <2>1. PICK s : s = read_schema(x, q.t)
    OBVIOUS
  <2>2. PICK index : index = [name |-> q.i, col |-> q.col]
    OBVIOUS
  <2>3. PICK one : one = [s EXCEPT !.indexes = {index}]
    OBVIOUS
  <2>4. PICK id : id = table_id(x, q.t)
    OBVIOUS
  <2>5. PICK ks : ks = entries_of_rows(id, one, collect_rows(x, q.t))
    OBVIOUS
  <2>6. PICK new : new = [s EXCEPT !.indexes = @ \cup {index}]
    OBVIOUS
  <2>7. PICK f : f = [k \in ks |-> <<k[5]>>]
    OBVIOUS
  <2>8. PICK w : w = write_all(x, f)
    OBVIOUS
  <2>9. /\ Known(x, q.t) /\ ~ \E d \in s.indexes : d.name = q.i
        /\ y = write_key(w, schema_key(q.t), new)
    BY <1>3, <2>1, <2>2, <2>3, <2>4, <2>5, <2>6, <2>7, <2>8 DEF create_index
  <2>10. SchemaOK(s)
    BY <2>1, <2>9, TableOK
  <2>11. one.indexes = {index} /\ index.name = q.i
    BY <2>2, <2>3, <2>10 DEF SchemaOK
  <2>12. \A k \in ks : k[1] = "index" /\ k[2] = id /\ k[3] = q.i
    BY <2>5, <2>11 DEF entries_of_rows, index_entry_key
  <2>13. DOMAIN f = ks
    BY <2>7
  <2>14. /\ IsTxn(w) /\ w.snap = x.snap /\ w.overlay = Over(f, x.overlay)
         /\ \A k : read_key(w, k) = IF k \in ks THEN f[k] ELSE read_key(x, k)
    BY <1>1, <2>8, <2>13, WriteAll
  <2>15. /\ IsTxn(y) /\ y.snap = w.snap /\ y.overlay = Over(Single(schema_key(q.t), <<new>>), w.overlay)
         /\ \A j : read_key(y, j) = IF j = schema_key(q.t) THEN <<new>> ELSE read_key(w, j)
    BY <2>9, <2>14, WriteKey
  <2>17. read_key(x, tableid_key(q.t)) # <<>> /\ read_key(x, schema_key(q.t)) # <<>>
    BY <2>9 DEF Known, Exists
  <2>18. Numbered(y)
    BY NewIndexNumbered
  <2>19. ASSUME NEW k, MustGuard(y, k) PROVE FALSE
    <3>1. k \in DOMAIN y.overlay /\ k[1] = "index" /\ Enforced(x.snap, k[2], k[3])
      BY <2>14, <2>15, <2>19 DEF MustGuard
    <3>2. DOMAIN y.overlay = {schema_key(q.t)} \cup ks
      BY <2>13, <2>14, <2>15 DEF Over, Single
    <3>3. k \in ks
      BY <3>1, <3>2 DEF schema_key
    <3>4. Enforced(x.snap, id, q.i)
      BY <2>12, <3>1, <3>3
    <3>5. /\ tableid_key(q.t) \in DOMAIN x.snap /\ read_key(x, tableid_key(q.t)) = <<x.snap[tableid_key(q.t)]>>
          /\ schema_key(q.t) \in DOMAIN x.snap /\ read_key(x, schema_key(q.t)) = <<x.snap[schema_key(q.t)]>>
      BY <2>17 DEF read_key
    <3>6. id = x.snap[tableid_key(q.t)] /\ s = x.snap[schema_key(q.t)]
      BY <2>1, <2>4, <3>5 DEF table_id, read_schema
    <3>7. Numbered(View(x.snap))
      <4>1. \A j : read_key(View(x.snap), j) = read_key(x, j)
        BY ReadsSnapshot
      <4> QED BY <4>1 DEF Numbered, table_id
    <3>8. StoreOK(x.snap)
      BY DEF TxnOK
    <3>9. \E d \in x.snap[schema_key(q.t)].indexes : d.name = q.i
      BY <3>4, <3>5, <3>6, <3>7, <3>8, EnforcedTable
    <3> QED BY <2>9, <3>6, <3>9
  <2> QED BY <2>14, <2>15, <2>18, <2>19 DEF EntriesGuarded
<1> QED BY <1>2, <1>3

\* The first statement of a transaction, when it is DDL.
LEMMA DdlGuarded ==
    ASSUME NEW x, TxnOK(x), DOMAIN x.overlay = {}, Numbered(x), NEW q, StatementOK(q),
           q.op \notin {"append", "insert", "update", "delete"}, NEW y, y = Execute(x, q)
    PROVE  Numbered(y) /\ EntriesGuarded(y) /\ y.snap = x.snap
<1>1. CASE q.op = "create_index"
  BY <1>1, NewIndexUnguarded DEF Execute
<1>2. CASE q.op # "create_index"
  <2>1. IsTxn(x) /\ NoEntries(x.overlay)
    BY DEF TxnOK, IsTxn, NoEntries
  <2>2. \/ q.op = "create_table" /\ y = create_table(x, q)
        \/ q.op = "drop_table" /\ y = delete_schema(x, q.t)
        \/ q.op = "drop_index" /\ y = drop_index(x, q.t, q.i)
        \/ q.op = "add_column" /\ y = add_column(x, q)
        \/ q.op = "drop_column" /\ y = drop_column(x, q)
        \/ q.op = "rename_column" /\ y = rename_column(x, q)
        \/ q.op = "rename_table" /\ y = rename_schema(x, q.t, q.to)
        \/ q.op \in {"view", "select"} /\ y = x
    BY <1>2 DEF Execute, StatementOK
  <2>3. Tidy(x, y)
    BY <2>1, <2>2, TidyColumns, TidyTableDropped, TidyTableRenamed, TidyFail
  <2> QED BY <2>1, <2>3 DEF Tidy, NoEntries, EntriesGuarded, MustGuard
<1> QED BY <1>1, <1>2

-----------------------------------------------------------------------------
(* 5. UPDATE and DELETE: the rows written one by one, as a fold.           *)

First(s) == CHOOSE pk \in s : TRUE

Rest(s) == s \ {First(s)}

\* The transaction after the rows s, when g gives it after fewer.
After(g, x, q, s) ==
    IF s = {} THEN x ELSE WriteRow(g[Rest(s)], q, read_schema(x, q.t).cols, collect_rows(x, q.t), First(s))

\* g is the function FoldSet defines over the subsets of S.
IsFold(g, x, q, S) == g = [s \in SUBSET S |-> After(g, x, q, s)]

LEMMA WriteRowsIsFold ==
    ASSUME NEW x, NEW q, NEW S, S = Matching(x, q)
    PROVE  WriteRows(x, q) = (CHOOSE g : IsFold(g, x, q, S))[S]
BY DEF WriteRows, FoldSet, MapThenFoldSet, IsFold, After, First, Rest

LEMMA RestSmaller ==
    ASSUME NEW s, IsFiniteSet(s), s # {}
    PROVE  /\ First(s) \in s /\ Rest(s) \subseteq s /\ IsFiniteSet(Rest(s))
           /\ Cardinality(s) \in Nat \ {0} /\ Cardinality(Rest(s)) = Cardinality(s) - 1
<1>1. First(s) \in s
  BY DEF First
<1>2. Cardinality(s) \in Nat /\ Cardinality(s) # 0
  BY FS_CardinalityType, FS_EmptySet
<1>3. IsFiniteSet(Rest(s)) /\ Cardinality(Rest(s)) = Cardinality(s) - 1
  BY <1>1, FS_RemoveElement DEF Rest
<1> QED BY <1>1, <1>2, <1>3 DEF Rest

UpTo(S, n) == {s \in SUBSET S : Cardinality(s) <= n}

\* The fold, as far as the subsets of n elements.
FoldUpTo(g, x, q, S, n) ==
    /\ DOMAIN g = UpTo(S, n)
    /\ \A s \in UpTo(S, n) : g[s] = After(g, x, q, s)

LEMMA FoldStarts ==
    ASSUME NEW x, NEW q, NEW S, IsFiniteSet(S)
    PROVE  \E g : FoldUpTo(g, x, q, S, 0)
<1> DEFINE g == [s \in UpTo(S, 0) |-> x]
<1>1. ASSUME NEW s \in UpTo(S, 0) PROVE s = {}
  <2>1. s \in SUBSET S /\ Cardinality(s) <= 0
    BY DEF UpTo
  <2>2. IsFiniteSet(s)
    BY <2>1, FS_Subset
  <2>3. Cardinality(s) \in Nat
    BY <2>2, FS_CardinalityType
  <2> QED BY <2>1, <2>2, <2>3, FS_EmptySet
<1>2. FoldUpTo(g, x, q, S, 0)
  BY <1>1 DEF FoldUpTo, After
<1> QED BY <1>2

LEMMA FoldGoesOn ==
    ASSUME NEW x, NEW q, NEW S, IsFiniteSet(S), NEW n \in Nat, NEW g, FoldUpTo(g, x, q, S, n)
    PROVE  \E h : FoldUpTo(h, x, q, S, n + 1)
<1>1. PICK h : h = [s \in UpTo(S, n + 1) |-> After(g, x, q, s)]
  OBVIOUS
<1>2. DOMAIN h = UpTo(S, n + 1)
  BY <1>1
<1>3. ASSUME NEW s \in UpTo(S, n + 1) PROVE h[s] = After(h, x, q, s)
  <2>1. h[s] = After(g, x, q, s)
    BY <1>1
  <2>2. CASE s = {}
    BY <2>1, <2>2 DEF After
  <2>3. CASE s # {}
    <3>1. s \in SUBSET S /\ Cardinality(s) <= n + 1
      BY DEF UpTo
    <3>2. IsFiniteSet(s)
      BY <3>1, FS_Subset
    <3>3. /\ Rest(s) \subseteq s /\ Cardinality(s) \in Nat \ {0}
          /\ Cardinality(Rest(s)) = Cardinality(s) - 1
      BY <2>3, <3>2, RestSmaller
    <3>4. Cardinality(Rest(s)) <= n /\ Cardinality(Rest(s)) <= n + 1
      BY <3>1, <3>3
    <3>5. Rest(s) \in UpTo(S, n) /\ Rest(s) \in UpTo(S, n + 1)
      BY <3>1, <3>3, <3>4 DEF UpTo
    <3>6. h[Rest(s)] = g[Rest(s)]
      BY <1>1, <3>5 DEF FoldUpTo
    <3> QED BY <2>1, <3>6 DEF After
  <2> QED BY <2>2, <2>3
<1>4. FoldUpTo(h, x, q, S, n + 1)
  BY <1>2, <1>3 DEF FoldUpTo
<1> QED BY <1>4

LEMMA FoldReaches ==
    ASSUME NEW x, NEW q, NEW S, IsFiniteSet(S), NEW n \in Nat
    PROVE  \E g : FoldUpTo(g, x, q, S, n)
<1> DEFINE T == {k \in Nat : ~\E g : FoldUpTo(g, x, q, S, k)}
<1>1. CASE T = {}
  BY <1>1
<1>2. CASE T # {}
  <2>1. T \subseteq Nat
    OBVIOUS
  <2> HIDE DEF T
  <2>2. PICK k \in T : \A m \in T : k <= m
    BY <1>2, <2>1, LeastNatural
  <2>3. k \in Nat /\ ~\E g : FoldUpTo(g, x, q, S, k)
    BY <2>2 DEF T
  <2>4. k # 0
    BY <2>3, FoldStarts
  <2>5. k - 1 \in Nat /\ ~(k <= k - 1) /\ (k - 1) + 1 = k
    BY <2>3, <2>4
  <2>6. k - 1 \notin T
    BY <2>2, <2>5
  <2>7. PICK g : FoldUpTo(g, x, q, S, k - 1)
    BY <2>5, <2>6 DEF T
  <2>8. \E h : FoldUpTo(h, x, q, S, (k - 1) + 1)
    BY <2>5, <2>7, FoldGoesOn
  <2> QED BY <2>3, <2>5, <2>8
<1> QED BY <1>1, <1>2

LEMMA FoldExists ==
    ASSUME NEW x, NEW q, NEW S, IsFiniteSet(S)
    PROVE  \E g : IsFold(g, x, q, S)
<1>1. Cardinality(S) \in Nat
  BY FS_CardinalityType
<1>2. UpTo(S, Cardinality(S)) = SUBSET S
  BY FS_Subset DEF UpTo
<1>3. PICK g : FoldUpTo(g, x, q, S, Cardinality(S))
  BY <1>1, FoldReaches
<1>4. PICK h : h = [s \in SUBSET S |-> g[s]]
  OBVIOUS
<1>5. ASSUME NEW s \in SUBSET S PROVE h[s] = After(h, x, q, s)
  <2>1. h[s] = After(g, x, q, s)
    BY <1>2, <1>3, <1>4 DEF FoldUpTo
  <2>2. Rest(s) \in SUBSET S
    BY DEF Rest
  <2>3. h[Rest(s)] = g[Rest(s)]
    BY <1>4, <2>2
  <2> QED BY <2>1, <2>3 DEF After
<1>6. h = [s \in SUBSET S |-> After(h, x, q, s)]
  BY <1>4, <1>5
<1> QED BY <1>6 DEF IsFold

\* Writing one of the fetched rows.
LEMMA OneRowWritten ==
    ASSUME NEW y, TxnOK(y), NEW q, StatementOK(q), q.op \in {"update", "delete"}, Known(y, q.t),
           NEW cols, NEW fetched, NEW pk \in q.pks, RowOK(fetched[pk]),
           row_key(table_id(y, q.t), pk) \in DOMAIN y.overlay \cup DOMAIN y.snap,
           NEW z, z = WriteRow(y, q, cols, fetched, pk)
    PROVE  TxnOK(z) /\ SameCatalog(y, z) /\ Moves(y, z) /\ Guards(y, z)
<1>2. CASE y.failed
  BY <1>2, MovesAside, GuardsSame DEF WriteRow, SameCatalog
<1>3. CASE ~ y.failed /\ q.op = "delete"
  <2>1. z = delete_data(y, q.t, pk)
    BY <1>3 DEF WriteRow
  <2> QED BY <2>1, DataDeleted
<1>4. CASE ~ y.failed /\ q.op # "delete"
  <2>1. PICK row : row = [fetched[pk] EXCEPT ![Position(cols, q.col)] = q.v]
    OBVIOUS
  <2>2. z = insert_data(y, q.t, pk, row)
    BY <1>4, <2>1 DEF WriteRow
  <2>3. q.v \in Int /\ pk \in Int
    BY <1>4 DEF StatementOK
  <2>4. RowOK(row)
    BY <2>1, <2>3 DEF RowOK
  <2> QED BY <2>2, <2>3, <2>4, DataInserted
<1> QED BY <1>2, <1>3, <1>4

LEMMA RowsWritten ==
    ASSUME NEW x, TxnOK(x), NEW q, StatementOK(q), q.op \in {"update", "delete"}, Known(x, q.t)
    PROVE  TxnOK(WriteRows(x, q)) /\ Moves(x, WriteRows(x, q)) /\ Guards(x, WriteRows(x, q))
<1>1. PICK S : S = Matching(x, q)
  OBVIOUS
<1>2. S \subseteq q.pks /\ IsFiniteSet(q.pks) /\ S \subseteq DOMAIN collect_rows(x, q.t)
  BY <1>1 DEF Matching, StatementOK
<1>3. IsFiniteSet(S)
  BY <1>2, FS_Subset
<1>4. PICK g : g = CHOOSE h : IsFold(h, x, q, S)
  OBVIOUS
<1>5. IsFold(g, x, q, S)
  BY <1>3, <1>4, FoldExists
<1> DEFINE Sound(s) == TxnOK(g[s]) /\ SameCatalog(x, g[s]) /\ Moves(x, g[s]) /\ Guards(x, g[s])
           T == {Cardinality(s) : s \in {r \in SUBSET S : ~ Sound(r)}}
<1>6. ASSUME NEW s \in SUBSET S PROVE IsFiniteSet(s) /\ Cardinality(s) \in Nat
  BY <1>3, FS_Subset, FS_CardinalityType
<1>7. T \subseteq Nat
  BY <1>6
<1>8. CASE T # {}
  <2>1. PICK s \in SUBSET S : ~ Sound(s) /\ \A r \in SUBSET S : ~ Sound(r) => Cardinality(s) <= Cardinality(r)
    <3>1. PICK n \in T : \A y \in T : n <= y
      <4> HIDE DEF T
      <4> QED BY <1>7, <1>8, LeastNatural
    <3> QED BY <3>1
  <2>2. g[s] = After(g, x, q, s)
    BY <1>5 DEF IsFold
  <2>3. CASE s = {}
    BY <2>1, <2>2, <2>3, MovesAside, GuardsSame DEF After, SameCatalog
  <2>4. CASE s # {}
    <3>1. /\ First(s) \in s /\ Rest(s) \in SUBSET S
          /\ Cardinality(s) \in Nat \ {0} /\ Cardinality(Rest(s)) = Cardinality(s) - 1
      BY <1>6, <2>4, RestSmaller
    <3>2. ~(Cardinality(s) <= Cardinality(Rest(s)))
      BY <3>1
    <3>3. Sound(Rest(s))
      BY <2>1, <3>1, <3>2
    <3>4. PICK pk : pk = First(s)
      OBVIOUS
    <3>5. pk \in q.pks /\ pk \in DOMAIN collect_rows(x, q.t)
      BY <1>2, <3>1, <3>4
    <3>6. PICK fetched : fetched = collect_rows(x, q.t)
      OBVIOUS
    <3>7. RowOK(fetched[pk])
      BY <3>5, <3>6, FetchedOK
    <3>8. PICK y : y = g[Rest(s)]
      OBVIOUS
    <3>9. g[s] = WriteRow(y, q, read_schema(x, q.t).cols, fetched, pk)
      BY <2>2, <2>4, <3>4, <3>6, <3>8 DEF After
    <3>10. Known(y, q.t) /\ row_key(table_id(y, q.t), pk) \in DOMAIN y.overlay \cup DOMAIN y.snap
      <4>1. table_id(y, q.t) = table_id(x, q.t)
        BY <3>3, <3>8 DEF SameCatalog, table_id
      <4>2. row_key(table_id(x, q.t), pk) \in DOMAIN x.overlay \cup DOMAIN x.snap
        BY <3>5, FetchedRow
      <4> QED BY <3>3, <3>8, <4>1, <4>2, KnownKept DEF Moves
    <3>11. TxnOK(g[s]) /\ SameCatalog(y, g[s]) /\ Moves(y, g[s]) /\ Guards(y, g[s])
      BY <3>3, <3>5, <3>7, <3>8, <3>9, <3>10, OneRowWritten
    <3>12. Sound(s)
      BY <3>3, <3>8, <3>11, CatalogTwice, MovesTwice, GuardsTwice
    <3> QED BY <2>1, <3>12
  <2> QED BY <2>3, <2>4
<1>9. CASE T = {}
  BY <1>1, <1>4, <1>9, WriteRowsIsFold
<1> QED BY <1>8, <1>9

-----------------------------------------------------------------------------
(* 6. A whole statement, what is prepared, and the store it starts from.   *)

LEMMA StatementRow ==
    ASSUME NEW q, StatementOK(q), q.op \in {"append", "insert"}
    PROVE  RowOK(q.row)
<1>1. q.row \in Seq(Int)
  BY DEF StatementOK
<1> QED BY <1>1 DEF RowOK

LEMMA RowsChanged ==
    ASSUME NEW x, TxnOK(x), NEW q, StatementOK(q), Known(x, q.t),
           q.op \in {"append", "insert", "update", "delete"}
    PROVE  /\ TxnOK(ChangeRows(x, q)) /\ (q.op # "append" => Moves(x, ChangeRows(x, q)))
           /\ Guards(x, ChangeRows(x, q))
<1>1. CASE q.op = "append"
  <2>1. ChangeRows(x, q) = Fail(x) \/ ChangeRows(x, q) = append_data(x, q.t, q.row)
    BY <1>1 DEF ChangeRows
  <2> QED BY <1>1, <2>1, FailedKeeps, DataAppended, StatementRow
<1>2. CASE q.op = "insert"
  <2>1. ChangeRows(x, q) = Fail(x) \/ ChangeRows(x, q) = insert_data(x, q.t, q.pk, q.row)
    BY <1>2 DEF ChangeRows
  <2>2. RowOK(q.row) /\ q.pk \in Int
    BY <1>2, StatementRow DEF StatementOK
  <2>3. TxnOK(insert_data(x, q.t, q.pk, q.row)) /\ Moves(x, insert_data(x, q.t, q.pk, q.row))
        /\ Guards(x, insert_data(x, q.t, q.pk, q.row))
    BY <2>2, DataInserted
  <2> QED BY <2>1, <2>3, FailedKeeps
<1>3. CASE q.op \in {"update", "delete"}
  <2>1. ChangeRows(x, q) = Fail(x) \/ ChangeRows(x, q) = WriteRows(x, q)
    BY <1>3 DEF ChangeRows
  <2> QED BY <1>3, <2>1, FailedKeeps, RowsWritten
<1> QED BY <1>1, <1>2, <1>3

LEMMA Executed ==
    ASSUME NEW x, TxnOK(x), NEW q, StatementOK(q)
    PROVE  TxnOK(Execute(x, q)) /\ (q.op # "append" => Moves(x, Execute(x, q)))
<1>1. CASE q.op = "create_table"
  BY <1>1, TableCreated DEF Execute
<1>2. CASE q.op = "drop_table"
  BY <1>2, SchemaDeleted DEF Execute
<1>3. CASE q.op = "create_index"
  BY <1>3, IndexCreated DEF Execute, StatementOK
<1>4. CASE q.op = "drop_index"
  BY <1>4, IndexDropped DEF Execute
<1>5. CASE q.op = "add_column"
  BY <1>5, ColumnAdded DEF Execute, StatementOK
<1>6. CASE q.op = "drop_column"
  BY <1>6, ColumnDropped DEF Execute
<1>7. CASE q.op = "rename_column"
  BY <1>7, ColumnRenamed DEF Execute
<1>8. CASE q.op = "rename_table"
  BY <1>8, TableRenamed DEF Execute
<1>9. CASE q.op \in {"view", "select"}
  BY <1>9, MovesAside DEF Execute
<1>10. CASE q.op \in {"append", "insert", "update", "delete"}
  <2>1. Execute(x, q) = IF Known(x, q.t) THEN ChangeRows(x, q) ELSE Fail(x)
    BY <1>10 DEF Execute
  <2> QED BY <1>10, <2>1, FailedOK, RowsChanged
<1> QED BY <1>1, <1>2, <1>3, <1>4, <1>5, <1>6, <1>7, <1>8, <1>9, <1>10 DEF StatementOK

\* Statements that change no schema keep a transaction guarded.
LEMMA DmlGuarded ==
    ASSUME NEW x, TxnOK(x), NEW q, StatementOK(q), ~ IsDDL(q), NEW y, y = Execute(x, q)
    PROVE  Guards(x, y)
<1>1. CASE q.op = "select"
  BY <1>1, GuardsSame DEF Execute
<1>2. CASE q.op \in {"append", "insert", "update", "delete"}
  <2>1. y = IF Known(x, q.t) THEN ChangeRows(x, q) ELSE Fail(x)
    BY <1>2 DEF Execute
  <2> QED BY <1>2, <2>1, FailedKeeps, RowsChanged
<1> QED BY <1>1, <1>2 DEF IsDDL

\* Two transactions that read the same schemas and ids.
LEMMA NumberedSame ==
    ASSUME NEW x, Numbered(x), NEW y,
           \A k : k[1] \in {"schema", "tableid", "tableid_seq"} =>
                     /\ read_key(y, k) = <<>> <=> read_key(x, k) = <<>>
                     /\ read_key(x, k) # <<>> => read_key(y, k)[1] = read_key(x, k)[1]
    PROVE  Numbered(y)
<1>1. (\A t : schema_key(t)[1] = "schema" /\ tableid_key(t)[1] = "tableid") /\ tableid_seq_key[1] = "tableid_seq"
  BY DEF schema_key, tableid_key, tableid_seq_key
<1>2. \A t : /\ read_key(y, schema_key(t)) = <<>> <=> read_key(x, schema_key(t)) = <<>>
             /\ read_key(y, tableid_key(t)) = <<>> <=> read_key(x, tableid_key(t)) = <<>>
             /\ read_key(x, tableid_key(t)) # <<>> => table_id(y, t) = table_id(x, t)
  BY <1>1 DEF table_id
<1>3. /\ read_key(y, tableid_seq_key) = <<>> <=> read_key(x, tableid_seq_key) = <<>>
      /\ read_key(x, tableid_seq_key) # <<>> => read_key(y, tableid_seq_key)[1] = read_key(x, tableid_seq_key)[1]
  BY <1>1
<1> QED BY <1>2, <1>3 DEF Numbered

LEMMA GuardedNumbered ==
    ASSUME NEW x, Guarded(x)
    PROVE  Numbered(x)
<1>1. \A k : k[1] \in {"schema", "tableid", "tableid_seq"} => read_key(x, k) = read_key(View(x.snap), k)
  BY ReadsSnapshot DEF Guarded, RowsOnly
<1> QED BY <1>1, NumberedSame DEF Guarded

LEMMA FreshGuarded ==
    ASSUME NEW x, DOMAIN x.overlay = {}, Numbered(x)
    PROVE  Guarded(x)
<1>1. \A k : read_key(x, k) = read_key(View(x.snap), k)
  BY ReadsSnapshot
<1>2. Numbered(View(x.snap))
  BY <1>1, NumberedSame
<1> QED BY <1>2 DEF Guarded, RowsOnly, EntriesGuarded, MustGuard

\* What a statement leaves, when it is the first or changes no schema.
LEMMA ExecutedGuarded ==
    ASSUME NEW x, TxnOK(x), NEW q, StatementOK(q), NEW y, y = Execute(x, q),
           (DOMAIN x.overlay = {} /\ Numbered(x)) \/ (~ IsDDL(q) /\ Guarded(x))
    PROVE  Numbered(y) /\ EntriesGuarded(y) /\ y.snap = x.snap /\ (~ IsDDL(q) => RowsOnly(y.overlay))
<1>1. CASE ~ IsDDL(q)
  <2>1. Guarded(x) /\ Guards(x, y)
    BY <1>1, FreshGuarded, DmlGuarded
  <2>2. Guarded(y) /\ y.snap = x.snap
    BY <2>1 DEF Guards
  <2> QED BY <2>2, GuardedNumbered DEF Guarded
<1>2. CASE IsDDL(q)
  BY <1>2, DdlGuarded DEF IsDDL
<1> QED BY <1>1, <1>2

\* A committed overlay, on a store with the tables of the snapshot.
SameTables(f, g) ==
    \A k : k[1] \in {"schema", "tableid", "tableid_seq", "uniqueidx"} =>
              (k \in DOMAIN f <=> k \in DOMAIN g) /\ (k \in DOMAIN f => f[k] = g[k])

SameIds(f, g) ==
    \A k : k[1] \in {"schema", "tableid", "tableid_seq"} =>
              (k \in DOMAIN f <=> k \in DOMAIN g) /\ (k \in DOMAIN f => f[k] = g[k])

LEMMA CommitNumbered ==
    ASSUME NEW s, NEW x, SameIds(x.snap, s), Numbered(x)
    PROVE  Numbered(View(merge_sorted(s, x.overlay)))
<1>1. PICK m : m = merge_sorted(s, x.overlay)
  OBVIOUS
<1>2. ASSUME NEW k, k[1] \in {"schema", "tableid", "tableid_seq"}
      PROVE  /\ read_key(View(m), k) = <<>> <=> read_key(x, k) = <<>>
             /\ read_key(x, k) # <<>> => read_key(View(m), k)[1] = read_key(x, k)[1]
  <2>1. read_key(View(m), k) = IF k \in DOMAIN m THEN <<m[k]>> ELSE <<>>
    BY ViewReads
  <2>2. CASE k \in DOMAIN x.overlay
    <3>1. (k \in DOMAIN m <=> x.overlay[k] # <<>>) /\ (k \in DOMAIN m => m[k] = x.overlay[k][1])
      BY <1>1, <2>2 DEF merge_sorted
    <3> QED BY <2>1, <2>2, <3>1 DEF read_key
  <2>3. CASE k \notin DOMAIN x.overlay
    <3>1. (k \in DOMAIN m <=> k \in DOMAIN s) /\ (k \in DOMAIN m => m[k] = s[k])
      BY <1>1, <2>3 DEF merge_sorted
    <3>2. (k \in DOMAIN x.snap <=> k \in DOMAIN s) /\ (k \in DOMAIN s => x.snap[k] = s[k])
      BY <1>2 DEF SameIds
    <3> QED BY <2>1, <2>3, <3>1, <3>2 DEF read_key
  <2> QED BY <2>2, <2>3
<1> QED BY <1>1, <1>2, NumberedSame

\* What is written outside any transaction: views and registries.
Registry(f) == \A k \in DOMAIN f : k[1] \in {"views", "jsoncat", "pkcat", "uniqueidx"}

LEMMA RegistryApplied ==
    ASSUME NEW s, NEW q
    PROVE  Registry(apply(s, q))
<1>1. CASE q.op = "create_table"
  BY <1>1 DEF apply, Registry, Over, Single, jsoncat_key, pkcat_key
<1>2. CASE q.op = "create_index" /\ q.unique
  BY <1>2 DEF apply, Registry, Single, uniqueidx_key
<1>3. CASE q.op # "create_table" /\ ~(q.op = "create_index" /\ q.unique)
  BY <1>3 DEF apply, Registry
<1> QED BY <1>1, <1>2, <1>3

LEMMA Prepared ==
    ASSUME NEW s, NEW r
    PROVE  Registry(prepare(s, r))
<1>1. PICK views : views = view_rewrite(s, r)
  OBVIOUS
<1>2. Registry(views)
  <2>1. PICK done : done = rewritten_views(s, r)
    OBVIOUS
  <2>2. views = IF done.touched THEN Single(views_key, done.views) ELSE <<>>
    BY <1>1, <2>1 DEF view_rewrite
  <2> QED BY <2>2 DEF Registry, Single, views_key
<1>3. DOMAIN prepare(s, r) = DOMAIN views \cup UNION {DOMAIN apply(s, r.stmts[n]) : n \in DOMAIN r.stmts}
  BY <1>1 DEF prepare
<1> QED BY <1>2, <1>3, RegistryApplied DEF Registry

LEMMA Registered ==
    ASSUME NEW s, StoreOK(s), NEW f, Registry(f)
    PROVE  StoreOK(Over(f, s))
BY DEF StoreOK, Over, Registry, RecordOK

\* Registries number no table.
LEMMA RegisteredNumbered ==
    ASSUME NEW s, Numbered(View(s)), NEW f, Registry(f)
    PROVE  Numbered(View(Over(f, s)))
<1>1. PICK m : m = Over(f, s)
  OBVIOUS
<1>2. ASSUME NEW k, k[1] \in {"schema", "tableid", "tableid_seq"} PROVE read_key(View(m), k) = read_key(View(s), k)
  <2>1. k \notin DOMAIN f
    BY <1>2 DEF Registry
  <2>2. (k \in DOMAIN m <=> k \in DOMAIN s) /\ (k \in DOMAIN m => m[k] = s[k])
    BY <1>1, <2>1 DEF Over
  <2> QED BY <2>2, ViewReads
<1> QED BY <1>1, <1>2, NumberedSame

LEMMA TxnBegins ==
    ASSUME NEW s, StoreOK(s), NEW n
    PROVE  TxnOK(NewTxn(s, n)) /\ LockKeys(NewTxn(s, n)) = {}
<1>1. PICK x : x = NewTxn(s, n)
  OBVIOUS
<1>2. x = [snap |-> s, overlay |-> <<>>, uniq |-> {}, uniqIdx |-> {}, changes |-> {}, seq |-> n, failed |-> FALSE]
  BY <1>1 DEF NewTxn, NoTxn
<1>3. /\ x.snap = s /\ x.overlay = <<>> /\ x.uniq = {} /\ x.uniqIdx = {} /\ x.changes = {} /\ x.seq = n
      /\ x.failed = FALSE
  BY <1>2
<1> QED BY <1>1, <1>2, <1>3 DEF TxnOK, WritesOK, LockKeys

LEMMA NoTxnOK == TxnOK(NoTxn) /\ LockKeys(NoTxn) = {}
<1>1. PICK x : x = NoTxn
  OBVIOUS
<1>2. x = [snap |-> <<>>, overlay |-> <<>>, uniq |-> {}, uniqIdx |-> {}, changes |-> {}, seq |-> <<>>, failed |-> FALSE]
  BY <1>1 DEF NoTxn
<1>3. /\ x.snap = <<>> /\ x.overlay = <<>> /\ x.uniq = {} /\ x.uniqIdx = {} /\ x.changes = {} /\ x.seq = <<>>
      /\ x.failed = FALSE
  BY <1>2
<1> QED BY <1>1, <1>2, <1>3 DEF TxnOK, StoreOK, WritesOK, LockKeys

LEMMA SetUpOK ==
    ASSUME NEW s, StoreOK(s), NEW q, StatementOK(q)
    PROVE  StoreOK(SetUp(s, q)) /\ (Numbered(View(s)) => Numbered(View(SetUp(s, q))))
<1>1. PICK r : r = [mode |-> "auto", stmts |-> <<q>>]
  OBVIOUS
<1>2. PICK known : known = Over(prepare(s, r), s)
  OBVIOUS
<1>3. StoreOK(known)
  BY <1>2, Prepared, Registered
<1>4. TxnOK(Execute(NewTxn(known, <<>>), q))
  BY <1>3, TxnBegins, Executed
<1>5. SetUp(s, q) = merge_sorted(known, Execute(NewTxn(known, <<>>), q).overlay)
  BY <1>1, <1>2 DEF SetUp
<1>6. ASSUME Numbered(View(s)) PROVE Numbered(View(SetUp(s, q)))
  <2>1. PICK x : x = NewTxn(known, <<>>)
    OBVIOUS
  <2>2. PICK y : y = Execute(x, q)
    OBVIOUS
  <2>3. TxnOK(x) /\ x.snap = known /\ DOMAIN x.overlay = {} /\ x = View(known)
    <3>1. x = [snap |-> known, overlay |-> <<>>, uniq |-> {}, uniqIdx |-> {}, changes |-> {}, seq |-> <<>>, failed |-> FALSE]
      BY <2>1 DEF NewTxn, NoTxn
    <3>2. x.snap = known /\ x.overlay = <<>>
      BY <3>1
    <3> QED BY <1>3, <2>1, <3>2, TxnBegins DEF View
  <2>4. Numbered(x)
    BY <1>2, <1>6, <2>3, Prepared, RegisteredNumbered
  <2>5. Numbered(y) /\ y.snap = x.snap
    BY <2>2, <2>3, <2>4, ExecutedGuarded
  <2>6. SameIds(y.snap, known)
    BY <2>3, <2>5 DEF SameIds
  <2> QED BY <1>5, <2>1, <2>2, <2>5, <2>6, CommitNumbered
<1> QED BY <1>3, <1>4, <1>5, <1>6, MergedOK DEF TxnOK

\* The stores of the first n statements of the setup, one after the other.
NextStore(f, m) == IF m = 0 THEN <<>> ELSE SetUp(f[m - 1], Setup[m])

StoresUpTo(f, n) == DOMAIN f = 0..n /\ \A m \in 0..n : f[m] = NextStore(f, m)

LEMMA StoresGoOn ==
    ASSUME NEW n \in Nat, NEW f, StoresUpTo(f, n)
    PROVE  \E g : StoresUpTo(g, n + 1)
<1>1. PICK g : g = [m \in 0..(n + 1) |-> NextStore(f, m)]
  OBVIOUS
<1>2. ASSUME NEW m \in 0..(n + 1) PROVE g[m] = NextStore(g, m)
  <2>1. CASE m = 0
    BY <1>1, <2>1 DEF NextStore
  <2>2. CASE m # 0
    <3>1. m - 1 \in 0..n /\ m - 1 \in 0..(n + 1)
      BY <2>2
    <3>2. g[m - 1] = f[m - 1]
      BY <1>1, <3>1 DEF StoresUpTo
    <3> QED BY <1>1, <3>2 DEF NextStore
  <2> QED BY <2>1, <2>2
<1>3. DOMAIN g = 0..(n + 1)
  BY <1>1
<1> QED BY <1>2, <1>3 DEF StoresUpTo

LEMMA StoresReach ==
    ASSUME NEW n \in Nat
    PROVE  \E f : StoresUpTo(f, n)
<1> DEFINE T == {k \in Nat : ~\E f : StoresUpTo(f, k)}
<1>1. CASE T = {}
  BY <1>1
<1>2. CASE T # {}
  <2>1. T \subseteq Nat
    OBVIOUS
  <2> HIDE DEF T
  <2>2. PICK k \in T : \A m \in T : k <= m
    BY <1>2, <2>1, LeastNatural
  <2>3. k \in Nat /\ ~\E f : StoresUpTo(f, k)
    BY <2>2 DEF T
  <2>4. CASE k = 0
    <3>1. PICK f : f = [m \in 0..0 |-> <<>>]
      OBVIOUS
    <3>2. StoresUpTo(f, 0)
      BY <3>1 DEF StoresUpTo, NextStore
    <3> QED BY <2>3, <2>4, <3>2
  <2>5. CASE k # 0
    <3>1. k - 1 \in Nat /\ ~(k <= k - 1) /\ (k - 1) + 1 = k
      BY <2>3, <2>5
    <3>2. PICK f : StoresUpTo(f, k - 1)
      BY <2>2, <3>1 DEF T
    <3>3. \E g : StoresUpTo(g, (k - 1) + 1)
      BY <3>1, <3>2, StoresGoOn
    <3> QED BY <2>3, <3>1, <3>3
  <2> QED BY <2>4, <2>5
<1> QED BY <1>1, <1>2

LEMMA SetupStores ==
    \E n, f : n = Len(Setup) /\ SetupStore = f[n] /\ \A m \in 0..n : f[m] = NextStore(f, m)
<1>1. PICK n : n = Len(Setup)
  OBVIOUS
<1>2. n \in Nat
  BY <1>1, SqlAssumption
<1>3. PICK f : f = CHOOSE g : g = [m \in 0..n |-> NextStore(g, m)]
  OBVIOUS
<1>4. SetupStore = f[n]
  BY <1>1, <1>3 DEF SetupStore, NextStore
<1>5. f = [m \in 0..n |-> NextStore(f, m)]
  <2>1. PICK g : StoresUpTo(g, n)
    BY <1>2, StoresReach
  <2>2. PICK h : h = [m \in 0..n |-> g[m]]
    OBVIOUS
  <2>3. ASSUME NEW m \in 0..n PROVE g[m] = NextStore(h, m)
    <3>1. g[m] = NextStore(g, m)
      BY <2>1 DEF StoresUpTo
    <3>2. CASE m = 0
      BY <3>1, <3>2 DEF NextStore
    <3>3. CASE m # 0
      <4>1. m - 1 \in 0..n
        BY <1>2, <3>3
      <4>2. h[m - 1] = g[m - 1]
        BY <2>2, <4>1
      <4> QED BY <3>1, <4>2 DEF NextStore
    <3> QED BY <3>2, <3>3
  <2>4. h = [m \in 0..n |-> NextStore(h, m)]
    BY <2>2, <2>3
  <2> QED BY <1>3, <2>4
<1>6. \A m \in 0..n : f[m] = NextStore(f, m)
  BY <1>5
<1> QED BY <1>1, <1>4, <1>6

LEMMA SetupStoreOK == StoreOK(SetupStore) /\ Numbered(View(SetupStore))
<1>1. PICK n, f : n = Len(Setup) /\ SetupStore = f[n] /\ \A m \in 0..n : f[m] = NextStore(f, m)
  BY SetupStores
<1>2. n \in Nat /\ \A m \in 1..n : StatementOK(Setup[m])
  <2>1. Setup \in Seq(Range(Setup)) /\ \A q \in Range(Setup) : StatementOK(q)
    BY SqlAssumption
  <2>2. n \in Nat /\ \A m \in 1..n : Setup[m] \in Range(Setup)
    BY <1>1, <2>1
  <2> QED BY <2>1, <2>2
<1> DEFINE T == {m \in 0..n : ~(StoreOK(f[m]) /\ Numbered(View(f[m])))}
<1>3. T \subseteq Nat
  BY <1>2
<1>4. CASE T # {}
  <2>1. PICK k \in T : \A m \in T : k <= m
    <3> HIDE DEF T
    <3> QED BY <1>3, <1>4, LeastNatural
  <2>2. k \in 0..n /\ ~(StoreOK(f[k]) /\ Numbered(View(f[k]))) /\ f[k] = NextStore(f, k)
    BY <1>1, <2>1
  <2>3. CASE k = 0
    <3>1. f[k] = <<>> /\ DOMAIN f[k] = {}
      BY <2>2, <2>3 DEF NextStore
    <3>2. \A j : read_key(View(f[k]), j) = <<>>
      BY <3>1, ViewReads
    <3> QED BY <2>2, <3>1, <3>2 DEF StoreOK, Numbered
  <2>4. CASE k # 0
    <3>1. k - 1 \in 0..n /\ ~(k <= k - 1) /\ k \in 1..n
      BY <1>2, <2>2, <2>4
    <3>2. StoreOK(f[k - 1]) /\ Numbered(View(f[k - 1]))
      BY <2>1, <3>1
    <3>3. StoreOK(SetUp(f[k - 1], Setup[k])) /\ Numbered(View(SetUp(f[k - 1], Setup[k])))
      BY <1>2, <3>1, <3>2, SetUpOK
    <3> QED BY <2>2, <2>4, <3>3 DEF NextStore
  <2> QED BY <2>3, <2>4
<1>5. CASE T = {}
  <2>1. n \in 0..n
    BY <1>2
  <2> QED BY <1>1, <1>5, <2>1
<1> QED BY <1>4, <1>5

-----------------------------------------------------------------------------
(* 7. The invariant: every store, transaction and registry copy is well     *)
(* formed, and what a committing request has still to lock comes after what *)
(* it holds.                                                                *)

Steps == {"idle", "prepare", "register", "registered", "begin", "snapshot", "run", "commit", "write", "flush", "report"}
LeaseSteps == {"snapshot", "run", "commit", "write", "flush", "report"}
LockSteps == {"commit", "write", "flush", "report"}
Statements == UNION {Range(r.stmts) : r \in Request}

StoreInv == StoreOK(db) /\ StoreOK(durable)
CountInv == commitSeq \in Nat /\ started \in 0..MaxRequests /\ crashes \in 0..MaxCrashes
LeaseInv ==
    /\ pc \in [Conn -> Steps]
    /\ lease \in Conn \cup {NoConn}
    /\ lease # NoConn => pc[lease] \in LeaseSteps
RequestInv ==
    /\ req = [c \in Conn |-> req[c]] /\ \A c \in Conn : req[c].stmts \in Seq(Statements)
    /\ reg = [c \in Conn |-> reg[c]] /\ \A c \in Conn : Registry(reg[c])
    /\ txn = [c \in Conn |-> txn[c]] /\ \A c \in Conn : TxnOK(txn[c])
LockInv ==
    /\ IsFiniteSet(DOMAIN locks)
    /\ \A k \in DOMAIN locks : LockKey(k) /\ locks[k] \in Conn /\ pc[locks[k]] \in LockSteps
    /\ \A c \in Conn : pc[c] = "commit" =>
          \A h \in Held(c) : \A j \in LockKeys(txn[c]) \ Held(c) : LockBefore(h, j)

SqlInv == StoreInv /\ CountInv /\ LeaseInv /\ RequestInv /\ LockInv

LEMMA SqlInvTypes ==
    ASSUME SqlInv
    PROVE  TypeOK
BY DEF SqlInv, CountInv, LeaseInv, LockInv, TypeOK, Steps, LeaseSteps, LockSteps

LEMMA RequestStatements ==
    ASSUME NEW r \in Request
    PROVE  r.stmts \in Seq(Statements)
<1>1. r.stmts \in Seq(Range(r.stmts))
  BY SqlAssumption
<1>2. Range(r.stmts) \subseteq Statements
  BY DEF Statements
<1> QED BY <1>1, <1>2

LEMMA StatementsOK ==
    ASSUME NEW q \in Statements
    PROVE  StatementOK(q)
BY SqlAssumption DEF Statements

LEMMA LockKeysOK ==
    ASSUME NEW x, TxnOK(x), NEW k \in LockKeys(x)
    PROVE  LockKey(k)
BY DEF TxnOK, LockKeys

\* The locks when a request moves on without touching them.
LEMMA LocksAside ==
    ASSUME SqlInv, NEW c \in Conn, NEW p \in Steps, pc' = [pc EXCEPT ![c] = p], locks' = locks,
           p \in LockSteps \ {"commit"} \/ Held(c) = {}, \A d \in Conn \ {c} : txn'[d] = txn[d]
    PROVE  LockInv'
<1>1. IsFiniteSet(DOMAIN locks')
  BY DEF SqlInv, LockInv
<1>2. pc'[c] = p /\ \A d \in Conn \ {c} : pc'[d] = pc[d]
  BY DEF SqlInv, LeaseInv
<1>3. ASSUME NEW k \in DOMAIN locks'
      PROVE  LockKey(k) /\ locks'[k] \in Conn /\ pc'[locks'[k]] \in LockSteps
  <2>1. k \in DOMAIN locks /\ LockKey(k) /\ locks[k] \in Conn /\ pc[locks[k]] \in LockSteps
    BY <1>3 DEF SqlInv, LockInv
  <2>2. CASE locks[k] = c
    BY <1>2, <2>1, <2>2 DEF Held
  <2> QED BY <1>2, <2>1, <2>2
<1>4. ASSUME NEW d \in Conn, pc'[d] = "commit", NEW h \in Held(d)', NEW j \in LockKeys(txn'[d]) \ Held(d)'
      PROVE  LockBefore(h, j)
  <2>1. Held(d)' = Held(d)
    BY DEF Held
  <2>2. d # c /\ pc[d] = "commit" /\ txn'[d] = txn[d]
    BY <1>2, <1>4, <2>1
  <2>3. h \in Held(d) /\ j \in LockKeys(txn[d]) \ Held(d)
    BY <1>4, <2>1, <2>2
  <2> QED BY <2>2, <2>3 DEF SqlInv, LockInv
<1> QED BY <1>1, <1>3, <1>4 DEF LockInv

\* The locks when a request gives its own back.
LEMMA LocksReleased ==
    ASSUME SqlInv, NEW c \in Conn, NEW p \in Steps, pc' = [pc EXCEPT ![c] = p],
           locks' = [k \in {j \in DOMAIN locks : locks[j] # c} |-> locks[k]],
           p # "commit", \A d \in Conn \ {c} : txn'[d] = txn[d]
    PROVE  LockInv'
<1>1. IsFiniteSet(DOMAIN locks')
  <2>1. DOMAIN locks' \subseteq DOMAIN locks
    OBVIOUS
  <2> QED BY <2>1, FS_Subset DEF SqlInv, LockInv
<1>2. pc'[c] = p /\ \A d \in Conn \ {c} : pc'[d] = pc[d]
  BY DEF SqlInv, LeaseInv
<1>3. ASSUME NEW k \in DOMAIN locks'
      PROVE  LockKey(k) /\ locks'[k] \in Conn /\ pc'[locks'[k]] \in LockSteps
  <2>1. k \in DOMAIN locks /\ locks[k] # c /\ locks'[k] = locks[k]
    BY <1>3
  <2>2. LockKey(k) /\ locks[k] \in Conn /\ pc[locks[k]] \in LockSteps
    BY <2>1 DEF SqlInv, LockInv
  <2> QED BY <1>2, <2>1, <2>2
<1>4. ASSUME NEW d \in Conn, pc'[d] = "commit", NEW h \in Held(d)', NEW j \in LockKeys(txn'[d]) \ Held(d)'
      PROVE  LockBefore(h, j)
  <2>1. d # c /\ pc[d] = "commit" /\ txn'[d] = txn[d]
    BY <1>2, <1>4
  <2>2. Held(d)' = Held(d)
    BY <2>1 DEF Held
  <2>3. h \in Held(d) /\ j \in LockKeys(txn[d]) \ Held(d)
    BY <1>4, <2>1, <2>2
  <2> QED BY <2>1, <2>3 DEF SqlInv, LockInv
<1> QED BY <1>1, <1>3, <1>4 DEF LockInv

\* What a request does not reach holds no locks.
LEMMA NothingHeld ==
    ASSUME SqlInv, NEW c \in Conn, pc[c] \notin LockSteps
    PROVE  Held(c) = {}
BY DEF SqlInv, LockInv, Held

LEMMA NoRequestOK == NoRequest.stmts \in Seq(Statements) /\ Registry(<<>>)
BY DEF NoRequest, Registry

LEMMA FinishKeeps ==
    ASSUME SqlInv, NEW c \in Conn, Finish(c), UNCHANGED <<db, durable, started, crashes>>, commitSeq' \in Nat
    PROVE  SqlInv'
<1>1. LockInv'
  BY LocksReleased DEF Finish, SetPc, SqlInv, RequestInv, Steps
<1>2. LeaseInv'
  BY DEF Finish, SetPc, SqlInv, LeaseInv, Steps
<1>3. RequestInv'
  BY NoTxnOK, NoRequestOK DEF Finish, SqlInv, RequestInv
<1>4. StoreInv' /\ CountInv'
  BY DEF SqlInv, StoreInv, CountInv
<1> QED BY <1>1, <1>2, <1>3, <1>4 DEF SqlInv

LEMMA EndTxnKeeps ==
    ASSUME SqlInv, NEW c \in Conn, EndTxn(c), UNCHANGED <<db, durable, started, crashes>>, commitSeq' \in Nat
    PROVE  SqlInv'
<1>1. CASE req[c].stmts = <<>>
  BY <1>1, FinishKeeps DEF EndTxn
<1>2. CASE req[c].stmts # <<>>
  <2>1. /\ SetPc(c, "begin")
        /\ txn' = [txn EXCEPT ![c] = NoTxn]
        /\ lease' = IF lease = c THEN NoConn ELSE lease
        /\ locks' = [k \in {j \in DOMAIN locks : locks[j] # c} |-> locks[k]]
        /\ UNCHANGED <<req, reg>>
    BY <1>2 DEF EndTxn
  <2>2. LockInv'
    BY <2>1, LocksReleased DEF SetPc, SqlInv, RequestInv, Steps
  <2>3. LeaseInv'
    BY <2>1 DEF SetPc, SqlInv, LeaseInv, Steps
  <2>4. RequestInv'
    BY <2>1, NoTxnOK DEF SqlInv, RequestInv
  <2>5. StoreInv' /\ CountInv'
    BY DEF SqlInv, StoreInv, CountInv
  <2> QED BY <2>2, <2>3, <2>4, <2>5 DEF SqlInv
<1> QED BY <1>1, <1>2

-----------------------------------------------------------------------------
(* 8. Every step keeps the invariant.                                      *)

LEMMA SqlInvInit ==
    ASSUME Init
    PROVE  SqlInv
<1>1. InitOn(SetupStore)
  BY DEF Init
<1>2. StoreInv
  BY <1>1, SetupStoreOK DEF InitOn, StoreInv
<1>3. CountInv
  BY <1>1, SqlAssumption DEF InitOn, CountInv
<1>4. LeaseInv
  BY <1>1 DEF InitOn, LeaseInv, Steps
<1>5. RequestInv
  BY <1>1, NoTxnOK, NoRequestOK DEF InitOn, RequestInv
<1>6. LockInv
  <2>1. locks = <<>> /\ \A c \in Conn : pc[c] # "commit"
    BY <1>1 DEF InitOn
  <2>2. DOMAIN locks = {}
    BY <2>1
  <2> QED BY <2>1, <2>2, FS_EmptySet DEF LockInv
<1> QED BY <1>2, <1>3, <1>4, <1>5, <1>6 DEF SqlInv

LEMMA SubmitKeeps ==
    ASSUME SqlInv, NEW c \in Conn, Submit(c)
    PROVE  SqlInv'
<1>1. PICK r \in Request : req' = [req EXCEPT ![c] = [mode |-> r.mode, stmts |-> r.stmts, ddl |-> ChangesSchema(r)]]
  BY DEF Submit
<1>2. /\ pc[c] = "idle" /\ pc' = [pc EXCEPT ![c] = "prepare"] /\ started < MaxRequests /\ started' = started + 1
      /\ UNCHANGED <<db, durable, lease, locks, seq, commitSeq, observed, reg, txn, crashes>>
  BY DEF Submit, SetPc, Idle
<1>3. LockInv'
  BY <1>2, NothingHeld, LocksAside DEF Steps, LockSteps
<1>4. LeaseInv'
  BY <1>2 DEF SqlInv, LeaseInv, Steps, LeaseSteps
<1>5. RequestInv'
  <2>1. PICK new : new = [mode |-> r.mode, stmts |-> r.stmts, ddl |-> ChangesSchema(r)]
    OBVIOUS
  <2>2. new.stmts \in Seq(Statements)
    BY <2>1, RequestStatements
  <2> QED BY <1>1, <1>2, <2>1, <2>2 DEF SqlInv, RequestInv
<1>6. StoreInv' /\ CountInv'
  BY <1>2, SqlAssumption DEF SqlInv, StoreInv, CountInv
<1> QED BY <1>3, <1>4, <1>5, <1>6 DEF SqlInv

LEMMA PrepareKeeps ==
    ASSUME SqlInv, NEW c \in Conn, Prepare(c)
    PROVE  SqlInv'
<1>1. PICK f : f = prepare(db, req[c])
  OBVIOUS
<1>2. PICK p : p = IF f = <<>> THEN "begin" ELSE "register"
  OBVIOUS
<1>3. /\ pc[c] = "prepare" /\ pc' = [pc EXCEPT ![c] = p] /\ reg' = [reg EXCEPT ![c] = f]
      /\ UNCHANGED <<db, durable, lease, locks, seq, commitSeq, observed, req, txn, started, crashes>>
  BY <1>1, <1>2 DEF Prepare, SetPc
<1>4. p \in {"begin", "register"}
  BY <1>2
<1>5. LockInv'
  BY <1>3, <1>4, NothingHeld, LocksAside DEF Steps, LockSteps
<1>6. LeaseInv'
  BY <1>3, <1>4 DEF SqlInv, LeaseInv, Steps, LeaseSteps
<1>7. RequestInv'
  BY <1>1, <1>3, Prepared DEF SqlInv, RequestInv
<1>8. StoreInv' /\ CountInv'
  BY <1>3 DEF SqlInv, StoreInv, CountInv
<1> QED BY <1>5, <1>6, <1>7, <1>8 DEF SqlInv

LEMMA RegisterKeeps ==
    ASSUME SqlInv, NEW c \in Conn, Register(c)
    PROVE  SqlInv'
<1>1. /\ pc[c] = "register" /\ pc' = [pc EXCEPT ![c] = "registered"] /\ reg' = [reg EXCEPT ![c] = <<>>]
      /\ db' = Over(reg[c], db)
      /\ UNCHANGED <<durable, lease, locks, seq, commitSeq, observed, req, txn, started, crashes>>
  BY DEF Register, SetPc
<1>2. LockInv'
  BY <1>1, NothingHeld, LocksAside DEF Steps, LockSteps
<1>3. LeaseInv'
  BY <1>1 DEF SqlInv, LeaseInv, Steps, LeaseSteps
<1>4. RequestInv'
  BY <1>1, NoRequestOK DEF SqlInv, RequestInv
<1>5. StoreInv' /\ CountInv'
  BY <1>1, Registered DEF SqlInv, StoreInv, CountInv, RequestInv
<1> QED BY <1>2, <1>3, <1>4, <1>5 DEF SqlInv

LEMMA RegisterFlushKeeps ==
    ASSUME SqlInv, NEW c \in Conn, RegisterFlush(c)
    PROVE  SqlInv'
<1>1. /\ pc[c] = "registered" /\ pc' = [pc EXCEPT ![c] = "begin"] /\ durable' = db
      /\ UNCHANGED <<db, lease, locks, seq, commitSeq, observed, req, reg, txn, started, crashes>>
  BY DEF RegisterFlush, SetPc
<1>2. LockInv'
  BY <1>1, NothingHeld, LocksAside DEF Steps, LockSteps
<1>3. LeaseInv'
  BY <1>1 DEF SqlInv, LeaseInv, Steps, LeaseSteps
<1>4. RequestInv' /\ StoreInv' /\ CountInv'
  BY <1>1 DEF SqlInv, RequestInv, StoreInv, CountInv
<1> QED BY <1>2, <1>3, <1>4 DEF SqlInv

LEMMA TakeLeaseKeeps ==
    ASSUME SqlInv, NEW c \in Conn, TakeLease(c)
    PROVE  SqlInv'
<1>1. /\ pc[c] = "begin" /\ pc' = [pc EXCEPT ![c] = "snapshot"] /\ lease' = c
      /\ UNCHANGED <<db, durable, locks, seq, commitSeq, observed, req, reg, txn, started, crashes>>
  BY DEF TakeLease, SetPc
<1>2. LockInv'
  BY <1>1, NothingHeld, LocksAside DEF Steps, LockSteps
<1>3. LeaseInv'
  BY <1>1 DEF SqlInv, LeaseInv, Steps, LeaseSteps
<1>4. RequestInv' /\ StoreInv' /\ CountInv'
  BY <1>1 DEF SqlInv, RequestInv, StoreInv, CountInv
<1> QED BY <1>2, <1>3, <1>4 DEF SqlInv

LEMMA BeginKeeps ==
    ASSUME SqlInv, NEW c \in Conn, Begin(c)
    PROVE  SqlInv'
<1>1. /\ pc[c] \in {"begin", "snapshot"} /\ pc' = [pc EXCEPT ![c] = "run"] /\ txn' = [txn EXCEPT ![c] = NewTxn(db, <<>>)]
      /\ UNCHANGED <<db, durable, lease, locks, seq, commitSeq, observed, req, reg, started, crashes>>
  BY DEF Begin, SetPc
<1>2. LockInv'
  BY <1>1, NothingHeld, LocksAside DEF Steps, LockSteps, SqlInv, RequestInv
<1>3. LeaseInv'
  BY <1>1 DEF SqlInv, LeaseInv, Steps, LeaseSteps
<1>4. RequestInv'
  BY <1>1, TxnBegins DEF SqlInv, RequestInv, StoreInv
<1>5. StoreInv' /\ CountInv'
  BY <1>1 DEF SqlInv, StoreInv, CountInv
<1> QED BY <1>2, <1>3, <1>4, <1>5 DEF SqlInv

LEMMA ExecKeeps ==
    ASSUME SqlInv, NEW c \in Conn, Exec(c)
    PROVE  SqlInv'
<1>1. PICK y : y = [txn[c] EXCEPT !.seq = seq]
  OBVIOUS
<1>2. PICK q : q = Head(req[c].stmts)
  OBVIOUS
<1>3. PICK x : x = Execute(y, q)
  OBVIOUS
<1>4. /\ pc[c] = "run" /\ req[c].stmts # <<>>
      /\ UNCHANGED <<db, durable, commitSeq, observed, started, crashes>>
  BY DEF Exec
<1>5. \/ Finish(c)
      \/ /\ txn' = [txn EXCEPT ![c] = [x EXCEPT !.seq = <<>>]]
         /\ req' = [req EXCEPT ![c] = [mode |-> req[c].mode, stmts |-> Tail(req[c].stmts), ddl |-> req[c].ddl]]
         /\ SetPc(c, IF req[c].mode = "block" /\ Len(req[c].stmts) > 1 THEN "run" ELSE "commit")
         /\ UNCHANGED <<lease, locks, reg>>
  BY <1>1, <1>2, <1>3, Zenon DEF Exec
<1>6. CASE Finish(c)
  BY <1>4, <1>6, FinishKeeps DEF SqlInv, CountInv
<1>7. CASE /\ txn' = [txn EXCEPT ![c] = [x EXCEPT !.seq = <<>>]]
           /\ req' = [req EXCEPT ![c] = [mode |-> req[c].mode, stmts |-> Tail(req[c].stmts), ddl |-> req[c].ddl]]
           /\ SetPc(c, IF req[c].mode = "block" /\ Len(req[c].stmts) > 1 THEN "run" ELSE "commit")
           /\ UNCHANGED <<lease, locks, reg>>
  <2>1. PICK p : p = IF req[c].mode = "block" /\ Len(req[c].stmts) > 1 THEN "run" ELSE "commit"
    OBVIOUS
  <2>2. p \in {"run", "commit"} /\ pc' = [pc EXCEPT ![c] = p]
    BY <1>7, <2>1 DEF SetPc
  <2>3. PICK z : z = [x EXCEPT !.seq = <<>>]
    OBVIOUS
  <2>4. PICK r : r = [mode |-> req[c].mode, stmts |-> Tail(req[c].stmts), ddl |-> req[c].ddl]
    OBVIOUS
  <2>5. TxnOK(z)
    <3>1. TxnOK(y)
      BY <1>1, CounterSet DEF SqlInv, RequestInv
    <3>2. req[c].stmts \in Seq(Statements)
      BY DEF SqlInv, RequestInv
    <3>3. q \in Statements
      BY <1>2, <1>4, <3>2
    <3>4. TxnOK(x)
      BY <1>3, <3>1, <3>3, StatementsOK, Executed
    <3> QED BY <2>3, <3>4, CounterSet
  <2>6. r.stmts \in Seq(Statements)
    BY <1>4, <2>4 DEF SqlInv, RequestInv
  <2>7. LockInv'
    BY <1>4, <1>7, <2>2, NothingHeld, LocksAside DEF Steps, LockSteps, SqlInv, RequestInv
  <2>8. LeaseInv'
    BY <1>4, <1>7, <2>2 DEF SqlInv, LeaseInv, Steps, LeaseSteps
  <2>9. RequestInv'
    BY <1>7, <2>3, <2>4, <2>5, <2>6 DEF SqlInv, RequestInv
  <2>10. StoreInv' /\ CountInv'
    BY <1>4 DEF SqlInv, StoreInv, CountInv
  <2> QED BY <2>7, <2>8, <2>9, <2>10 DEF SqlInv
<1> QED BY <1>5, <1>6, <1>7

LEMMA CommitNothingKeeps ==
    ASSUME SqlInv, NEW c \in Conn, CommitNothing(c)
    PROVE  SqlInv'
BY EndTxnKeeps DEF CommitNothing, SqlInv, CountInv

\* The next lock is the first of those to come, so it is after the ones held
\* and before the rest.
LEMMA AcquireKeeps ==
    ASSUME SqlInv, NEW c \in Conn, acquire_unique_locks(c)
    PROVE  SqlInv'
<1>1. PICK k \in LockKeys(txn[c]) \ Held(c) :
         /\ \A j \in LockKeys(txn[c]) \ Held(c) : ~ LockBefore(j, k)
         /\ k \notin DOMAIN locks
         /\ locks' = Over(Single(k, c), locks)
  BY DEF acquire_unique_locks
<1>2. /\ pc[c] = "commit"
      /\ UNCHANGED <<db, durable, lease, seq, commitSeq, observed, pc, req, reg, txn, started, crashes>>
  BY DEF acquire_unique_locks
<1>3. StoreInv' /\ CountInv' /\ LeaseInv' /\ RequestInv'
  BY <1>2 DEF SqlInv, StoreInv, CountInv, LeaseInv, RequestInv
<1>4. TxnOK(txn[c])
  BY DEF SqlInv, RequestInv
<1>5. \A j \in LockKeys(txn[c]) : LockKey(j)
  BY <1>4, LockKeysOK
<1>6. /\ DOMAIN locks' = DOMAIN locks \cup {k}
      /\ \A j \in DOMAIN locks' : locks'[j] = IF j = k THEN c ELSE locks[j]
  BY <1>1 DEF Over, Single
<1>7. IsFiniteSet(DOMAIN locks')
  BY <1>6, FS_AddElement DEF SqlInv, LockInv
<1>8. ASSUME NEW j \in DOMAIN locks'
      PROVE  LockKey(j) /\ locks'[j] \in Conn /\ pc'[locks'[j]] \in LockSteps
  BY <1>1, <1>2, <1>5, <1>6 DEF SqlInv, LockInv, LockSteps
<1>9. Held(c)' = Held(c) \cup {k} /\ \A d \in Conn \ {c} : Held(d)' = Held(d)
  BY <1>1, <1>6 DEF Held
<1>10. ASSUME NEW d \in Conn, pc'[d] = "commit", NEW h \in Held(d)', NEW j \in LockKeys(txn'[d]) \ Held(d)'
       PROVE  LockBefore(h, j)
  <2>1. CASE d # c \/ h # k
    <3>1. h \in Held(d) /\ j \in LockKeys(txn[d]) \ Held(d) /\ pc[d] = "commit"
      BY <1>2, <1>9, <1>10, <2>1
    <3> QED BY <3>1 DEF SqlInv, LockInv
  <2>2. CASE d = c /\ h = k
    <3>1. j \in LockKeys(txn[c]) \ Held(c) /\ j # k
      BY <1>2, <1>9, <1>10, <2>2
    <3>2. LockKey(j) /\ LockKey(k) /\ ~ LockBefore(j, k)
      BY <1>1, <1>5, <3>1
    <3> QED BY <2>2, <3>1, <3>2, OrderTotal
  <2> QED BY <2>1, <2>2
<1>11. LockInv'
  BY <1>7, <1>8, <1>10 DEF LockInv
<1> QED BY <1>3, <1>11 DEF SqlInv

LEMMA CheckKeeps ==
    ASSUME SqlInv, NEW c \in Conn, Check(c)
    PROVE  SqlInv'
<1>1. pc[c] = "commit" /\ UNCHANGED <<db, durable, seq, commitSeq, observed, started, crashes>>
  BY DEF Check
<1>2. \/ Finish(c)
      \/ pc' = [pc EXCEPT ![c] = "write"] /\ UNCHANGED <<lease, locks, req, reg, txn>>
  BY DEF Check, SetPc
<1>3. CASE Finish(c)
  BY <1>1, <1>3, FinishKeeps DEF SqlInv, CountInv
<1>4. CASE pc' = [pc EXCEPT ![c] = "write"] /\ UNCHANGED <<lease, locks, req, reg, txn>>
  <2>1. LockInv'
    BY <1>4, LocksAside DEF Steps, LockSteps
  <2>2. LeaseInv'
    BY <1>1, <1>4 DEF SqlInv, LeaseInv, Steps, LeaseSteps
  <2>3. RequestInv' /\ StoreInv' /\ CountInv'
    BY <1>1, <1>4 DEF SqlInv, RequestInv, StoreInv, CountInv
  <2> QED BY <2>1, <2>2, <2>3 DEF SqlInv
<1> QED BY <1>2, <1>3, <1>4

LEMMA WriteKeeps ==
    ASSUME SqlInv, NEW c \in Conn, Write(c)
    PROVE  SqlInv'
<1>1. /\ pc[c] = "write" /\ pc' = [pc EXCEPT ![c] = "flush"] /\ db' = merge_sorted(db, txn[c].overlay)
      /\ UNCHANGED <<durable, lease, locks, seq, commitSeq, observed, req, reg, txn, started, crashes>>
  BY DEF Write, SetPc
<1>2. LockInv'
  BY <1>1, LocksAside DEF Steps, LockSteps
<1>3. LeaseInv'
  BY <1>1 DEF SqlInv, LeaseInv, Steps, LeaseSteps
<1>4. StoreOK(merge_sorted(db, txn[c].overlay))
  BY MergedOK DEF SqlInv, StoreInv, RequestInv, TxnOK
<1>5. RequestInv' /\ StoreInv' /\ CountInv'
  BY <1>1, <1>4 DEF SqlInv, RequestInv, StoreInv, CountInv
<1> QED BY <1>2, <1>3, <1>5 DEF SqlInv

LEMMA FlushKeeps ==
    ASSUME SqlInv, NEW c \in Conn, Flush(c)
    PROVE  SqlInv'
<1>1. /\ pc[c] = "flush" /\ pc' = [pc EXCEPT ![c] = "report"] /\ durable' = db
      /\ UNCHANGED <<db, lease, locks, seq, commitSeq, observed, req, reg, txn, started, crashes>>
  BY DEF Flush, SetPc
<1>2. LockInv'
  BY <1>1, LocksAside DEF Steps, LockSteps
<1>3. LeaseInv'
  BY <1>1 DEF SqlInv, LeaseInv, Steps, LeaseSteps
<1>4. RequestInv' /\ StoreInv' /\ CountInv'
  BY <1>1 DEF SqlInv, RequestInv, StoreInv, CountInv
<1> QED BY <1>2, <1>3, <1>4 DEF SqlInv

LEMMA ReportKeeps ==
    ASSUME SqlInv, NEW c \in Conn, Report(c)
    PROVE  SqlInv'
<1>1. EndTxn(c) /\ UNCHANGED <<db, durable, started, crashes>>
  BY DEF Report
<1>2. commitSeq' = commitSeq \/ commitSeq' = commitSeq + 1
  BY DEF Report
<1>3. commitSeq' \in Nat
  BY <1>2 DEF SqlInv, CountInv
<1> QED BY <1>1, <1>3, EndTxnKeeps

LEMMA DropKeeps ==
    ASSUME SqlInv, NEW c \in Conn, Drop(c)
    PROVE  SqlInv'
BY FinishKeeps DEF Drop, SqlInv, CountInv

LEMMA CrashKeeps ==
    ASSUME SqlInv, Crash
    PROVE  SqlInv'
<1>1. StoreInv' /\ CountInv'
  BY SqlAssumption DEF Crash, SqlInv, StoreInv, CountInv
<1>2. LeaseInv'
  BY DEF Crash, LeaseInv, Steps
<1>3. RequestInv'
  BY NoTxnOK, NoRequestOK DEF Crash, RequestInv
<1>4. LockInv'
  <2>1. locks' = <<>> /\ \A c \in Conn : pc'[c] # "commit"
    BY DEF Crash
  <2>2. DOMAIN locks' = {}
    BY <2>1
  <2> QED BY <2>1, <2>2, FS_EmptySet DEF LockInv
<1> QED BY <1>1, <1>2, <1>3, <1>4 DEF SqlInv

LEMMA SqlInvStep ==
    ASSUME SqlInv, [Next]_vars
    PROVE  SqlInv'
<1>1. CASE UNCHANGED vars
  BY <1>1 DEF vars, SqlInv, StoreInv, CountInv, LeaseInv, RequestInv, LockInv, Held
<1>2. ASSUME NEW c \in Conn, Submit(c) \/ TakeLease(c) \/ acquire_unique_locks(c) \/ Drop(c) PROVE SqlInv'
  BY <1>2, SubmitKeeps, TakeLeaseKeeps, AcquireKeeps, DropKeeps
<1>3. ASSUME NEW c \in Conn, Continue(c) PROVE SqlInv'
  BY <1>3, PrepareKeeps, RegisterKeeps, RegisterFlushKeeps, BeginKeeps, ExecKeeps, CommitNothingKeeps, CheckKeeps,
     WriteKeeps, FlushKeeps, ReportKeeps DEF Continue
<1> QED BY <1>1, <1>2, <1>3, CrashKeeps DEF Next

-----------------------------------------------------------------------------
(* 9. No circle.                                                           *)

\* The locks of B are those somebody of S waits for and somebody of S holds.
\* If everybody in S waits for somebody in S, each of them has a later one.
LEMMA SomebodyGoesOn ==
    ASSUME SqlInv, NEW S, S \in (SUBSET Conn) \ {{}}
    PROVE  \E c \in S : WaitsFor(c) \cap S = {}
<1> SUFFICES ASSUME \A c \in S : WaitsFor(c) \cap S # {} PROVE FALSE
  OBVIOUS
<1> DEFINE B == {k \in DOMAIN locks : locks[k] \in S /\ \E c \in S : pc[c] = "commit" /\ k \in NextLock(c)}
<1>1. ASSUME NEW c \in S, pc[c] = "commit"
      PROVE  \E k \in B : k \in NextLock(c)
  <2>1. WaitsFor(c) = {locks[k] : k \in NextLock(c) \cap DOMAIN locks}
    BY <1>1 DEF WaitsFor
  <2>2. PICK k \in NextLock(c) \cap DOMAIN locks : locks[k] \in S
    BY <2>1
  <2> QED BY <1>1, <2>2
<1>2. B # {}
  <2>1. PICK c : c \in S
    OBVIOUS
  <2>2. CASE pc[c] = "commit"
    BY <1>1, <2>1, <2>2
  <2>3. CASE pc[c] # "commit"
    <3>1. WaitsFor(c) # {} /\ WaitsFor(c) \cap S # {}
      BY <2>1
    <3>2. lease \in S /\ lease # NoConn
      BY <2>3, <3>1 DEF WaitsFor
    <3>3. PICK d \in S : d = lease
      BY <3>2
    <3>4. pc[d] \in LeaseSteps
      BY <3>2, <3>3 DEF SqlInv, LeaseInv
    <3>5. pc[d] # "begin"
      BY <3>4 DEF LeaseSteps
    <3>6. WaitsFor(d) # {}
      OBVIOUS
    <3>7. pc[d] = "commit"
      BY <3>5, <3>6 DEF WaitsFor
    <3> QED BY <1>1, <3>7
  <2> QED BY <2>2, <2>3
<1>3. ASSUME NEW k \in B PROVE \E j \in B : LockBefore(k, j)
  <2>1. PICK d \in S : d = locks[k]
    BY <1>3
  <2>2. d \in Conn /\ pc[d] \in LockSteps /\ k \in Held(d)
    BY <1>3, <2>1 DEF SqlInv, LockInv, Held
  <2>3. pc[d] = "commit"
    <3>1. pc[d] # "begin"
      BY <2>2 DEF LockSteps
    <3>2. WaitsFor(d) # {}
      OBVIOUS
    <3> QED BY <3>1, <3>2 DEF WaitsFor
  <2>4. PICK j \in B : j \in NextLock(d)
    BY <1>1, <2>3
  <2>5. j \in LockKeys(txn[d]) \ Held(d)
    BY <2>4 DEF NextLock
  <2>6. LockBefore(k, j)
    BY <2>2, <2>3, <2>5 DEF SqlInv, LockInv
  <2> QED BY <2>6
<1>4. IsFiniteSet(B) /\ \A k \in B : LockKey(k)
  <2>1. B \subseteq DOMAIN locks
    OBVIOUS
  <2>2. IsFiniteSet(B)
    BY <2>1, FS_Subset DEF SqlInv, LockInv
  <2> QED BY <2>1, <2>2 DEF SqlInv, LockInv
<1> HIDE DEF B
<1>5. PICK k \in B : \A j \in B : ~ LockBefore(k, j)
  BY <1>2, <1>4, LastLock
<1> QED BY <1>3, <1>5

\* Requests never wait for each other in a circle (begin takes the lease
\* before any lock, acquire_unique_locks the locks in the order of their
\* keys), whatever the statements, the tables and the rows; and whoever holds
\* the lease or a lock is in a step that needs it.
THEOREM NoCircleOfWaits == Spec => []NoWaitCycle
<1>1. Init => SqlInv
  BY SqlInvInit
<1>2. SqlInv /\ [Next]_vars => SqlInv'
  BY SqlInvStep
<1>3. SqlInv => NoWaitCycle
  BY SqlInvTypes, SomebodyGoesOn DEF NoWaitCycle
<1> QED BY <1>1, <1>2, <1>3, PTL DEF Spec

-----------------------------------------------------------------------------
(* 10. First committer wins.  A request without the lease only inserts, so   *)
(* the lease holder's snapshot keeps every row it has; a key that a request  *)
(* found free is guarded by its lock and looked up once more; what it writes *)
(* is therefore as its snapshot had it.                                      *)

\* What the server sends on which connection (state.connection for inserts and
\* reads, connection_serialized for the rest; both strict, so every table has a
\* primary key and no row is keyed by the counter).
Routed ==
    \A r \in Request : \A n \in DOMAIN r.stmts :
        r.stmts[n].op # "append" /\ (r.mode = "auto" => r.stmts[n].op \in {"insert", "select"})

TxnSteps == {"run", "commit", "write"}

SentAs(c) ==
    \A n \in DOMAIN req[c].stmts :
        req[c].stmts[n].op # "append" /\ (req[c].mode = "auto" => req[c].stmts[n].op \in {"insert", "select"})
Leased(c) == req[c].mode # "auto" /\ pc[c] \in LeaseSteps => lease = c
Covered(x) ==
    /\ \A k \in x.uniq : k[1] = "row"
    /\ \A k \in DOMAIN x.overlay : k[1] = "row" => k \in DOMAIN x.snap \cup x.uniq
Inserts(x) == \A k \in DOMAIN x.overlay : k[1] = "row" => k \in x.uniq /\ k \notin DOMAIN x.snap
InsertsAlone(c) ==
    req[c].mode = "auto" => /\ pc[c] = "run" => DOMAIN txn[c].overlay = {}
                            /\ pc[c] \in {"commit", "write"} => Inserts(txn[c])
Checked(c) == pc[c] = "write" => LockKeys(txn[c]) \subseteq Held(c) /\ txn[c].uniq \cap DOMAIN db = {}
SnapshotStands(c) ==
    req[c].mode # "auto" /\ pc[c] \in TxnSteps =>
        \A k \in DOMAIN txn[c].snap : k[1] = "row" => k \in DOMAIN db /\ db[k] = txn[c].snap[k]

Own(c) == SentAs(c) /\ Leased(c) /\ Covered(txn[c]) /\ InsertsAlone(c) /\ Checked(c) /\ SnapshotStands(c)
OwnInv == \A c \in Conn : Own(c)

\* The statement of a request without the lease.
LEMMA OneInsert ==
    ASSUME NEW x, TxnOK(x), DOMAIN x.overlay = {}, NEW q, StatementOK(q), q.op \in {"insert", "select"},
           NEW z, z = Execute(x, q), ~ z.failed, \A k \in x.uniq : k[1] = "row"
    PROVE  Inserts(z)
<1>1. CASE q.op = "select"
  BY <1>1 DEF Execute, Inserts
<1>2. CASE q.op = "insert"
  <2>1. PICK id : id = table_id(x, q.t)
    OBVIOUS
  <2>2. PICK k : k = row_key(id, q.pk)
    OBVIOUS
  <2>3. z = IF Known(x, q.t) THEN ChangeRows(x, q) ELSE Fail(x)
    BY <1>2 DEF Execute
  <2>4. Known(x, q.t) /\ z = ChangeRows(x, q)
    BY <2>3, FailedOK
  <2>5. /\ q.pk \notin DOMAIN collect_rows(x, q.t)
        /\ z = insert_data(x, q.t, q.pk, q.row)
    BY <1>2, <2>4, FailedOK DEF ChangeRows
  <2>6. read_key(x, k) = <<>> /\ k \notin DOMAIN x.snap
    <3>1. DOMAIN scan_range(x) = DOMAIN x.snap
      BY DEF scan_range, merge_sorted
    <3>2. DOMAIN collect_rows(x, q.t) = {j[3] : j \in RowKeys(scan_range(x), id)}
      BY <2>1 DEF collect_rows
    <3>3. k[1] = "row" /\ k[2] = id /\ k[3] = q.pk
      BY <2>2 DEF row_key
    <3>4. k \notin DOMAIN x.snap
      BY <2>5, <3>1, <3>2, <3>3 DEF RowKeys
    <3> QED BY <3>4 DEF read_key
  <2>7. q.pk \in Int /\ RowOK(q.row)
    BY <1>2, StatementRow DEF StatementOK
  <2>8. PICK y : y = [x EXCEPT !.uniq = @ \cup {k}]
    OBVIOUS
  <2>9. RowLock(k)
    BY <2>1, <2>2, <2>4, <2>7, TableOK DEF RowLock, row_key
  <2>10. TxnOK(y) /\ SameCatalog(x, y) /\ Moves(x, y) /\ k \in y.uniq
    BY <2>8, <2>9, KeyGuarded
  <2>11. PICK w : w = IF y.failed THEN y ELSE apply_index_entries(y, q.t, q.pk, q.row, TRUE)
    OBVIOUS
  <2>12. z = IF w.failed THEN Fail(x) ELSE write_key(record_change(w, k), k, Physical(x, q.t, q.row))
    BY <2>1, <2>2, <2>5, <2>6, <2>8, <2>11 DEF insert_data
  <2>13. ~ w.failed /\ z = write_key(record_change(w, k), k, Physical(x, q.t, q.row))
    BY <2>12, FailedOK
  <2>14. TxnOK(w) /\ w.snap = x.snap /\ k \in w.uniq /\ \A j \in DOMAIN w.overlay : j[1] # "row"
    <3>1. y.snap = x.snap /\ y.overlay = x.overlay
      BY <2>8 DEF TxnOK
    <3>2. w = apply_index_entries(y, q.t, q.pk, q.row, TRUE)
      BY <2>11, <2>13
    <3>3. TxnOK(w) /\ Moves(y, w)
      BY <2>4, <2>7, <2>10, <3>2, KnownKept, EntriesApplied
    <3>4. \A j \in DOMAIN w.overlay : j[1] = "index"
      BY <2>10, <2>13, <3>1, <3>2, EntriesOnly
    <3> QED BY <2>10, <3>1, <3>3, <3>4 DEF Moves
  <2>15. PICK v : v = <<Physical(x, q.t, q.row)>>
    OBVIOUS
  <2>16. z.snap = x.snap /\ k \in z.uniq /\ DOMAIN z.overlay = {k} \cup DOMAIN w.overlay
    <3>1. PICK r : r = record_change(w, k)
      OBVIOUS
    <3>2. TxnOK(r) /\ r.snap = w.snap /\ r.overlay = w.overlay /\ r.uniq = w.uniq
      BY <2>14, <3>1, ChangeRecorded
    <3>3. RecordOK(k, Physical(x, q.t, q.row))
      BY <2>2, <2>7, PhysicalOK DEF RecordOK, row_key
    <3>4. z.snap = r.snap /\ z.uniq = r.uniq /\ z.overlay = Over(Single(k, v), r.overlay)
      BY <2>13, <2>15, <3>1, <3>2, <3>3, OneWritten
    <3>5. DOMAIN Over(Single(k, v), r.overlay) = {k} \cup DOMAIN r.overlay
      BY DEF Over, Single
    <3> QED BY <2>14, <3>2, <3>4, <3>5
  <2> QED BY <2>6, <2>14, <2>16 DEF Inserts
<1> QED BY <1>1, <1>2

\* Two stores with the same rows.
SameRows(f, g) ==
    \A k : k[1] = "row" => (k \in DOMAIN f <=> k \in DOMAIN g) /\ (k \in DOMAIN f => f[k] = g[k])

\* A request that the step leaves alone, while the rows stay.
LEMMA OthersKeep ==
    ASSUME NEW d, Own(d), pc'[d] = pc[d], req'[d] = req[d], txn'[d] = txn[d],
           lease = d => lease' = d, Held(d) \subseteq Held(d)', SameRows(db, db')
    PROVE  Own(d)'
<1>1. SentAs(d)' /\ Leased(d)' /\ Covered(txn[d])' /\ InsertsAlone(d)'
  BY DEF Own, SentAs, Leased, Covered, InsertsAlone, Inserts
<1>2. Checked(d)'
  <2>1. ASSUME pc[d] = "write" PROVE LockKeys(txn[d]) \subseteq Held(d)' /\ txn[d].uniq \cap DOMAIN db' = {}
    BY <2>1 DEF Own, Checked, Covered, SameRows
  <2> QED BY <2>1 DEF Checked
<1>3. SnapshotStands(d)'
  BY DEF Own, SnapshotStands, SameRows
<1> QED BY <1>1, <1>2, <1>3 DEF Own

LEMMA RowsStay ==
    ASSUME NEW f, NEW g, f = g
    PROVE  SameRows(f, g)
BY DEF SameRows

\* The request that steps, before it has a transaction.
LEMMA OwnBefore ==
    ASSUME NEW c, SentAs(c)', pc'[c] \notin LeaseSteps, Covered(txn[c])'
    PROVE  Own(c)'
BY DEF Own, Leased, InsertsAlone, Checked, SnapshotStands, LeaseSteps, TxnSteps

LEMMA NothingCovered == Covered(NoTxn) /\ \A s : Covered(NewTxn(s, <<>>)) /\ NewTxn(s, <<>>).snap = s /\ NewTxn(s, <<>>).overlay = <<>>
<1>1. ASSUME NEW s, NEW x, x = NewTxn(s, <<>>)
      PROVE  Covered(x) /\ x.snap = s /\ x.overlay = <<>>
  <2>1. x = [snap |-> s, overlay |-> <<>>, uniq |-> {}, uniqIdx |-> {}, changes |-> {}, seq |-> <<>>, failed |-> FALSE]
    BY <1>1 DEF NewTxn, NoTxn
  <2>2. x.snap = s /\ x.overlay = <<>> /\ x.uniq = {}
    BY <2>1
  <2> QED BY <2>2 DEF Covered
<1>2. NoTxn.overlay = <<>> /\ NoTxn.uniq = {}
  BY DEF NoTxn
<1>3. Covered(NoTxn)
  BY <1>2 DEF Covered
<1> QED BY <1>1, <1>3

\* Requests that end, or go on to their next statement.
LEMMA OwnEnds ==
    ASSUME SqlInv, OwnInv, NEW c \in Conn, NEW p \in {"idle", "begin"}, pc' = [pc EXCEPT ![c] = p],
           txn' = [txn EXCEPT ![c] = NoTxn],
           req' = [req EXCEPT ![c] = NoRequest] \/ req' = req,
           lease' = IF lease = c THEN NoConn ELSE lease,
           locks' = [k \in {j \in DOMAIN locks : locks[j] # c} |-> locks[k]], db' = db
    PROVE  OwnInv'
<1>1. /\ pc'[c] = p /\ txn'[c] = NoTxn /\ (req'[c] = NoRequest \/ req'[c] = req[c])
      /\ \A d \in Conn \ {c} : pc'[d] = pc[d] /\ txn'[d] = txn[d] /\ req'[d] = req[d]
  BY DEF SqlInv, LeaseInv, RequestInv
<1>2. ASSUME NEW d \in Conn, d # c PROVE Own(d)'
  <2>1. Held(d)' = Held(d)
    BY <1>2 DEF Held
  <2>2. Own(d)
    BY DEF OwnInv
  <2> QED BY <1>1, <1>2, <2>1, <2>2, RowsStay, OthersKeep
<1>3. Own(c)'
  <2>1. SentAs(c)'
    <3>1. CASE req'[c] = NoRequest
      BY <3>1 DEF SentAs, NoRequest
    <3>2. CASE req'[c] = req[c]
      BY <3>2 DEF OwnInv, Own, SentAs
    <3> QED BY <1>1, <3>1, <3>2
  <2>2. Covered(txn[c])'
    BY <1>1, NothingCovered DEF Covered
  <2> QED BY <1>1, <2>1, <2>2, OwnBefore DEF LeaseSteps
<1> QED BY <1>2, <1>3 DEF OwnInv

LEMMA FinishOwn ==
    ASSUME SqlInv, OwnInv, NEW c \in Conn, Finish(c), db' = db
    PROVE  OwnInv'
BY OwnEnds DEF Finish, SetPc

LEMMA EndTxnOwn ==
    ASSUME SqlInv, OwnInv, NEW c \in Conn, EndTxn(c), db' = db
    PROVE  OwnInv'
<1>1. CASE req[c].stmts = <<>>
  BY <1>1, FinishOwn DEF EndTxn
<1>2. CASE req[c].stmts # <<>>
  BY <1>2, OwnEnds DEF EndTxn, SetPc
<1> QED BY <1>1, <1>2

\* A step of c that leaves the rows, the locks and everybody's lease.
LEMMA OwnMoves ==
    ASSUME SqlInv, OwnInv, NEW c \in Conn, NEW p, pc' = [pc EXCEPT ![c] = p],
           \A d \in Conn \ {c} : txn'[d] = txn[d] /\ req'[d] = req[d] /\ (lease = d => lease' = d),
           locks' = locks, SameRows(db, db'), Own(c)'
    PROVE  OwnInv'
<1>1. ASSUME NEW d \in Conn, d # c PROVE Own(d)'
  <2>1. Held(d)' = Held(d)
    BY DEF Held
  <2>2. Own(d) /\ pc'[d] = pc[d]
    BY <1>1 DEF OwnInv, SqlInv, LeaseInv
  <2> QED BY <1>1, <2>1, <2>2, OthersKeep
<1> QED BY <1>1 DEF OwnInv

LEMMA SubmitOwn ==
    ASSUME Routed, SqlInv, OwnInv, NEW c \in Conn, Submit(c)
    PROVE  OwnInv'
<1>1. PICK r \in Request : req' = [req EXCEPT ![c] = [mode |-> r.mode, stmts |-> r.stmts, ddl |-> ChangesSchema(r)]]
  BY DEF Submit
<1>2. /\ pc' = [pc EXCEPT ![c] = "prepare"]
      /\ UNCHANGED <<db, durable, lease, locks, seq, commitSeq, observed, reg, txn, crashes>>
  BY DEF Submit, SetPc
<1>3. PICK new : new = [mode |-> r.mode, stmts |-> r.stmts, ddl |-> ChangesSchema(r)]
  OBVIOUS
<1>4. /\ req'[c] = new /\ new.stmts = r.stmts /\ new.mode = r.mode /\ pc'[c] = "prepare"
      /\ \A d \in Conn \ {c} : req'[d] = req[d]
  BY <1>1, <1>2, <1>3 DEF SqlInv, RequestInv, LeaseInv
<1>5. SentAs(c)'
  BY <1>4 DEF SentAs, Routed
<1>6. Own(c)'
  BY <1>2, <1>4, <1>5, OwnBefore DEF LeaseSteps, OwnInv, Own, Covered
<1> QED BY <1>2, <1>4, <1>6, OwnMoves, RowsStay

\* Before a transaction.
LEMMA PrepareOwn ==
    ASSUME SqlInv, OwnInv, NEW c \in Conn, Prepare(c) \/ Register(c) \/ RegisterFlush(c)
    PROVE  OwnInv'
<1>1. PICK p : pc' = [pc EXCEPT ![c] = p] /\ p \in {"begin", "register", "registered"}
  BY DEF Prepare, Register, RegisterFlush, SetPc
<1>2. UNCHANGED <<lease, locks, req, txn>>
  BY DEF Prepare, Register, RegisterFlush
<1>3. SameRows(db, db')
  <2>1. CASE db' = db
    BY <2>1, RowsStay
  <2>2. CASE db' = Over(reg[c], db)
    BY <2>2 DEF SqlInv, RequestInv, Registry, Over, SameRows
  <2> QED BY <2>1, <2>2 DEF Prepare, Register, RegisterFlush
<1>4. pc'[c] \notin LeaseSteps
  BY <1>1 DEF SqlInv, LeaseInv, LeaseSteps
<1>5. Own(c)'
  BY <1>2, <1>4, OwnBefore DEF OwnInv, Own, SentAs, Covered
<1> QED BY <1>1, <1>2, <1>3, <1>5, OwnMoves

LEMMA TakeLeaseOwn ==
    ASSUME SqlInv, OwnInv, NEW c \in Conn, TakeLease(c)
    PROVE  OwnInv'
<1>1. /\ pc' = [pc EXCEPT ![c] = "snapshot"] /\ lease = NoConn /\ lease' = c
      /\ UNCHANGED <<db, locks, req, txn>>
  BY DEF TakeLease, SetPc
<1>2. pc'[c] = "snapshot"
  BY <1>1 DEF SqlInv, LeaseInv
<1>3. Own(c)'
  BY <1>1, <1>2 DEF OwnInv, Own, SentAs, Leased, Covered, InsertsAlone, Checked, SnapshotStands, TxnSteps
<1>4. \A d \in Conn : lease # d
  BY <1>1, SqlAssumption
<1> QED BY <1>1, <1>3, <1>4, OwnMoves, RowsStay

LEMMA BeginOwn ==
    ASSUME SqlInv, OwnInv, NEW c \in Conn, Begin(c)
    PROVE  OwnInv'
<1>1. /\ pc' = [pc EXCEPT ![c] = "run"] /\ txn' = [txn EXCEPT ![c] = NewTxn(db, <<>>)]
      /\ UNCHANGED <<db, lease, locks, req>>
  BY DEF Begin, SetPc
<1>2. req[c].mode = "auto" \/ pc[c] = "snapshot"
  BY DEF Begin, NeedsNoLease
<1>3. pc'[c] = "run" /\ txn'[c] = NewTxn(db, <<>>) /\ \A d \in Conn \ {c} : txn'[d] = txn[d]
  BY <1>1 DEF SqlInv, LeaseInv, RequestInv
<1>4. Covered(txn'[c]) /\ txn'[c].snap = db /\ txn'[c].overlay = <<>>
  BY <1>3, NothingCovered
<1>5. DOMAIN txn'[c].overlay = {}
  BY <1>4
<1>6. SentAs(c)' /\ Leased(c)'
  BY <1>1, <1>2, <1>3 DEF OwnInv, Own, SentAs, Leased, LeaseSteps
<1>7. InsertsAlone(c)' /\ Checked(c)' /\ SnapshotStands(c)'
  BY <1>1, <1>3, <1>4, <1>5 DEF InsertsAlone, Checked, SnapshotStands
<1>8. Own(c)'
  BY <1>4, <1>6, <1>7 DEF Own, Covered
<1> QED BY <1>1, <1>3, <1>8, OwnMoves, RowsStay

LEMMA CoverageMoves ==
    ASSUME NEW x, Covered(x), NEW y, Moves(x, y)
    PROVE  Covered(y)
BY DEF Covered, Moves

LEMMA ExecOwn ==
    ASSUME SqlInv, OwnInv, NEW c \in Conn, Exec(c)
    PROVE  OwnInv'
<1>1. PICK y : y = [txn[c] EXCEPT !.seq = seq]
  OBVIOUS
<1>2. PICK q : q = Head(req[c].stmts)
  OBVIOUS
<1>3. PICK x : x = Execute(y, q)
  OBVIOUS
<1>4. pc[c] = "run" /\ req[c].stmts # <<>> /\ db' = db
  BY DEF Exec
<1>5. \/ Finish(c)
      \/ /\ ~ x.failed
         /\ txn' = [txn EXCEPT ![c] = [x EXCEPT !.seq = <<>>]]
         /\ req' = [req EXCEPT ![c] = [mode |-> req[c].mode, stmts |-> Tail(req[c].stmts), ddl |-> req[c].ddl]]
         /\ SetPc(c, IF req[c].mode = "block" /\ Len(req[c].stmts) > 1 THEN "run" ELSE "commit")
         /\ UNCHANGED <<lease, locks, reg>>
  BY <1>1, <1>2, <1>3, Zenon DEF Exec
<1>6. CASE Finish(c)
  BY <1>4, <1>6, FinishOwn
<1>7. CASE /\ ~ x.failed
           /\ txn' = [txn EXCEPT ![c] = [x EXCEPT !.seq = <<>>]]
           /\ req' = [req EXCEPT ![c] = [mode |-> req[c].mode, stmts |-> Tail(req[c].stmts), ddl |-> req[c].ddl]]
           /\ SetPc(c, IF req[c].mode = "block" /\ Len(req[c].stmts) > 1 THEN "run" ELSE "commit")
           /\ UNCHANGED <<lease, locks, reg>>
  <2>1. PICK p : p = IF req[c].mode = "block" /\ Len(req[c].stmts) > 1 THEN "run" ELSE "commit"
    OBVIOUS
  <2>2. p \in {"run", "commit"} /\ pc' = [pc EXCEPT ![c] = p] /\ (req[c].mode = "auto" => p = "commit")
    BY <1>7, <2>1 DEF SetPc
  <2>3. PICK z : z = [x EXCEPT !.seq = <<>>]
    OBVIOUS
  <2>4. PICK r : r = [mode |-> req[c].mode, stmts |-> Tail(req[c].stmts), ddl |-> req[c].ddl]
    OBVIOUS
  <2>5. r.mode = req[c].mode /\ r.stmts = Tail(req[c].stmts)
    BY <2>4
  <2>6. /\ pc'[c] = p /\ txn'[c] = z /\ req'[c] = r
        /\ \A d \in Conn \ {c} : txn'[d] = txn[d] /\ req'[d] = req[d]
    BY <1>7, <2>2, <2>3, <2>4 DEF SqlInv, RequestInv, LeaseInv
  <2>7. TxnOK(txn[c]) /\ req[c].stmts \in Seq(Statements)
    BY DEF SqlInv, RequestInv
  <2>8. /\ y.snap = txn[c].snap /\ y.overlay = txn[c].overlay /\ y.uniq = txn[c].uniq
        /\ TxnOK(y)
    BY <1>1, <2>7, CounterSet DEF TxnOK
  <2>9. q \in Statements /\ q = req[c].stmts[1] /\ 1 \in DOMAIN req[c].stmts
    BY <1>2, <1>4, <2>7
  <2>10. q.op # "append" /\ (req[c].mode = "auto" => q.op \in {"insert", "select"})
    BY <2>9 DEF OwnInv, Own, SentAs
  <2>11. TxnOK(x) /\ Moves(y, x)
    BY <1>3, <2>8, <2>9, <2>10, StatementsOK, Executed
  <2>12. z.snap = x.snap /\ z.overlay = x.overlay /\ z.uniq = x.uniq
    BY <2>3, <2>11 DEF TxnOK
  <2>13. Covered(z)
    <3>1. Covered(y)
      BY <2>8 DEF OwnInv, Own, Covered
    <3>2. Covered(x)
      BY <2>11, <3>1, CoverageMoves
    <3> QED BY <2>12, <3>2 DEF Covered
  <2>14. SentAs(c)'
    <3>1. ASSUME NEW n \in DOMAIN r.stmts PROVE n + 1 \in DOMAIN req[c].stmts /\ r.stmts[n] = req[c].stmts[n + 1]
      BY <1>4, <2>5, <2>7
    <3> QED BY <2>5, <2>6, <3>1 DEF OwnInv, Own, SentAs
  <2>15. Leased(c)'
    BY <1>4, <1>7, <2>5, <2>6 DEF OwnInv, Own, Leased, LeaseSteps
  <2>16. InsertsAlone(c)'
    <3>1. ASSUME req[c].mode = "auto" PROVE Inserts(z)
      <4>1. DOMAIN y.overlay = {} /\ \A k \in y.uniq : k[1] = "row"
        BY <1>4, <2>8, <3>1 DEF OwnInv, Own, InsertsAlone, Covered
      <4>2. Inserts(x)
        BY <1>3, <1>7, <2>8, <2>9, <2>10, <3>1, <4>1, StatementsOK, OneInsert
      <4> QED BY <2>12, <4>2 DEF Inserts
    <3> QED BY <2>2, <2>5, <2>6, <3>1 DEF InsertsAlone
  <2>17. Checked(c)'
    BY <2>2, <2>6 DEF Checked
  <2>18. SnapshotStands(c)'
    <3>1. z.snap = txn[c].snap
      BY <2>8, <2>11, <2>12 DEF Moves
    <3> QED BY <1>4, <2>5, <2>6, <3>1 DEF OwnInv, Own, SnapshotStands, TxnSteps
  <2>19. Own(c)'
    BY <2>6, <2>13, <2>14, <2>15, <2>16, <2>17, <2>18 DEF Own, Covered
  <2> QED BY <1>4, <1>7, <2>2, <2>6, <2>19, OwnMoves, RowsStay
<1> QED BY <1>5, <1>6, <1>7

LEMMA AcquireOwn ==
    ASSUME SqlInv, OwnInv, NEW c \in Conn, acquire_unique_locks(c)
    PROVE  OwnInv'
<1>1. PICK k : k \notin DOMAIN locks /\ locks' = Over(Single(k, c), locks)
  BY DEF acquire_unique_locks
<1>2. UNCHANGED <<db, lease, pc, req, txn>>
  BY DEF acquire_unique_locks
<1>3. ASSUME NEW d \in Conn PROVE Held(d) \subseteq Held(d)'
  BY <1>1 DEF Held, Over, Single
<1>4. ASSUME NEW d \in Conn PROVE Own(d)'
  BY <1>2, <1>3, OthersKeep, RowsStay DEF OwnInv
<1> QED BY <1>4 DEF OwnInv

LEMMA CheckOwn ==
    ASSUME SqlInv, OwnInv, NEW c \in Conn, Check(c)
    PROVE  OwnInv'
<1>1. pc[c] = "commit" /\ LockKeys(txn[c]) \subseteq Held(c) /\ db' = db
  BY DEF Check
<1>2. \/ Finish(c)
      \/ StillUnique(txn[c]) /\ pc' = [pc EXCEPT ![c] = "write"] /\ UNCHANGED <<lease, locks, req, reg, txn>>
  BY DEF Check, SetPc
<1>3. CASE Finish(c)
  BY <1>1, <1>3, FinishOwn
<1>4. CASE StillUnique(txn[c]) /\ pc' = [pc EXCEPT ![c] = "write"] /\ UNCHANGED <<lease, locks, req, reg, txn>>
  <2>1. pc'[c] = "write"
    BY <1>4 DEF SqlInv, LeaseInv
  <2>2. SentAs(c)' /\ Leased(c)' /\ Covered(txn[c])' /\ InsertsAlone(c)' /\ SnapshotStands(c)'
    BY <1>1, <1>4, <2>1
       DEF OwnInv, Own, SentAs, Leased, LeaseSteps, Covered, InsertsAlone, Inserts, SnapshotStands, TxnSteps
  <2>3. Checked(c)'
    <3>1. Held(c)' = Held(c)
      BY <1>4 DEF Held
    <3> QED BY <1>1, <1>4, <3>1 DEF Checked, StillUnique
  <2>4. Own(c)'
    BY <2>2, <2>3 DEF Own
  <2> QED BY <1>1, <1>4, <2>4, OwnMoves, RowsStay
<1> QED BY <1>2, <1>3, <1>4

\* Of two requests one has no lease; it only inserts.
LEMMA OneLeased ==
    ASSUME OwnInv, NEW c \in Conn, NEW d \in Conn, c # d, pc[c] \in LeaseSteps, pc[d] \in LeaseSteps
    PROVE  req[c].mode = "auto" \/ req[d].mode = "auto"
BY DEF OwnInv, Own, Leased

\* A row a request writes is one nobody has, or one of its snapshot, which
\* stands.
LEMMA RowsWrittenFresh ==
    ASSUME OwnInv, NEW c \in Conn, pc[c] = "write", NEW k \in DOMAIN txn[c].overlay, k[1] = "row"
    PROVE  \/ /\ k \in txn[c].uniq /\ k \notin DOMAIN db /\ k \notin DOMAIN txn[c].snap
           \/ /\ req[c].mode # "auto" /\ k \in DOMAIN txn[c].snap
              /\ k \in DOMAIN db /\ db[k] = txn[c].snap[k]
<1>1. Own(c)
  BY DEF OwnInv
<1>2. txn[c].uniq \cap DOMAIN db = {}
  BY <1>1 DEF Own, Checked
<1>3. CASE req[c].mode = "auto"
  BY <1>1, <1>2, <1>3 DEF Own, InsertsAlone, Inserts
<1>4. CASE req[c].mode # "auto"
  <2>1. k \in DOMAIN txn[c].snap \cup txn[c].uniq
    BY <1>1 DEF Own, Covered
  <2>2. k \in DOMAIN txn[c].snap => k \in DOMAIN db /\ db[k] = txn[c].snap[k]
    BY <1>1, <1>4 DEF Own, SnapshotStands, TxnSteps
  <2> QED BY <1>2, <1>4, <2>1, <2>2
<1> QED BY <1>3, <1>4

LEMMA WriteOwn ==
    ASSUME SqlInv, OwnInv, NEW c \in Conn, Write(c)
    PROVE  OwnInv'
<1>1. /\ pc[c] = "write" /\ pc' = [pc EXCEPT ![c] = "flush"] /\ db' = merge_sorted(db, txn[c].overlay)
      /\ UNCHANGED <<lease, locks, req, txn>>
  BY DEF Write, SetPc
<1>2. pc'[c] = "flush" /\ \A d \in Conn \ {c} : pc'[d] = pc[d]
  BY <1>1 DEF SqlInv, LeaseInv
<1>3. Own(c)'
  BY <1>1, <1>2 DEF OwnInv, Own, SentAs, Leased, LeaseSteps, Covered, InsertsAlone, Checked, SnapshotStands, TxnSteps
<1>4. ASSUME NEW k, k \notin DOMAIN txn[c].overlay
      PROVE  (k \in DOMAIN db <=> k \in DOMAIN db') /\ (k \in DOMAIN db => db'[k] = db[k])
  BY <1>1, <1>4 DEF merge_sorted
<1>5. ASSUME NEW d \in Conn, d # c PROVE Own(d)'
  <2>1. Own(d) /\ Own(c) /\ pc'[d] = pc[d]
    BY <1>2, <1>5 DEF OwnInv
  <2>2. SentAs(d)' /\ Leased(d)' /\ Covered(txn[d])' /\ InsertsAlone(d)'
    BY <1>1, <2>1 DEF Own, SentAs, Leased, Covered, InsertsAlone, Inserts
  <2>3. Checked(d)'
    <3>1. SUFFICES ASSUME pc[d] = "write", NEW k \in txn[d].uniq PROVE k \notin DOMAIN db'
      <4>1. Held(d)' = Held(d)
        BY <1>1 DEF Held
      <4> QED BY <1>1, <2>1, <4>1 DEF Own, Checked
    <3>2. k \notin DOMAIN db /\ k[1] = "row" /\ k \in Held(d)
      BY <2>1, <3>1 DEF Own, Checked, Covered, LockKeys
    <3>3. CASE k \in DOMAIN txn[c].overlay
      <4>1. k \in txn[c].uniq
        BY <1>1, <3>2, <3>3, RowsWrittenFresh
      <4>2. k \in Held(c)
        BY <1>1, <2>1, <4>1 DEF Own, Checked, LockKeys
      <4> QED BY <1>5, <3>2, <4>2 DEF Held
    <3> QED BY <1>4, <3>2, <3>3
  <2>4. SnapshotStands(d)'
    <3>1. SUFFICES ASSUME req[d].mode # "auto", pc[d] \in TxnSteps, NEW k \in DOMAIN txn[d].snap, k[1] = "row"
                   PROVE  k \in DOMAIN db' /\ db'[k] = txn[d].snap[k]
      BY <1>1, <2>1 DEF SnapshotStands
    <3>2. k \in DOMAIN db /\ db[k] = txn[d].snap[k]
      BY <2>1, <3>1 DEF Own, SnapshotStands
    <3>3. req[c].mode = "auto"
      BY <1>1, <1>5, <3>1, OneLeased DEF LeaseSteps, TxnSteps
    <3>4. k \notin DOMAIN txn[c].overlay
      BY <1>1, <3>1, <3>2, <3>3, RowsWrittenFresh
    <3> QED BY <1>4, <3>2, <3>4
  <2> QED BY <2>2, <2>3, <2>4 DEF Own
<1> QED BY <1>3, <1>5 DEF OwnInv

LEMMA FlushOwn ==
    ASSUME SqlInv, OwnInv, NEW c \in Conn, Flush(c)
    PROVE  OwnInv'
<1>1. /\ pc[c] = "flush" /\ pc' = [pc EXCEPT ![c] = "report"]
      /\ UNCHANGED <<db, lease, locks, req, txn>>
  BY DEF Flush, SetPc
<1>2. pc'[c] = "report"
  BY <1>1 DEF SqlInv, LeaseInv
<1>3. Own(c)'
  BY <1>1, <1>2 DEF OwnInv, Own, SentAs, Leased, LeaseSteps, Covered, InsertsAlone, Checked, SnapshotStands, TxnSteps
<1> QED BY <1>1, <1>3, OwnMoves, RowsStay

LEMMA OwnInit ==
    ASSUME Init
    PROVE  OwnInv
<1>1. \A c \in Conn : pc[c] = "idle" /\ req[c] = NoRequest /\ txn[c] = NoTxn
  BY DEF Init, InitOn
<1> QED BY <1>1, NothingCovered DEF OwnInv, Own, SentAs, Leased, InsertsAlone, Checked, SnapshotStands, LeaseSteps,
           TxnSteps, NoRequest

LEMMA CrashOwn ==
    ASSUME Crash
    PROVE  OwnInv'
<1>1. ASSUME NEW c \in Conn PROVE Own(c)'
  <2>1. pc'[c] = "idle" /\ req'[c] = NoRequest /\ txn'[c] = NoTxn
    BY DEF Crash
  <2>2. SentAs(c)'
    BY <2>1 DEF SentAs, NoRequest
  <2>3. Covered(txn[c])'
    BY <2>1, NothingCovered DEF Covered
  <2> QED BY <2>1, <2>2, <2>3, OwnBefore DEF LeaseSteps
<1> QED BY <1>1 DEF OwnInv

LEMMA OwnStep ==
    ASSUME Routed, SqlInv, OwnInv, [Next]_vars
    PROVE  OwnInv'
<1>1. CASE UNCHANGED vars
  <2>1. ASSUME NEW c \in Conn PROVE Own(c)'
    BY <1>1, OthersKeep, RowsStay DEF vars, OwnInv, Held
  <2> QED BY <2>1 DEF OwnInv
<1>2. ASSUME NEW c \in Conn, Submit(c) \/ TakeLease(c) \/ acquire_unique_locks(c) \/ Drop(c) PROVE OwnInv'
  BY <1>2, SubmitOwn, TakeLeaseOwn, AcquireOwn, FinishOwn DEF Drop
<1>3. ASSUME NEW c \in Conn, CommitNothing(c) \/ Report(c) PROVE OwnInv'
  BY <1>3, EndTxnOwn DEF CommitNothing, Report
<1>4. ASSUME NEW c \in Conn, Continue(c) PROVE OwnInv'
  BY <1>3, <1>4, PrepareOwn, BeginOwn, ExecOwn, CheckOwn, WriteOwn, FlushOwn DEF Continue
<1> QED BY <1>1, <1>2, <1>4, CrashOwn DEF Next

-----------------------------------------------------------------------------
(* 11. The store implements SnapshotTable.                                  *)

\* The refinement mapping of SqlStore, part by part.
Seen(c) == IF InTxn(c) THEN <<RowsOf(txn[c].snap)>> ELSE <<>>
Committed(c) == IF pc[c] = "flush" THEN "visible" ELSE IF pc[c] = "report" THEN "stable" ELSE "none"
SeenAll == [c \in Conn |-> Seen(c)]
CommittedAll == [c \in Conn |-> Committed(c)]

LEMMA SameRowsOf ==
    ASSUME NEW f, NEW g, SameRows(f, g)
    PROVE  RowsOf(g) = RowsOf(f)
<1>1. {j \in DOMAIN f : j[1] = "row"} = {j \in DOMAIN g : j[1] = "row"}
  BY DEF SameRows
<1>2. \A k \in {j \in DOMAIN f : j[1] = "row"} : f[k] = g[k]
  BY DEF SameRows
<1> QED BY <1>1, <1>2 DEF RowsOf

\* A step of c that leaves every other request alone.
Alone(c) == \A d \in Conn \ {c} : pc'[d] = pc[d] /\ txn'[d] = txn[d]

LEMMA OthersSeen ==
    ASSUME NEW c \in Conn, Alone(c)
    PROVE  /\ SeenAll' = [SeenAll EXCEPT ![c] = Seen(c)']
           /\ CommittedAll' = [CommittedAll EXCEPT ![c] = Committed(c)']
<1>1. ASSUME NEW d \in Conn, d # c PROVE Seen(d)' = Seen(d) /\ Committed(d)' = Committed(d)
  BY <1>1 DEF Alone, Seen, Committed, InTxn
<1> QED BY <1>1 DEF SeenAll, CommittedAll

\* The promise of SnapshotTable for one step, in the store's own terms.
Promised ==
    \/ UNCHANGED <<RowsOf(db), RowsOf(durable), SeenAll, CommittedAll, commitSeq>>
    \/ Abstract!Flush \/ Abstract!Crash
    \/ \E c \in Conn : Abstract!Begin(c) \/ Abstract!Commit(c) \/ Abstract!Acknowledge(c) \/ Abstract!Abandon(c)

\* A request that goes away, or whose statement fails.
LEMMA EndsAbandoned ==
    ASSUME NEW c \in Conn, Alone(c), pc'[c] \in {"idle", "begin"}, UNCHANGED <<db, durable, commitSeq>>
    PROVE  Abstract!Abandon(c)
<1>1. Seen(c)' = <<>> /\ Committed(c)' = "none"
  BY DEF Seen, Committed, InTxn
<1>2. SeenAll' = [SeenAll EXCEPT ![c] = <<>>] /\ CommittedAll' = [CommittedAll EXCEPT ![c] = "none"]
  BY <1>1, OthersSeen
<1> QED BY <1>2 DEF Abstract!Abandon, SeenAll, CommittedAll, Seen, Committed

LEMMA FinishAlone ==
    ASSUME SqlInv, NEW c \in Conn, Finish(c) \/ EndTxn(c)
    PROVE  Alone(c) /\ pc'[c] \in {"idle", "begin"}
<1>1. PICK p \in {"idle", "begin"} : pc' = [pc EXCEPT ![c] = p] /\ txn' = [txn EXCEPT ![c] = NoTxn]
  BY DEF Finish, EndTxn, SetPc
<1> QED BY <1>1 DEF Alone, SqlInv, LeaseInv, RequestInv

\* Steps that no client sees.
LEMMA Unseen ==
    ASSUME NEW c \in Conn, Alone(c), SameRows(db, db'), UNCHANGED <<durable, commitSeq>>,
           Seen(c)' = Seen(c), Committed(c)' = Committed(c)
    PROVE  Promised
<1>1. RowsOf(db)' = RowsOf(db)
  BY SameRowsOf
<1>2. SeenAll' = SeenAll /\ CommittedAll' = CommittedAll
  BY OthersSeen DEF SeenAll, CommittedAll
<1> QED BY <1>1, <1>2 DEF Promised

LEMMA EarlyPromised ==
    ASSUME SqlInv, NEW c \in Conn, Submit(c) \/ Prepare(c) \/ Register(c) \/ TakeLease(c)
    PROVE  Promised
<1>1. PICK p : pc' = [pc EXCEPT ![c] = p] /\ p \in {"prepare", "begin", "register", "registered", "snapshot"}
  BY DEF Submit, Prepare, Register, TakeLease, SetPc
<1>2. pc[c] \in {"idle", "prepare", "begin", "register", "registered", "snapshot"}
  BY DEF Submit, Prepare, Register, TakeLease, Idle
<1>3. UNCHANGED <<durable, commitSeq, txn>>
  BY DEF Submit, Prepare, Register, TakeLease
<1>4. SameRows(db, db')
  <2>1. CASE db' = db
    BY <2>1, RowsStay
  <2>2. CASE db' = Over(reg[c], db)
    BY <2>2 DEF SqlInv, RequestInv, Registry, Over, SameRows
  <2> QED BY <2>1, <2>2 DEF Submit, Prepare, Register, TakeLease
<1>5. Alone(c) /\ pc'[c] = p
  BY <1>1, <1>3 DEF Alone, SqlInv, LeaseInv
<1>6. Seen(c)' = Seen(c) /\ Committed(c)' = Committed(c)
  BY <1>1, <1>2, <1>5 DEF Seen, Committed, InTxn
<1> QED BY <1>3, <1>4, <1>5, <1>6, Unseen

LEMMA RegisterFlushPromised ==
    ASSUME SqlInv, NEW c \in Conn, RegisterFlush(c)
    PROVE  Abstract!Flush
<1>1. /\ pc[c] = "registered" /\ pc' = [pc EXCEPT ![c] = "begin"] /\ durable' = db
      /\ UNCHANGED <<db, commitSeq, txn>>
  BY DEF RegisterFlush, SetPc
<1>2. Alone(c) /\ pc'[c] = "begin"
  BY <1>1 DEF Alone, SqlInv, LeaseInv
<1>3. Seen(c)' = Seen(c) /\ Committed(c)' = Committed(c)
  BY <1>1, <1>2 DEF Seen, Committed, InTxn
<1>4. SeenAll' = SeenAll /\ CommittedAll' = CommittedAll
  BY <1>2, <1>3, OthersSeen DEF SeenAll, CommittedAll
<1>5. RowsOf(durable)' = RowsOf(db)
  BY <1>1
<1> QED BY <1>1, <1>4, <1>5 DEF Abstract!Flush, SeenAll, CommittedAll, Seen, Committed

LEMMA BeginPromised ==
    ASSUME SqlInv, NEW c \in Conn, Begin(c)
    PROVE  Abstract!Begin(c)
<1>1. /\ pc[c] \in {"begin", "snapshot"} /\ pc' = [pc EXCEPT ![c] = "run"] /\ txn' = [txn EXCEPT ![c] = NewTxn(db, <<>>)]
      /\ UNCHANGED <<db, durable, commitSeq>>
  BY DEF Begin, SetPc
<1>2. Alone(c) /\ pc'[c] = "run" /\ txn'[c] = NewTxn(db, <<>>)
  BY <1>1 DEF Alone, SqlInv, LeaseInv, RequestInv
<1>3. Seen(c) = <<>> /\ Committed(c) = "none" /\ Committed(c)' = "none"
  BY <1>1, <1>2 DEF Seen, Committed, InTxn
<1>4. Seen(c)' = <<RowsOf(db)>>
  BY <1>2, NothingCovered DEF Seen, InTxn
<1>5. SeenAll' = [SeenAll EXCEPT ![c] = <<RowsOf(db)>>] /\ CommittedAll' = CommittedAll
  BY <1>2, <1>3, <1>4, OthersSeen DEF CommittedAll
<1> QED BY <1>1, <1>3, <1>5 DEF Abstract!Begin, SeenAll, CommittedAll, Seen, Committed

LEMMA ExecPromised ==
    ASSUME SqlInv, OwnInv, NEW c \in Conn, Exec(c)
    PROVE  Promised
<1>1. PICK y : y = [txn[c] EXCEPT !.seq = seq]
  OBVIOUS
<1>2. PICK q : q = Head(req[c].stmts)
  OBVIOUS
<1>3. PICK x : x = Execute(y, q)
  OBVIOUS
<1>4. pc[c] = "run" /\ req[c].stmts # <<>> /\ UNCHANGED <<db, durable, commitSeq>>
  BY DEF Exec
<1>5. \/ Finish(c)
      \/ /\ txn' = [txn EXCEPT ![c] = [x EXCEPT !.seq = <<>>]]
         /\ SetPc(c, IF req[c].mode = "block" /\ Len(req[c].stmts) > 1 THEN "run" ELSE "commit")
  BY <1>1, <1>2, <1>3, Zenon DEF Exec
<1>6. CASE Finish(c)
  BY <1>4, <1>6, FinishAlone, EndsAbandoned DEF Promised
<1>7. CASE /\ txn' = [txn EXCEPT ![c] = [x EXCEPT !.seq = <<>>]]
           /\ SetPc(c, IF req[c].mode = "block" /\ Len(req[c].stmts) > 1 THEN "run" ELSE "commit")
  <2>1. PICK p : p = IF req[c].mode = "block" /\ Len(req[c].stmts) > 1 THEN "run" ELSE "commit"
    OBVIOUS
  <2>2. p \in {"run", "commit"} /\ pc' = [pc EXCEPT ![c] = p]
    BY <1>7, <2>1 DEF SetPc
  <2>3. PICK z : z = [x EXCEPT !.seq = <<>>]
    OBVIOUS
  <2>4. Alone(c) /\ pc'[c] = p /\ txn'[c] = z
    BY <1>7, <2>2, <2>3 DEF Alone, SqlInv, RequestInv, LeaseInv
  <2>5. TxnOK(txn[c]) /\ req[c].stmts \in Seq(Statements)
    BY DEF SqlInv, RequestInv
  <2>6. y.snap = txn[c].snap /\ TxnOK(y)
    BY <1>1, <2>5, CounterSet DEF TxnOK
  <2>7. q \in Statements /\ q = req[c].stmts[1] /\ 1 \in DOMAIN req[c].stmts
    BY <1>2, <1>4, <2>5
  <2>8. q.op # "append"
    BY <2>7 DEF OwnInv, Own, SentAs
  <2>9. TxnOK(x) /\ Moves(y, x)
    BY <1>3, <2>6, <2>7, <2>8, StatementsOK, Executed
  <2>10. z.snap = txn[c].snap
    BY <2>3, <2>6, <2>9 DEF TxnOK, Moves
  <2>11. Seen(c)' = Seen(c) /\ Committed(c)' = Committed(c)
    BY <1>4, <2>2, <2>4, <2>10 DEF Seen, Committed, InTxn
  <2> QED BY <1>4, <2>4, <2>11, RowsStay, Unseen
<1> QED BY <1>5, <1>6, <1>7

LEMMA AcquirePromised ==
    ASSUME NEW c \in Conn, acquire_unique_locks(c)
    PROVE  Promised
<1>1. UNCHANGED <<db, durable, commitSeq, pc, txn>>
  BY DEF acquire_unique_locks
<1>2. Alone(c) /\ Seen(c)' = Seen(c) /\ Committed(c)' = Committed(c)
  BY <1>1 DEF Alone, Seen, Committed, InTxn
<1> QED BY <1>1, <1>2, RowsStay, Unseen

LEMMA CheckPromised ==
    ASSUME SqlInv, NEW c \in Conn, Check(c)
    PROVE  Promised
<1>1. pc[c] = "commit" /\ UNCHANGED <<db, durable, commitSeq>>
  BY DEF Check
<1>2. Finish(c) \/ (pc' = [pc EXCEPT ![c] = "write"] /\ txn' = txn)
  BY DEF Check, SetPc
<1>3. CASE Finish(c)
  BY <1>1, <1>3, FinishAlone, EndsAbandoned DEF Promised
<1>4. CASE pc' = [pc EXCEPT ![c] = "write"] /\ txn' = txn
  <2>1. Alone(c) /\ pc'[c] = "write"
    BY <1>4 DEF Alone, SqlInv, LeaseInv
  <2>2. Seen(c)' = Seen(c) /\ Committed(c)' = Committed(c)
    BY <1>1, <1>4, <2>1 DEF Seen, Committed, InTxn
  <2> QED BY <1>1, <2>1, <2>2, RowsStay, Unseen
<1> QED BY <1>2, <1>3, <1>4

\* The batch is the abstract commit: every row it changes is as the snapshot
\* had it.
LEMMA WritePromised ==
    ASSUME SqlInv, OwnInv, NEW c \in Conn, Write(c)
    PROVE  Abstract!Commit(c)
<1>1. /\ pc[c] = "write" /\ pc' = [pc EXCEPT ![c] = "flush"] /\ db' = merge_sorted(db, txn[c].overlay)
      /\ UNCHANGED <<durable, commitSeq, txn>>
  BY DEF Write, SetPc
<1>2. Alone(c) /\ pc'[c] = "flush"
  BY <1>1 DEF Alone, SqlInv, LeaseInv
<1>3. Seen(c) = <<RowsOf(txn[c].snap)>> /\ Seen(c)' = <<>> /\ Committed(c)' = "visible"
  BY <1>1, <1>2 DEF Seen, Committed, InTxn
<1>4. SeenAll' = [SeenAll EXCEPT ![c] = <<>>] /\ CommittedAll' = [CommittedAll EXCEPT ![c] = "visible"]
  BY <1>2, <1>3, OthersSeen
<1>5. SeenAll[c] = <<RowsOf(txn[c].snap)>>
  BY <1>3 DEF SeenAll
<1>6. ASSUME NEW k \in DOMAIN RowsOf(db) \cup DOMAIN RowsOf(db')
      PROVE  Abstract!Same(RowsOf(db'), RowsOf(db), k) \/ Abstract!Same(RowsOf(db), RowsOf(txn[c].snap), k)
  <2>1. k[1] = "row"
    BY <1>6 DEF RowsOf
  <2>2. CASE k \notin DOMAIN txn[c].overlay
    BY <1>1, <2>1, <2>2 DEF merge_sorted, RowsOf, Abstract!Same
  <2>3. CASE k \in DOMAIN txn[c].overlay
    BY <1>1, <2>1, <2>3, RowsWrittenFresh DEF RowsOf, Abstract!Same
  <2> QED BY <2>2, <2>3
<1> QED BY <1>1, <1>4, <1>5, <1>6 DEF Abstract!Commit, SeenAll, CommittedAll, Seen, Committed

LEMMA FlushPromised ==
    ASSUME SqlInv, NEW c \in Conn, Flush(c)
    PROVE  Abstract!Flush
<1>1. /\ pc[c] = "flush" /\ pc' = [pc EXCEPT ![c] = "report"] /\ durable' = db
      /\ UNCHANGED <<db, commitSeq, txn>>
  BY DEF Flush, SetPc
<1>2. Alone(c) /\ pc'[c] = "report"
  BY <1>1 DEF Alone, SqlInv, LeaseInv
<1>3. Seen(c)' = Seen(c) /\ Committed(c) = "visible" /\ Committed(c)' = "stable"
  BY <1>1, <1>2 DEF Seen, Committed, InTxn
<1>4. SeenAll' = SeenAll /\ CommittedAll' = [CommittedAll EXCEPT ![c] = "stable"] /\ CommittedAll[c] = "visible"
  BY <1>2, <1>3, OthersSeen DEF SeenAll, CommittedAll
<1>5. RowsOf(durable)' = RowsOf(db)
  BY <1>1
<1> QED BY <1>1, <1>4, <1>5 DEF Abstract!Flush, SeenAll, CommittedAll, Seen, Committed

LEMMA ReportPromised ==
    ASSUME SqlInv, NEW c \in Conn, Report(c)
    PROVE  Abstract!Acknowledge(c)
<1>1. pc[c] = "report" /\ EndTxn(c) /\ UNCHANGED <<db, durable>> /\ commitSeq' \in {commitSeq, commitSeq + 1}
  BY DEF Report
<1>2. Alone(c) /\ pc'[c] \in {"idle", "begin"}
  BY <1>1, FinishAlone
<1>3. Seen(c)' = Seen(c) /\ Committed(c) = "stable" /\ Committed(c)' = "none"
  BY <1>1, <1>2 DEF Seen, Committed, InTxn
<1>4. SeenAll' = SeenAll /\ CommittedAll' = [CommittedAll EXCEPT ![c] = "none"] /\ CommittedAll[c] = "stable"
  BY <1>2, <1>3, OthersSeen DEF SeenAll, CommittedAll
<1> QED BY <1>1, <1>4 DEF Abstract!Acknowledge, SeenAll, CommittedAll, Seen, Committed

LEMMA CrashPromised ==
    ASSUME Crash
    PROVE  Abstract!Crash
<1>1. db' = durable /\ durable' = durable /\ commitSeq' = 0 /\ \A c \in Conn : pc'[c] = "idle"
  BY DEF Crash
<1>2. \A c \in Conn : Seen(c)' = <<>> /\ Committed(c)' = "none"
  BY <1>1 DEF Seen, Committed, InTxn
<1>3. SeenAll' = [c \in Conn |-> <<>>] /\ CommittedAll' = [c \in Conn |-> "none"]
  BY <1>2 DEF SeenAll, CommittedAll
<1> QED BY <1>1, <1>3 DEF Abstract!Crash, SeenAll, CommittedAll, Seen, Committed

LEMMA StepPromised ==
    ASSUME SqlInv, OwnInv, [Next]_vars
    PROVE  Promised
<1>1. CASE UNCHANGED vars
  BY <1>1 DEF vars, Promised, SeenAll, CommittedAll, Seen, Committed, InTxn
<1>2. ASSUME NEW c \in Conn, CommitNothing(c) \/ Drop(c) PROVE Promised
  BY <1>2, FinishAlone, EndsAbandoned DEF CommitNothing, Drop, Promised
<1>3. ASSUME NEW c \in Conn, Submit(c) \/ TakeLease(c) \/ acquire_unique_locks(c) PROVE Promised
  BY <1>3, EarlyPromised, AcquirePromised
<1>4. ASSUME NEW c \in Conn, Continue(c) PROVE Promised
  <2>1. CASE Prepare(c) \/ Register(c) \/ Exec(c) \/ Check(c) \/ CommitNothing(c)
    BY <1>2, <2>1, EarlyPromised, ExecPromised, CheckPromised
  <2>2. CASE RegisterFlush(c) \/ Begin(c) \/ Write(c) \/ Flush(c) \/ Report(c)
    BY <2>2, RegisterFlushPromised, BeginPromised, WritePromised, FlushPromised, ReportPromised DEF Promised
  <2> QED BY <1>4, <2>1, <2>2 DEF Continue
<1>5. CASE Crash
  BY <1>5, CrashPromised DEF Promised
<1> QED BY <1>1, <1>2, <1>3, <1>4, <1>5 DEF Next

LEMMA InitPromised ==
    ASSUME Init
    PROVE  Abstract!Init
<1>1. db = durable /\ commitSeq = 0 /\ \A c \in Conn : pc[c] = "idle"
  BY DEF Init, InitOn
<1>2. \A c \in Conn : Seen(c) = <<>> /\ Committed(c) = "none"
  BY <1>1 DEF Seen, Committed, InTxn
<1>3. SeenAll = [c \in Conn |-> <<>>] /\ CommittedAll = [c \in Conn |-> "none"]
  BY <1>2 DEF SeenAll, CommittedAll
<1> QED BY <1>1, <1>3 DEF Abstract!Init, SeenAll, CommittedAll, Seen, Committed

\* Requests are snapshot transactions on one table of rows where the first
\* committer of a row wins, what is acknowledged is stable, and a crash loses
\* only what was not (begin, commit, SlateDB's batch and flush), for any number
\* of connections, any statements, schemas and crashes, if they are sent on the
\* connections the server sends them on.
THEOREM SqlStoreRefinesSnapshotTable == ASSUME Routed PROVE Spec => RefinesSnapshotTable
<1>1. Init => SqlInv /\ OwnInv
  BY SqlInvInit, OwnInit
<1>2. SqlInv /\ OwnInv /\ [Next]_vars => SqlInv' /\ OwnInv'
  BY SqlInvStep, OwnStep
<1>3. Init => Abstract!Init
  BY InitPromised
<1>4. SqlInv /\ OwnInv /\ [Next]_vars => [Abstract!Next]_(Abstract!avars)
  BY StepPromised DEF Promised, Abstract!Next, Abstract!avars, SeenAll, CommittedAll, Seen, Committed
<1> QED BY <1>1, <1>2, <1>3, <1>4, PTL DEF Spec, RefinesSnapshotTable, Abstract!Spec

-----------------------------------------------------------------------------
(* 12. No two rows come to share a value of a unique index.  A writer holds  *)
(* the lock of each such value it writes and has looked the value up in the  *)
(* store since; and the indexes are those of its snapshot, since statements  *)
(* that change schemas run alone.                                            *)

\* A request that changes schemas has the store to itself, and a block that
\* changes a schema does nothing else.  (A block that renames a table and then
\* inserts looks the unique indexes up under the table's new name, while the
\* registry keeps them under the old one.)
DdlAlone ==
    QuietDDL /\ \A r \in Request : r.mode = "block" /\ ChangesSchema(r) => Len(r.stmts) = 1

Sole(c) == req[c].ddl /\ pc[c] # "idle" => \A d \in Conn \ {c} : pc[d] = "idle"
PlainRequest(c) ==
    ~ req[c].ddl => /\ \A n \in DOMAIN req[c].stmts : ~ IsDDL(req[c].stmts[n])
                    /\ pc[c] = "register" => DOMAIN reg[c] \subseteq {views_key}
ShortBlock(c) == req[c].ddl /\ req[c].mode = "block" => Len(req[c].stmts) <= 1
GuardedTxn(c) ==
    pc[c] \in TxnSteps =>
        /\ SameTables(txn[c].snap, db) /\ EntriesGuarded(txn[c]) /\ Numbered(txn[c])
        /\ ~ req[c].ddl => RowsOnly(txn[c].overlay)
        /\ req[c].ddl /\ pc[c] = "run" => DOMAIN txn[c].overlay = {}
ValuesFree(x, store) ==
    \A u \in x.uniqIdx : \A k \in DOMAIN store :
        k[1] = "index" /\ SubSeq(k, 1, 4) = u.prefix /\ k[4] # Null /\ Enforced(store, k[2], k[3]) => k[5] = u.pk
ValuesChecked(c) == pc[c] = "write" => LockKeys(txn[c]) \subseteq Held(c) /\ ValuesFree(txn[c], db)

ValuesOwn(c) == Sole(c) /\ PlainRequest(c) /\ ShortBlock(c) /\ GuardedTxn(c) /\ ValuesChecked(c)
ValuesInv == Numbered(View(db)) /\ Numbered(View(durable)) /\ \A c \in Conn : ValuesOwn(c)

LEMMA PrefixOf ==
    ASSUME NEW k, k = index_entry_key(k[2], k[3], k[4], k[5])
    PROVE  SubSeq(k, 1, 4) = index_value_prefix(k[2], k[3], k[4])
<1>1. PICK a, b, v, pk : a = k[2] /\ b = k[3] /\ v = k[4] /\ pk = k[5]
  OBVIOUS
<1>2. k = <<"index", a, b, v, pk>>
  BY <1>1 DEF index_entry_key
<1>3. SubSeq(k, 1, 4) = <<"index", a, b, v>>
  <2>1. PICK S : S = {"index", a, b, v}
    OBVIOUS
  <2>2. PICK p : p = <<"index", a, b, v>>
    OBVIOUS
  <2>3. PICK h : h = SubSeq(k, 1, 4)
    OBVIOUS
  <2>4. k[1] = "index" /\ k[2] = a /\ k[3] = b /\ k[4] = v
    BY <1>2
  <2>5. \A i \in 1..4 : k[i] \in S
    BY <2>1, <2>4
  <2>6. /\ h \in Seq(S) /\ Len(h) = 4
        /\ \A i \in 1..4 : h[i] = k[1 + i - 1]
    BY <2>3, <2>5, SubSeqProperties
  <2>7. p \in Seq(S) /\ Len(p) = 4
    BY <2>1, <2>2
  <2>8. \A i \in 1..4 : h[i] = p[i]
    BY <2>2, <2>4, <2>6
  <2>9. h = p
    BY <2>6, <2>7, <2>8, SeqEqual
  <2> QED BY <2>2, <2>3, <2>9
<1> QED BY <1>1, <1>2, <1>3 DEF index_value_prefix

LEMMA SameTablesTwice ==
    ASSUME NEW f, NEW g, NEW h, SameTables(f, g), SameTables(g, h)
    PROVE  SameTables(f, h)
BY DEF SameTables

LEMMA SameTablesBack ==
    ASSUME NEW f, NEW g, SameTables(f, g)
    PROVE  SameTables(g, f)
BY DEF SameTables

LEMMA SameTablesItself == \A f : SameTables(f, f)
BY DEF SameTables

\* Rows, entries and views are no part of the catalog.
LEMMA RowsMerged ==
    ASSUME NEW s, NEW f, RowsOnly(f)
    PROVE  SameTables(s, merge_sorted(s, f))
<1>1. PICK m : m = merge_sorted(s, f)
  OBVIOUS
<1>2. ASSUME NEW k, k \notin DOMAIN f PROVE (k \in DOMAIN m <=> k \in DOMAIN s) /\ (k \in DOMAIN s => m[k] = s[k])
  BY <1>1, <1>2 DEF merge_sorted
<1> QED BY <1>1, <1>2 DEF SameTables, RowsOnly

LEMMA ViewsRegistered ==
    ASSUME NEW s, NEW f, DOMAIN f \subseteq {views_key}
    PROVE  SameTables(s, Over(f, s))
<1>1. \A k \in DOMAIN f : k[1] = "views"
  BY DEF views_key
<1> QED BY <1>1 DEF SameTables, Over

LEMMA EnforcedSame ==
    ASSUME NEW f, NEW g, StoreOK(f), Numbered(View(f)), SameTables(f, g), NEW id, NEW i, Enforced(f, id, i)
    PROVE  Enforced(g, id, i)
<1>1. PICK t \in Tables(f) : /\ f[tableid_key(t)] = id /\ i \in Live(f, uniqueidx_key(t), {})
                             /\ \E d \in f[schema_key(t)].indexes : d.name = i
  BY DEF Enforced
<1>2. PICK k \in DOMAIN f : k[1] = "schema" /\ k[2] = t
  BY DEF Tables
<1>3. k = schema_key(t)
  BY <1>2 DEF StoreOK, RecordOK
<1>4. read_key(View(f), schema_key(t)) # <<>>
  <2>1. read_key(View(f), schema_key(t)) = <<f[k]>>
    BY <1>3, ViewReads
  <2> QED BY <2>1
<1>5. tableid_key(t) \in DOMAIN f
  BY <1>4, ViewReads DEF Numbered
<1>6. k \in DOMAIN g /\ g[k] = f[k]
  BY <1>2 DEF SameTables
<1>7. g[tableid_key(t)] = f[tableid_key(t)]
  BY <1>5 DEF SameTables, tableid_key
<1>8. Live(g, uniqueidx_key(t), {}) = Live(f, uniqueidx_key(t), {})
  <2>1. uniqueidx_key(t)[1] = "uniqueidx"
    BY DEF uniqueidx_key
  <2> QED BY <2>1 DEF SameTables, Live
<1>9. t \in Tables(g)
  BY <1>2, <1>6 DEF Tables
<1> QED BY <1>1, <1>3, <1>6, <1>7, <1>8, <1>9 DEF Enforced

\* A request without schema statements prepares at most the views.
LEMMA PlainPrepared ==
    ASSUME NEW s, NEW r, \A n \in DOMAIN r.stmts : ~ IsDDL(r.stmts[n])
    PROVE  DOMAIN prepare(s, r) \subseteq {views_key}
<1>1. PICK views : views = view_rewrite(s, r)
  OBVIOUS
<1>2. DOMAIN views \subseteq {views_key}
  <2>1. PICK done : done = rewritten_views(s, r)
    OBVIOUS
  <2>2. views = IF done.touched THEN Single(views_key, done.views) ELSE <<>>
    BY <1>1, <2>1 DEF view_rewrite
  <2> QED BY <2>2 DEF Single
<1>3. DOMAIN prepare(s, r) = DOMAIN views \cup UNION {DOMAIN apply(s, r.stmts[n]) : n \in DOMAIN r.stmts}
  BY <1>1 DEF prepare
<1>4. ASSUME NEW n \in DOMAIN r.stmts PROVE DOMAIN apply(s, r.stmts[n]) = {}
  <2>1. PICK q : q = r.stmts[n]
    OBVIOUS
  <2>2. q.op \in {"insert", "append", "update", "delete", "select"}
    BY <2>1 DEF IsDDL
  <2>3. apply(s, q) = <<>>
    BY <2>2 DEF apply
  <2> QED BY <2>1, <2>3
<1> QED BY <1>2, <1>3, <1>4

\* A request that a step leaves alone.
LEMMA OthersIdle ==
    ASSUME NEW d, ValuesOwn(d), req'[d] = req[d], pc'[d] = "idle"
    PROVE  ValuesOwn(d)'
BY DEF ValuesOwn, Sole, PlainRequest, ShortBlock, GuardedTxn, TxnSteps, ValuesChecked

LEMMA OthersGuarded ==
    ASSUME NEW d, ValuesOwn(d), pc'[d] = pc[d], req'[d] = req[d], reg'[d] = reg[d], txn'[d] = txn[d],
           SameTables(db, db'), Sole(d)', ValuesChecked(d)'
    PROVE  ValuesOwn(d)'
<1>1. PlainRequest(d)' /\ ShortBlock(d)'
  BY DEF ValuesOwn, PlainRequest, ShortBlock
<1>2. GuardedTxn(d)'
  BY SameTablesTwice DEF ValuesOwn, GuardedTxn
<1> QED BY <1>1, <1>2 DEF ValuesOwn

\* Values stay free while the catalog stays and no entry is added.
LEMMA ValuesStayFree ==
    ASSUME NEW x, NEW f, NEW g, StoreOK(g), Numbered(View(g)), ValuesFree(x, f), SameTables(f, g),
           \A k \in DOMAIN g : k[1] = "index" => k \in DOMAIN f
    PROVE  ValuesFree(x, g)
<1>1. ASSUME NEW k, Enforced(g, k[2], k[3]) PROVE Enforced(f, k[2], k[3])
  BY <1>1, EnforcedSame, SameTablesBack
<1> QED BY <1>1 DEF ValuesFree

\* Nobody else is there when a request that changes schemas works.
LEMMA SoleStays ==
    ASSUME NEW c \in Conn, NEW d \in Conn, d # c, Sole(d), pc[c] # "idle", pc'[d] = pc[d], req'[d] = req[d]
    PROVE  Sole(d)'
BY DEF Sole

\* Steps of c that change no store.
LEMMA ValuesMove ==
    ASSUME SqlInv, ValuesInv, NEW c \in Conn, pc[c] # "idle", NEW p, pc' = [pc EXCEPT ![c] = p],
           \A d \in Conn \ {c} : /\ req'[d] = req[d] /\ reg'[d] = reg[d] /\ txn'[d] = txn[d]
                                 /\ Held(d) \subseteq Held(d)',
           db' = db, durable' \in {durable, db}, ValuesOwn(c)'
    PROVE  ValuesInv'
<1>1. ASSUME NEW d \in Conn, d # c PROVE ValuesOwn(d)'
  <2>1. ValuesOwn(d) /\ pc'[d] = pc[d]
    BY <1>1 DEF ValuesInv, SqlInv, LeaseInv
  <2>2. Sole(d)'
    BY <1>1, <2>1, SoleStays DEF ValuesOwn
  <2>3. ValuesChecked(d)'
    BY <1>1, <2>1 DEF ValuesOwn, ValuesChecked
  <2> QED BY <1>1, <2>1, <2>2, <2>3, OthersGuarded, SameTablesItself
<1> QED BY <1>1 DEF ValuesInv

\* A request that ends, or goes on to its next statement.
LEMMA ValuesEnd ==
    ASSUME SqlInv, ValuesInv, NEW c \in Conn, pc[c] # "idle", NEW p \in {"idle", "begin"}, pc' = [pc EXCEPT ![c] = p],
           txn' = [txn EXCEPT ![c] = NoTxn],
           \/ req' = [req EXCEPT ![c] = NoRequest] /\ reg' = [reg EXCEPT ![c] = <<>>]
           \/ UNCHANGED <<req, reg>>,
           locks' = [k \in {j \in DOMAIN locks : locks[j] # c} |-> locks[k]], UNCHANGED <<db, durable>>
    PROVE  ValuesInv'
<1>1. /\ pc'[c] = p /\ (req'[c] = NoRequest \/ req'[c] = req[c])
      /\ \A d \in Conn \ {c} : pc'[d] = pc[d] /\ txn'[d] = txn[d] /\ req'[d] = req[d] /\ reg'[d] = reg[d]
  BY DEF SqlInv, LeaseInv, RequestInv
<1>2. \A d \in Conn \ {c} : Held(d) \subseteq Held(d)'
  BY DEF Held
<1>3. ValuesOwn(c)
  BY DEF ValuesInv
<1>4. Sole(c)'
  <2>1. CASE req'[c] = NoRequest
    BY <2>1 DEF Sole, NoRequest
  <2>2. CASE req'[c] = req[c]
    BY <1>1, <1>3, <2>2 DEF ValuesOwn, Sole
  <2> QED BY <1>1, <2>1, <2>2
<1>5. PlainRequest(c)' /\ ShortBlock(c)'
  <2>1. CASE req'[c] = NoRequest
    BY <1>1, <2>1 DEF PlainRequest, ShortBlock, NoRequest
  <2>2. CASE req'[c] = req[c]
    BY <1>1, <1>3, <2>2 DEF ValuesOwn, PlainRequest, ShortBlock
  <2> QED BY <1>1, <2>1, <2>2
<1>6. GuardedTxn(c)' /\ ValuesChecked(c)'
  BY <1>1 DEF GuardedTxn, ValuesChecked, TxnSteps
<1> QED BY <1>1, <1>2, <1>4, <1>5, <1>6, ValuesMove DEF ValuesOwn

LEMMA FinishValues ==
    ASSUME SqlInv, ValuesInv, NEW c \in Conn, pc[c] # "idle", Finish(c), UNCHANGED <<db, durable>>
    PROVE  ValuesInv'
BY ValuesEnd DEF Finish, SetPc

LEMMA EndTxnValues ==
    ASSUME SqlInv, ValuesInv, NEW c \in Conn, pc[c] # "idle", EndTxn(c), UNCHANGED <<db, durable>>
    PROVE  ValuesInv'
<1>1. CASE req[c].stmts = <<>>
  BY <1>1, FinishValues DEF EndTxn
<1>2. CASE req[c].stmts # <<>>
  BY <1>2, ValuesEnd DEF EndTxn, SetPc
<1> QED BY <1>1, <1>2

LEMMA SubmitValues ==
    ASSUME DdlAlone, SqlInv, ValuesInv, NEW c \in Conn, Submit(c)
    PROVE  ValuesInv'
<1>1. PICK r \in Request :
         /\ \A d \in Conn \ {c} : ~ Idle(d) => ~ ChangesSchema(r) /\ ~ req[d].ddl
         /\ req' = [req EXCEPT ![c] = [mode |-> r.mode, stmts |-> r.stmts, ddl |-> ChangesSchema(r)]]
  BY DEF Submit, DdlAlone
<1>2. /\ pc' = [pc EXCEPT ![c] = "prepare"]
      /\ UNCHANGED <<db, durable, lease, locks, seq, commitSeq, observed, reg, txn, crashes>>
  BY DEF Submit, SetPc
<1>3. PICK new : new = [mode |-> r.mode, stmts |-> r.stmts, ddl |-> ChangesSchema(r)]
  OBVIOUS
<1>4. new.stmts = r.stmts /\ new.mode = r.mode /\ new.ddl = ChangesSchema(r)
  BY <1>3
<1>5. /\ req'[c] = new /\ pc'[c] = "prepare"
      /\ \A d \in Conn \ {c} : req'[d] = req[d] /\ pc'[d] = pc[d]
  BY <1>1, <1>2, <1>3 DEF SqlInv, RequestInv, LeaseInv
<1>6. ASSUME NEW d \in Conn, d # c PROVE ValuesOwn(d)'
  <2>1. ValuesOwn(d)
    BY DEF ValuesInv
  <2>2. Sole(d)'
    BY <1>1, <1>5, <1>6 DEF Sole, Idle
  <2>3. ValuesChecked(d)'
    BY <1>2, <1>5, <1>6, <2>1 DEF ValuesOwn, ValuesChecked, Held
  <2> QED BY <1>2, <1>5, <1>6, <2>1, <2>2, <2>3, OthersGuarded, SameTablesItself
<1>7. ValuesOwn(c)'
  <2>1. Sole(c)'
    BY <1>1, <1>4, <1>5 DEF Sole, Idle
  <2>2. PlainRequest(c)'
    BY <1>4, <1>5 DEF PlainRequest, ChangesSchema
  <2>3. ShortBlock(c)'
    <3>1. ASSUME ChangesSchema(r), r.mode = "block" PROVE Len(r.stmts) = 1
      BY <3>1, Zenon DEF DdlAlone
    <3>2. ASSUME new.ddl, new.mode = "block" PROVE Len(new.stmts) <= 1
      <4>1. ChangesSchema(r) /\ r.mode = "block"
        BY <1>4, <3>2, Zenon
      <4>2. Len(new.stmts) = 1
        BY <1>4, <3>1, <4>1, Zenon
      <4> QED BY <4>2
    <3> QED BY <1>5, <3>2 DEF ShortBlock
  <2>4. GuardedTxn(c)' /\ ValuesChecked(c)'
    BY <1>5 DEF GuardedTxn, ValuesChecked, TxnSteps
  <2> QED BY <2>1, <2>2, <2>3, <2>4 DEF ValuesOwn
<1> QED BY <1>2, <1>6, <1>7 DEF ValuesInv

\* The request that steps, when it only moves on to a step without transaction.
LEMMA ValuesBefore ==
    ASSUME NEW c, ValuesOwn(c), req'[c] = req[c], pc[c] # "idle", \A d \in Conn \ {c} : pc'[d] = pc[d],
           pc'[c] \notin TxnSteps,
           ~ req[c].ddl /\ pc'[c] = "register" => DOMAIN reg'[c] \subseteq {views_key}
    PROVE  ValuesOwn(c)'
<1>1. Sole(c)' /\ PlainRequest(c)' /\ ShortBlock(c)'
  BY DEF ValuesOwn, Sole, PlainRequest, ShortBlock
<1>2. GuardedTxn(c)' /\ ValuesChecked(c)'
  BY DEF GuardedTxn, ValuesChecked, TxnSteps
<1> QED BY <1>1, <1>2 DEF ValuesOwn

LEMMA PrepareValues ==
    ASSUME SqlInv, ValuesInv, NEW c \in Conn, Prepare(c)
    PROVE  ValuesInv'
<1>1. PICK f : f = prepare(db, req[c])
  OBVIOUS
<1>2. PICK p : p = IF f = <<>> THEN "begin" ELSE "register"
  OBVIOUS
<1>3. /\ pc[c] = "prepare" /\ pc' = [pc EXCEPT ![c] = p] /\ reg' = [reg EXCEPT ![c] = f] /\ p \in {"begin", "register"}
      /\ UNCHANGED <<db, durable, lease, locks, seq, commitSeq, observed, req, txn, started, crashes>>
  BY <1>1, <1>2 DEF Prepare, SetPc
<1>4. pc'[c] = p /\ reg'[c] = f /\ \A d \in Conn \ {c} : pc'[d] = pc[d] /\ reg'[d] = reg[d]
  BY <1>3 DEF SqlInv, LeaseInv, RequestInv
<1>5. ValuesOwn(c)
  BY DEF ValuesInv
<1>6. ~ req[c].ddl => DOMAIN f \subseteq {views_key}
  BY <1>1, <1>5, PlainPrepared DEF ValuesOwn, PlainRequest
<1>7. ValuesOwn(c)'
  BY <1>3, <1>4, <1>5, <1>6, ValuesBefore DEF TxnSteps
<1>8. \A d \in Conn : Held(d)' = Held(d)
  BY <1>3 DEF Held
<1> QED BY <1>3, <1>4, <1>7, <1>8, ValuesMove

LEMMA PassValues ==
    ASSUME SqlInv, ValuesInv, NEW c \in Conn, RegisterFlush(c) \/ TakeLease(c) \/ Flush(c)
    PROVE  ValuesInv'
<1>1. /\ pc[c] \in {"registered", "begin", "flush"} /\ UNCHANGED <<db, locks, req, reg, txn>> /\ durable' \in {durable, db}
      /\ \E p \in {"begin", "snapshot", "report"} : pc' = [pc EXCEPT ![c] = p]
  BY DEF RegisterFlush, TakeLease, Flush, SetPc
<1>2. PICK p \in {"begin", "snapshot", "report"} : pc' = [pc EXCEPT ![c] = p]
  BY <1>1
<1>3. pc'[c] = p /\ \A d \in Conn \ {c} : pc'[d] = pc[d]
  BY <1>2 DEF SqlInv, LeaseInv
<1>4. ValuesOwn(c)'
  BY <1>1, <1>3, ValuesBefore DEF ValuesInv, TxnSteps
<1>5. \A d \in Conn : Held(d)' = Held(d)
  BY <1>1 DEF Held
<1> QED BY <1>1, <1>2, <1>4, <1>5, ValuesMove

LEMMA BeginValues ==
    ASSUME SqlInv, ValuesInv, NEW c \in Conn, Begin(c)
    PROVE  ValuesInv'
<1>1. /\ pc[c] \in {"begin", "snapshot"} /\ pc' = [pc EXCEPT ![c] = "run"] /\ txn' = [txn EXCEPT ![c] = NewTxn(db, <<>>)]
      /\ UNCHANGED <<db, durable, lease, locks, seq, commitSeq, observed, req, reg, started, crashes>>
  BY DEF Begin, SetPc
<1>2. PICK x : x = NewTxn(db, <<>>)
  OBVIOUS
<1>3. x.snap = db /\ x.overlay = <<>> /\ x = View(db)
  BY <1>2, NothingCovered DEF View
<1>4. DOMAIN x.overlay = {}
  BY <1>3
<1>5. /\ pc'[c] = "run" /\ txn'[c] = x
      /\ \A d \in Conn \ {c} : pc'[d] = pc[d] /\ txn'[d] = txn[d]
  BY <1>1, <1>2 DEF SqlInv, LeaseInv, RequestInv
<1>6. ValuesOwn(c) /\ Numbered(x)
  BY <1>3 DEF ValuesInv
<1>7. Sole(c)' /\ PlainRequest(c)' /\ ShortBlock(c)' /\ ValuesChecked(c)'
  BY <1>1, <1>5, <1>6 DEF ValuesOwn, Sole, PlainRequest, ShortBlock, ValuesChecked
<1>8. GuardedTxn(c)'
  <2>1. SameTables(x.snap, db')
    BY <1>1, <1>3, SameTablesItself
  <2>2. EntriesGuarded(x) /\ RowsOnly(x.overlay)
    BY <1>4 DEF EntriesGuarded, MustGuard, RowsOnly
  <2> QED BY <1>4, <1>5, <1>6, <2>1, <2>2 DEF GuardedTxn
<1>9. \A d \in Conn : Held(d)' = Held(d)
  BY <1>1 DEF Held
<1>10. ValuesOwn(c)'
  BY <1>7, <1>8 DEF ValuesOwn
<1> QED BY <1>1, <1>5, <1>9, <1>10, ValuesMove

LEMMA ExecValues ==
    ASSUME SqlInv, ValuesInv, NEW c \in Conn, Exec(c)
    PROVE  ValuesInv'
<1>1. PICK y : y = [txn[c] EXCEPT !.seq = seq]
  OBVIOUS
<1>2. PICK q : q = Head(req[c].stmts)
  OBVIOUS
<1>3. PICK x : x = Execute(y, q)
  OBVIOUS
<1>4. pc[c] = "run" /\ req[c].stmts # <<>> /\ UNCHANGED <<db, durable>>
  BY DEF Exec
<1>5. \/ Finish(c)
      \/ /\ txn' = [txn EXCEPT ![c] = [x EXCEPT !.seq = <<>>]]
         /\ req' = [req EXCEPT ![c] = [mode |-> req[c].mode, stmts |-> Tail(req[c].stmts), ddl |-> req[c].ddl]]
         /\ SetPc(c, IF req[c].mode = "block" /\ Len(req[c].stmts) > 1 THEN "run" ELSE "commit")
         /\ UNCHANGED <<lease, locks, reg>>
  BY <1>1, <1>2, <1>3, Zenon DEF Exec
<1>6. CASE Finish(c)
  BY <1>4, <1>6, FinishValues
<1>7. CASE /\ txn' = [txn EXCEPT ![c] = [x EXCEPT !.seq = <<>>]]
           /\ req' = [req EXCEPT ![c] = [mode |-> req[c].mode, stmts |-> Tail(req[c].stmts), ddl |-> req[c].ddl]]
           /\ SetPc(c, IF req[c].mode = "block" /\ Len(req[c].stmts) > 1 THEN "run" ELSE "commit")
           /\ UNCHANGED <<lease, locks, reg>>
  <2>1. PICK p : p = IF req[c].mode = "block" /\ Len(req[c].stmts) > 1 THEN "run" ELSE "commit"
    OBVIOUS
  <2>2. p \in {"run", "commit"} /\ pc' = [pc EXCEPT ![c] = p]
    BY <1>7, <2>1 DEF SetPc
  <2>3. PICK z : z = [x EXCEPT !.seq = <<>>]
    OBVIOUS
  <2>4. PICK r : r = [mode |-> req[c].mode, stmts |-> Tail(req[c].stmts), ddl |-> req[c].ddl]
    OBVIOUS
  <2>5. r.mode = req[c].mode /\ r.stmts = Tail(req[c].stmts) /\ r.ddl = req[c].ddl
    BY <2>4
  <2>6. /\ pc'[c] = p /\ txn'[c] = z /\ req'[c] = r
        /\ \A d \in Conn \ {c} : pc'[d] = pc[d] /\ txn'[d] = txn[d] /\ req'[d] = req[d] /\ reg'[d] = reg[d]
    BY <1>7, <2>2, <2>3, <2>4 DEF SqlInv, RequestInv, LeaseInv
  <2>7. TxnOK(txn[c]) /\ req[c].stmts \in Seq(Statements)
    BY DEF SqlInv, RequestInv
  <2>8. TxnOK(y) /\ y.snap = txn[c].snap /\ y.overlay = txn[c].overlay /\ y.uniqIdx = txn[c].uniqIdx
    BY <1>1, <2>7, CounterSet DEF TxnOK
  <2>9. q \in Statements /\ q = req[c].stmts[1] /\ 1 \in DOMAIN req[c].stmts
    BY <1>2, <1>4, <2>7
  <2>10. StatementOK(q) /\ TxnOK(x)
    BY <1>3, <2>8, <2>9, StatementsOK, Executed
  <2>11. z.snap = x.snap /\ z.overlay = x.overlay /\ z.uniqIdx = x.uniqIdx
    BY <2>3, <2>10 DEF TxnOK
  <2>12. /\ ValuesOwn(c) /\ SameTables(txn[c].snap, db) /\ EntriesGuarded(txn[c]) /\ Numbered(txn[c])
         /\ ~ req[c].ddl => RowsOnly(txn[c].overlay)
         /\ req[c].ddl => DOMAIN txn[c].overlay = {}
    BY <1>4 DEF ValuesInv, ValuesOwn, GuardedTxn, TxnSteps
  <2>13. ~ req[c].ddl => ~ IsDDL(q)
    BY <2>9, <2>12 DEF ValuesOwn, PlainRequest
  <2>14. Numbered(y) /\ EntriesGuarded(y)
    BY <2>8, <2>12 DEF Numbered, table_id, read_key, EntriesGuarded, MustGuard, EntryGuarded, scan_range
  <2>15. (DOMAIN y.overlay = {} /\ Numbered(y)) \/ (~ IsDDL(q) /\ Guarded(y))
    <3>1. CASE req[c].ddl
      BY <2>8, <2>12, <2>14, <3>1
    <3>2. CASE ~ req[c].ddl
      <4>1. RowsOnly(y.overlay)
        BY <2>8, <2>12, <3>2
      <4>2. \A k : k[1] \in {"schema", "tableid", "tableid_seq"} => read_key(View(y.snap), k) = read_key(y, k)
        BY <4>1, ReadsSnapshot DEF RowsOnly
      <4>3. Numbered(View(y.snap))
        BY <2>14, <4>2, NumberedSame
      <4> QED BY <2>13, <2>14, <3>2, <4>1, <4>3 DEF Guarded
    <3> QED BY <3>1, <3>2
  <2>16. Numbered(x) /\ EntriesGuarded(x) /\ x.snap = y.snap /\ (~ IsDDL(q) => RowsOnly(x.overlay))
    BY <1>3, <2>8, <2>10, <2>15, ExecutedGuarded
  <2>17. Numbered(z) /\ EntriesGuarded(z)
    BY <2>11, <2>16 DEF Numbered, table_id, read_key, EntriesGuarded, MustGuard, EntryGuarded, scan_range
  <2>18. req[c].ddl => p = "commit"
    <3>1. ASSUME req[c].ddl, req[c].mode = "block" PROVE ~(Len(req[c].stmts) > 1)
      <4>1. Len(req[c].stmts) <= 1 /\ Len(req[c].stmts) \in Nat
        BY <2>7, <2>12, <3>1 DEF ValuesOwn, ShortBlock
      <4> QED BY <4>1
    <3> QED BY <2>1, <3>1
  <2>19. GuardedTxn(c)'
    <3>1. SameTables(z.snap, db')
      BY <1>4, <2>8, <2>11, <2>12, <2>16
    <3>2. ~ req[c].ddl => RowsOnly(z.overlay)
      BY <2>11, <2>13, <2>16
    <3> QED BY <2>5, <2>6, <2>17, <2>18, <3>1, <3>2 DEF GuardedTxn
  <2>20. Sole(c)' /\ ValuesChecked(c)'
    BY <1>4, <2>2, <2>5, <2>6, <2>12 DEF ValuesOwn, Sole, ValuesChecked
  <2>21. PlainRequest(c)'
    <3>1. ASSUME NEW n \in DOMAIN r.stmts PROVE n + 1 \in DOMAIN req[c].stmts /\ r.stmts[n] = req[c].stmts[n + 1]
      BY <1>4, <2>5, <2>7
    <3> QED BY <2>2, <2>5, <2>6, <2>12, <3>1 DEF ValuesOwn, PlainRequest
  <2>22. ShortBlock(c)'
    <3>1. Len(r.stmts) = Len(req[c].stmts) - 1 /\ Len(req[c].stmts) \in Nat
      BY <1>4, <2>5, <2>7
    <3>2. ASSUME req[c].ddl, req[c].mode = "block" PROVE Len(r.stmts) <= 1
      <4>1. Len(req[c].stmts) <= 1
        BY <2>12, <3>2 DEF ValuesOwn, ShortBlock
      <4> QED BY <3>1, <4>1
    <3> QED BY <2>5, <2>6, <3>2 DEF ShortBlock
  <2>23. \A d \in Conn : Held(d)' = Held(d)
    BY <1>7 DEF Held
  <2>24. ValuesOwn(c)'
    BY <2>19, <2>20, <2>21, <2>22 DEF ValuesOwn
  <2> QED BY <1>4, <2>2, <2>6, <2>23, <2>24, ValuesMove
<1> QED BY <1>5, <1>6, <1>7

LEMMA AcquireValues ==
    ASSUME SqlInv, ValuesInv, NEW c \in Conn, acquire_unique_locks(c)
    PROVE  ValuesInv'
<1>1. PICK k : k \notin DOMAIN locks /\ locks' = Over(Single(k, c), locks)
  BY DEF acquire_unique_locks
<1>2. UNCHANGED <<db, durable, pc, req, reg, txn>>
  BY DEF acquire_unique_locks
<1>3. ASSUME NEW d \in Conn PROVE Held(d) \subseteq Held(d)'
  BY <1>1 DEF Held, Over, Single
<1>4. ASSUME NEW d \in Conn PROVE ValuesOwn(d)'
  <2>1. ValuesOwn(d)
    BY DEF ValuesInv
  <2>2. Sole(d)'
    BY <1>2, <2>1 DEF ValuesOwn, Sole
  <2>3. ValuesChecked(d)'
    BY <1>2, <1>3, <2>1 DEF ValuesOwn, ValuesChecked
  <2> QED BY <1>2, <2>1, <2>2, <2>3, OthersGuarded, SameTablesItself
<1> QED BY <1>2, <1>4 DEF ValuesInv

LEMMA CheckValues ==
    ASSUME SqlInv, ValuesInv, NEW c \in Conn, Check(c)
    PROVE  ValuesInv'
<1>1. pc[c] = "commit" /\ LockKeys(txn[c]) \subseteq Held(c) /\ UNCHANGED <<db, durable>>
  BY DEF Check
<1>2. \/ Finish(c)
      \/ StillUnique(txn[c]) /\ pc' = [pc EXCEPT ![c] = "write"] /\ UNCHANGED <<lease, locks, req, reg, txn>>
  BY DEF Check, SetPc
<1>3. CASE Finish(c)
  BY <1>1, <1>3, FinishValues
<1>4. CASE StillUnique(txn[c]) /\ pc' = [pc EXCEPT ![c] = "write"] /\ UNCHANGED <<lease, locks, req, reg, txn>>
  <2>1. pc'[c] = "write" /\ \A d \in Conn \ {c} : pc'[d] = pc[d]
    BY <1>4 DEF SqlInv, LeaseInv
  <2>2. ValuesOwn(c) /\ \A d \in Conn : Held(d)' = Held(d)
    BY <1>4 DEF ValuesInv, Held
  <2>3. ValuesChecked(c)'
    <3>1. ValuesFree(txn[c], db)
      BY <1>4 DEF StillUnique, ValuesFree
    <3> QED BY <1>1, <1>4, <2>2, <3>1 DEF ValuesChecked
  <2>4. Sole(c)' /\ PlainRequest(c)' /\ ShortBlock(c)' /\ GuardedTxn(c)'
    BY <1>1, <1>4, <2>1, <2>2 DEF ValuesOwn, Sole, PlainRequest, ShortBlock, GuardedTxn, TxnSteps
  <2>5. ValuesOwn(c)'
    BY <2>3, <2>4 DEF ValuesOwn
  <2> QED BY <1>1, <1>4, <2>2, <2>5, ValuesMove
<1> QED BY <1>2, <1>3, <1>4

\* Registries are written by a request that has the store to itself, or they
\* are views.
LEMMA RegisterValues ==
    ASSUME SqlInv, ValuesInv, NEW c \in Conn, Register(c)
    PROVE  ValuesInv'
<1>1. /\ pc[c] = "register" /\ pc' = [pc EXCEPT ![c] = "registered"] /\ reg' = [reg EXCEPT ![c] = <<>>]
      /\ db' = Over(reg[c], db)
      /\ UNCHANGED <<durable, lease, locks, seq, commitSeq, observed, req, txn, started, crashes>>
  BY DEF Register, SetPc
<1>2. /\ pc'[c] = "registered"
      /\ \A d \in Conn \ {c} : pc'[d] = pc[d] /\ reg'[d] = reg[d]
  BY <1>1 DEF SqlInv, LeaseInv, RequestInv
<1>3. ValuesOwn(c) /\ Registry(reg[c])
  BY DEF ValuesInv, SqlInv, RequestInv
<1>4. ValuesOwn(c)'
  BY <1>1, <1>2, <1>3, ValuesBefore DEF TxnSteps
<1>5. Numbered(View(db')) /\ StoreOK(db')
  BY <1>1, <1>3, RegisteredNumbered, Registered DEF ValuesInv, SqlInv, StoreInv
<1>6. ASSUME NEW d \in Conn, d # c PROVE ValuesOwn(d)'
  <2>1. ValuesOwn(d)
    BY DEF ValuesInv
  <2>2. CASE req[c].ddl
    BY <1>1, <1>2, <1>3, <1>6, <2>1, <2>2, OthersIdle DEF ValuesOwn, Sole
  <2>3. CASE ~ req[c].ddl
    <3>1. DOMAIN reg[c] \subseteq {views_key}
      BY <1>1, <1>3, <2>3 DEF ValuesOwn, PlainRequest
    <3>2. SameTables(db, db')
      BY <1>1, <3>1, ViewsRegistered
    <3>3. \A k \in DOMAIN db' : k[1] = "index" => k \in DOMAIN db
      BY <1>1, <1>3 DEF Over, Registry
    <3>4. ValuesChecked(d)'
      <4>1. Held(d)' = Held(d)
        BY <1>1 DEF Held
      <4>2. ASSUME pc[d] = "write" PROVE LockKeys(txn[d]) \subseteq Held(d) /\ ValuesFree(txn[d], db')
        BY <1>5, <2>1, <3>2, <3>3, <4>2, ValuesStayFree DEF ValuesOwn, ValuesChecked
      <4> QED BY <1>1, <1>2, <1>6, <4>1, <4>2 DEF ValuesChecked
    <3>5. Sole(d)'
      BY <1>1, <1>2, <1>6, <2>1, SoleStays DEF ValuesOwn
    <3> QED BY <1>1, <1>2, <1>6, <2>1, <3>2, <3>4, <3>5, OthersGuarded
  <2> QED BY <2>2, <2>3
<1> QED BY <1>1, <1>4, <1>5, <1>6 DEF ValuesInv

\* An entry that a request without schema statements adds under a unique value
\* is guarded.
LEMMA NewEntryGuarded ==
    ASSUME SqlInv, ValuesInv, NEW c \in Conn, pc[c] = "write", NEW k \in DOMAIN txn[c].overlay, k[1] = "index",
           txn[c].overlay[k] # <<>>, k[4] # Null, Enforced(db, k[2], k[3])
    PROVE  EntryGuarded(txn[c], k) /\ index_value_prefix(k[2], k[3], k[4]) \in Held(c)
<1>1. ValuesOwn(c) /\ StoreOK(db) /\ Numbered(View(db))
  BY DEF ValuesInv, SqlInv, StoreInv
<1>2. SameTables(db, txn[c].snap) /\ EntriesGuarded(txn[c]) /\ LockKeys(txn[c]) \subseteq Held(c)
  BY <1>1, SameTablesBack DEF ValuesOwn, GuardedTxn, TxnSteps, ValuesChecked
<1>3. Enforced(txn[c].snap, k[2], k[3])
  BY <1>1, <1>2, EnforcedSame
<1>4. EntryGuarded(txn[c], k)
  BY <1>2, <1>3 DEF EntriesGuarded, MustGuard
<1>5. PICK u : u = [prefix |-> index_value_prefix(k[2], k[3], k[4]), pk |-> k[5]]
  OBVIOUS
<1>6. u \in txn[c].uniqIdx /\ u.prefix = index_value_prefix(k[2], k[3], k[4])
  BY <1>4, <1>5 DEF EntryGuarded
<1> QED BY <1>2, <1>4, <1>6 DEF LockKeys

LEMMA WriteValues ==
    ASSUME SqlInv, ValuesInv, NEW c \in Conn, Write(c)
    PROVE  ValuesInv'
<1>1. /\ pc[c] = "write" /\ pc' = [pc EXCEPT ![c] = "flush"] /\ db' = merge_sorted(db, txn[c].overlay)
      /\ UNCHANGED <<durable, lease, locks, seq, commitSeq, observed, req, reg, txn, started, crashes>>
  BY DEF Write, SetPc
<1>2. pc'[c] = "flush" /\ \A d \in Conn \ {c} : pc'[d] = pc[d]
  BY <1>1 DEF SqlInv, LeaseInv
<1>3. /\ ValuesOwn(c) /\ StoreOK(db) /\ Numbered(View(db)) /\ TxnOK(txn[c])
      /\ SameTables(txn[c].snap, db) /\ Numbered(txn[c])
  BY <1>1 DEF ValuesInv, SqlInv, StoreInv, RequestInv, ValuesOwn, GuardedTxn, TxnSteps
<1>4. ValuesOwn(c)'
  BY <1>1, <1>2, <1>3, ValuesBefore DEF TxnSteps
<1>5. Numbered(View(db')) /\ StoreOK(db')
  BY <1>1, <1>3, CommitNumbered, MergedOK DEF TxnOK, SameTables, SameIds
<1>6. ASSUME NEW k \in DOMAIN db', k \notin DOMAIN db PROVE k \in DOMAIN txn[c].overlay /\ txn[c].overlay[k] # <<>>
  BY <1>1, <1>6 DEF merge_sorted
<1>7. ASSUME NEW d \in Conn, d # c PROVE ValuesOwn(d)'
  <2>1. ValuesOwn(d)
    BY DEF ValuesInv
  <2>2. CASE req[c].ddl
    BY <1>1, <1>2, <1>3, <1>7, <2>1, <2>2, OthersIdle DEF ValuesOwn, Sole
  <2>3. CASE ~ req[c].ddl
    <3>1. RowsOnly(txn[c].overlay)
      BY <1>1, <1>3, <2>3 DEF ValuesOwn, GuardedTxn, TxnSteps
    <3>2. SameTables(db, db')
      BY <1>1, <3>1, RowsMerged
    <3>3. ValuesChecked(d)'
      <4>1. Held(d)' = Held(d)
        BY <1>1 DEF Held
      <4>2. ASSUME pc[d] = "write" PROVE LockKeys(txn[d]) \subseteq Held(d) /\ ValuesFree(txn[d], db')
        <5>1. LockKeys(txn[d]) \subseteq Held(d) /\ ValuesFree(txn[d], db)
          BY <2>1, <4>2 DEF ValuesOwn, ValuesChecked
        <5>2. ASSUME NEW u \in txn[d].uniqIdx, NEW k \in DOMAIN db', k[1] = "index", SubSeq(k, 1, 4) = u.prefix,
                     k[4] # Null, Enforced(db', k[2], k[3])
              PROVE  k[5] = u.pk
          <6>1. Enforced(db, k[2], k[3])
            BY <1>5, <3>2, <5>2, EnforcedSame, SameTablesBack
          <6>2. CASE k \in DOMAIN db
            BY <5>1, <5>2, <6>1, <6>2 DEF ValuesFree
          <6>3. CASE k \notin DOMAIN db
            <7>1. k \in DOMAIN txn[c].overlay /\ txn[c].overlay[k] # <<>>
              BY <1>6, <6>3
            <7>2. index_value_prefix(k[2], k[3], k[4]) \in Held(c)
              BY <1>1, <5>2, <6>1, <7>1, NewEntryGuarded
            <7>3. SubSeq(k, 1, 4) = index_value_prefix(k[2], k[3], k[4])
              BY <1>5, <5>2, PrefixOf DEF StoreOK, RecordOK
            <7>4. u.prefix \in Held(d)
              BY <5>1 DEF LockKeys
            <7> QED BY <1>7, <5>2, <7>2, <7>3, <7>4 DEF Held
          <6> QED BY <6>2, <6>3
        <5> QED BY <5>1, <5>2 DEF ValuesFree
      <4> QED BY <1>1, <1>2, <1>7, <4>1, <4>2 DEF ValuesChecked
    <3>4. Sole(d)'
      BY <1>1, <1>2, <1>7, <2>1, SoleStays DEF ValuesOwn
    <3> QED BY <1>1, <1>2, <1>7, <2>1, <3>2, <3>3, <3>4, OthersGuarded
  <2> QED BY <2>2, <2>3
<1> QED BY <1>1, <1>4, <1>5, <1>7 DEF ValuesInv

LEMMA ValuesInit ==
    ASSUME Init
    PROVE  ValuesInv
<1>1. /\ db = SetupStore /\ durable = SetupStore
      /\ \A c \in Conn : pc[c] = "idle" /\ req[c] = NoRequest
  BY DEF Init, InitOn
<1>2. Numbered(View(db)) /\ Numbered(View(durable))
  BY <1>1, SetupStoreOK
<1>3. ASSUME NEW c \in Conn PROVE ValuesOwn(c)
  <2>1. pc[c] = "idle" /\ req[c].stmts = <<>> /\ req[c].ddl = FALSE
    BY <1>1 DEF NoRequest
  <2> QED BY <2>1 DEF ValuesOwn, Sole, PlainRequest, ShortBlock, GuardedTxn, ValuesChecked, TxnSteps
<1> QED BY <1>2, <1>3 DEF ValuesInv

LEMMA CrashValues ==
    ASSUME ValuesInv, Crash
    PROVE  ValuesInv'
<1>1. db' = durable /\ durable' = durable /\ \A c \in Conn : pc'[c] = "idle" /\ req'[c] = NoRequest
  BY DEF Crash
<1>2. ASSUME NEW c \in Conn PROVE ValuesOwn(c)'
  <2>1. pc'[c] = "idle" /\ req'[c].stmts = <<>> /\ req'[c].ddl = FALSE
    BY <1>1 DEF NoRequest
  <2> QED BY <2>1 DEF ValuesOwn, Sole, PlainRequest, ShortBlock, GuardedTxn, ValuesChecked, TxnSteps
<1> QED BY <1>1, <1>2 DEF ValuesInv

LEMMA ValuesStep ==
    ASSUME DdlAlone, SqlInv, ValuesInv, [Next]_vars
    PROVE  ValuesInv'
<1>1. CASE UNCHANGED vars
  <2>1. ASSUME NEW d \in Conn PROVE ValuesOwn(d)'
    <3>1. ValuesOwn(d) /\ UNCHANGED <<db, pc, req, reg, txn, locks>>
      BY <1>1 DEF ValuesInv, vars
    <3>2. Sole(d)' /\ ValuesChecked(d)'
      BY <3>1 DEF ValuesOwn, Sole, ValuesChecked, Held
    <3> QED BY <3>1, <3>2, OthersGuarded, SameTablesItself
  <2> QED BY <1>1, <2>1 DEF ValuesInv, vars
<1>2. ASSUME NEW c \in Conn, Submit(c) \/ TakeLease(c) \/ acquire_unique_locks(c) \/ Drop(c) PROVE ValuesInv'
  BY <1>2, SubmitValues, PassValues, AcquireValues, FinishValues DEF Drop, Idle
<1>3. ASSUME NEW c \in Conn, CommitNothing(c) \/ Report(c) PROVE ValuesInv'
  BY <1>3, EndTxnValues DEF CommitNothing, Report
<1>4. ASSUME NEW c \in Conn, Continue(c) PROVE ValuesInv'
  BY <1>3, <1>4, PrepareValues, RegisterValues, PassValues, BeginValues, ExecValues, CheckValues, WriteValues DEF Continue
<1> QED BY <1>1, <1>2, <1>4, CrashValues DEF Next

\* Of two entries with one value that a commit leaves, both were there.
LEMMA EntryWasThere ==
    ASSUME SqlInv, ValuesInv, NEW c \in Conn, Write(c), NEW k \in DOMAIN db', NEW j \in DOMAIN db',
           k[1] = "index", j[1] = "index", SubSeq(k, 1, 4) = SubSeq(j, 1, 4), k[4] # Null, k[5] # j[5],
           Enforced(db, k[2], k[3])
    PROVE  k \in DOMAIN db
<1>1. SUFFICES ASSUME k \notin DOMAIN db PROVE FALSE
  OBVIOUS
<1>2. pc[c] = "write" /\ db' = merge_sorted(db, txn[c].overlay)
  BY DEF Write
<1>3. k \in DOMAIN txn[c].overlay /\ txn[c].overlay[k] # <<>>
  BY <1>1, <1>2 DEF merge_sorted
<1>4. EntryGuarded(txn[c], k)
  BY <1>2, <1>3, NewEntryGuarded
<1>5. StoreOK(db') /\ ValuesOwn(c)
  <2>1. StoreOK(db) /\ WritesOK(txn[c].overlay)
    BY DEF SqlInv, StoreInv, RequestInv, TxnOK
  <2> QED BY <1>2, <2>1, MergedOK DEF ValuesInv
<1>6. /\ SubSeq(k, 1, 4) = index_value_prefix(k[2], k[3], k[4])
      /\ SubSeq(j, 1, 4) = index_value_prefix(j[2], j[3], j[4])
  BY <1>5, PrefixOf DEF StoreOK, RecordOK
<1>7. j[2] = k[2] /\ j[3] = k[3] /\ j[4] = k[4]
  <2>1. <<"index", k[2], k[3], k[4]>> = <<"index", j[2], j[3], j[4]>>
    BY <1>6 DEF index_value_prefix
  <2> QED BY <2>1
<1>8. CASE j \in DOMAIN txn[c].overlay
  <2>1. txn[c].overlay[j] # <<>>
    BY <1>2, <1>8 DEF merge_sorted
  <2>2. j \in DOMAIN scan_range(txn[c])
    BY <1>8, <2>1 DEF scan_range, merge_sorted
  <2> QED BY <1>4, <1>7, <2>2 DEF EntryGuarded
<1>9. CASE j \notin DOMAIN txn[c].overlay
  <2>1. j \in DOMAIN db
    BY <1>2, <1>9 DEF merge_sorted
  <2>2. PICK u : u = [prefix |-> index_value_prefix(k[2], k[3], k[4]), pk |-> k[5]]
    OBVIOUS
  <2>3. u \in txn[c].uniqIdx /\ u.prefix = index_value_prefix(k[2], k[3], k[4]) /\ u.pk = k[5]
    BY <1>4, <2>2 DEF EntryGuarded
  <2>4. ValuesFree(txn[c], db)
    BY <1>2, <1>5 DEF ValuesOwn, ValuesChecked
  <2>5. SubSeq(j, 1, 4) = u.prefix /\ Enforced(db, j[2], j[3]) /\ j[4] # Null
    BY <1>6, <1>7, <2>3
  <2> QED BY <2>1, <2>3, <2>4, <2>5 DEF ValuesFree
<1> QED BY <1>8, <1>9

LEMMA NoneDuplicated ==
    ASSUME SqlInv, ValuesInv, [Next]_vars, crashes' = crashes, db' # db, NEW d \in Duplicates(db'),
           Enforced(db, d[1][2], d[1][3])
    PROVE  d \in Duplicates(db)
<1>1. PICK k, j : k = d[1] /\ j = d[2]
  OBVIOUS
<1>2. /\ d = <<k, j>> /\ k \in DOMAIN db' /\ j \in DOMAIN db' /\ k[1] = "index" /\ j[1] = "index"
      /\ SubSeq(k, 1, 4) = SubSeq(j, 1, 4) /\ k[4] # Null /\ k[5] # j[5]
  BY <1>1 DEF Duplicates
<1>3. ~ Crash
  BY DEF Crash, SqlInv, CountInv
<1>4. PICK c \in Conn : Register(c) \/ Write(c)
  BY <1>3 DEF Next, vars, Submit, Continue, TakeLease, acquire_unique_locks, Drop, Prepare, RegisterFlush, Begin, Exec,
     CommitNothing, Check, Flush, Report
<1>5. k \in DOMAIN db /\ j \in DOMAIN db
  <2>1. CASE Register(c)
    <3>1. db' = Over(reg[c], db) /\ Registry(reg[c])
      BY <2>1 DEF Register, SqlInv, RequestInv
    <3> QED BY <1>2, <3>1 DEF Over, Registry
  <2>2. CASE Write(c)
    <3>1. k \in DOMAIN db
      BY <1>1, <1>2, <2>2, EntryWasThere
    <3>2. j[2] = k[2] /\ j[3] = k[3] /\ j[4] = k[4]
      <4>1. StoreOK(db')
        BY <2>2, MergedOK DEF Write, SqlInv, StoreInv, RequestInv, TxnOK
      <4>2. /\ SubSeq(k, 1, 4) = index_value_prefix(k[2], k[3], k[4])
            /\ SubSeq(j, 1, 4) = index_value_prefix(j[2], j[3], j[4])
        BY <1>2, <4>1, PrefixOf DEF StoreOK, RecordOK
      <4>3. <<"index", k[2], k[3], k[4]>> = <<"index", j[2], j[3], j[4]>>
        BY <1>2, <4>2 DEF index_value_prefix
      <4> QED BY <4>3
    <3>3. j \in DOMAIN db
      BY <1>1, <1>2, <2>2, <3>2, EntryWasThere
    <3> QED BY <3>1, <3>3
  <2> QED BY <1>4, <2>1, <2>2
<1> QED BY <1>2, <1>5 DEF Duplicates

\* Committing never makes two rows share a value of a unique index that existed
\* before: two transactions that both found the value free in their snapshots
\* take the same lock, and the second one looks it up again in the live store
\* (enforce_unique_index, acquire_unique_locks, commit).  For any number of
\* requests and any statements, as long as those that change schemas run alone
\* (DdlAlone).
THEOREM UniqueValuesStay == ASSUME DdlAlone PROVE Spec => NoNewDuplicate
<1>1. Init => SqlInv /\ ValuesInv
  BY SqlInvInit, ValuesInit
<1>2. SqlInv /\ ValuesInv /\ [Next]_vars => (SqlInv /\ ValuesInv)'
  BY SqlInvStep, ValuesStep
<1>3. SqlInv /\ ValuesInv /\ [Next]_vars =>
         [crashes' = crashes =>
              \A d \in Duplicates(db') : Enforced(db, d[1][2], d[1][3]) => d \in Duplicates(db)]_db
  BY NoneDuplicated
<1> QED BY <1>1, <1>2, <1>3, PTL DEF Spec, NoNewDuplicate

-----------------------------------------------------------------------------
(* 13. Indexes are exact.  What is said of a store is said row by row, so    *)
(* that a statement, or a commit beside others, has to be followed only for  *)
(* the rows it writes.                                                       *)

\* A row of table t as a query sees it, and a column of it.
LogicalIn(v, t, row) == IF colcat_key(t) \in DOMAIN v THEN to_logical(v[colcat_key(t)], row) ELSE row
ValueIn(v, t, row, col) == LogicalIn(v, t, row)[Position(v[schema_key(t)].cols, col)]

\* The columns of a table have different names, and so have its indexes, each
\* on one of the columns; its catalog, if it has one, gives each column a place
\* of its own.
ColumnsFit(s) ==
    /\ s.cols \in Seq(Range(s.cols)) /\ \A i, j \in DOMAIN s.cols : s.cols[i] = s.cols[j] => i = j
    /\ \A d \in s.indexes : d.col \in Range(s.cols)
    /\ \A d, e \in s.indexes : d.name = e.name => d = e
SlotsFit(c, n) ==
    /\ c.width \in Nat /\ c.slots \in Seq(1..c.width) /\ Len(c.slots) = n
    /\ \A i, j \in DOMAIN c.slots : c.slots[i] = c.slots[j] => i = j
TableFit(v, t) ==
    /\ tableid_key(t) \in DOMAIN v => schema_key(t) \in DOMAIN v
    /\ colcat_key(t) \in DOMAIN v => schema_key(t) \in DOMAIN v
    /\ schema_key(t) \in DOMAIN v => ColumnsFit(v[schema_key(t)])
    /\ colcat_key(t) \in DOMAIN v => SlotsFit(v[colcat_key(t)], Len(v[schema_key(t)].cols))

\* Table t has the id; it has the row; it has the entry for the row.
HasId(v, t, id) == tableid_key(t) \in DOMAIN v /\ v[tableid_key(t)] = id
HasRow(v, t, id, pk) ==
    /\ HasId(v, t, id) /\ schema_key(t) \in DOMAIN v
    /\ colcat_key(t) \notin DOMAIN v => DOMAIN v[row_key(id, pk)] = 1..Len(v[schema_key(t)].cols)
HasEntry(v, t, id, i, val, pk) ==
    /\ HasId(v, t, id) /\ schema_key(t) \in DOMAIN v /\ row_key(id, pk) \in DOMAIN v
    /\ \E d \in v[schema_key(t)].indexes : i = d.name /\ val = ValueIn(v, t, v[row_key(id, pk)], d.col)

RowExact(v, id, pk) ==
    /\ row_key(id, pk) \in DOMAIN v => \E t : HasRow(v, t, id, pk)
    /\ \A i, val : index_entry_key(id, i, val, pk) \in DOMAIN v <=> \E t : HasEntry(v, t, id, i, val, pk)
Fit(v) == (\A t : TableFit(v, t)) /\ \A id, pk : RowExact(v, id, pk)

IdsFit(v) ==
    /\ \A t : schema_key(t) \in DOMAIN v => tableid_key(t) \in DOMAIN v
    /\ \A t, u, id : HasId(v, t, id) /\ HasId(v, u, id) => t = u
    /\ \A t, id : HasId(v, t, id) => tableid_seq_key \in DOMAIN v /\ id <= v[tableid_seq_key]

\* Two stores agree on a key, a table, a row and its entries.
Agree(v, w, k) == (k \in DOMAIN v <=> k \in DOMAIN w) /\ (k \in DOMAIN v => v[k] = w[k])
SameTable(v, w, t) == Agree(v, w, schema_key(t)) /\ Agree(v, w, tableid_key(t)) /\ Agree(v, w, colcat_key(t))
SameRow(v, w, id, pk) ==
    /\ Agree(v, w, row_key(id, pk))
    /\ \A i, val : index_entry_key(id, i, val, pk) \in DOMAIN v <=> index_entry_key(id, i, val, pk) \in DOMAIN w

\* What a store becomes by writes.
Becomes(v, f, w) ==
    \A k : /\ k \in DOMAIN w <=> IF k \in DOMAIN f THEN f[k] # <<>> ELSE k \in DOMAIN v
           /\ k \in DOMAIN w => w[k] = IF k \in DOMAIN f THEN f[k][1] ELSE v[k]

LEMMA MergeBecomes ==
    ASSUME NEW v, NEW f, NEW w, w = merge_sorted(v, f)
    PROVE  Becomes(v, f, w)
BY DEF merge_sorted, Becomes

LEMMA ScanBecomes ==
    ASSUME NEW x, NEW f, NEW y, y.snap = x.snap, y.overlay = Over(f, x.overlay)
    PROVE  Becomes(scan_range(x), f, scan_range(y))
<1>1. /\ DOMAIN scan_range(x) = {j \in DOMAIN x.snap \cup DOMAIN x.overlay : j \in DOMAIN x.overlay => x.overlay[j] # <<>>}
      /\ \A j \in DOMAIN scan_range(x) : scan_range(x)[j] = IF j \in DOMAIN x.overlay THEN x.overlay[j][1] ELSE x.snap[j]
  BY DEF scan_range, merge_sorted
<1>2. /\ DOMAIN scan_range(y) = {j \in DOMAIN x.snap \cup DOMAIN y.overlay : j \in DOMAIN y.overlay => y.overlay[j] # <<>>}
      /\ \A j \in DOMAIN scan_range(y) : scan_range(y)[j] = IF j \in DOMAIN y.overlay THEN y.overlay[j][1] ELSE x.snap[j]
  BY DEF scan_range, merge_sorted
<1>3. DOMAIN y.overlay = DOMAIN f \cup DOMAIN x.overlay
      /\ \A j \in DOMAIN y.overlay : y.overlay[j] = IF j \in DOMAIN f THEN f[j] ELSE x.overlay[j]
  BY DEF Over
<1> QED BY <1>1, <1>2, <1>3 DEF Becomes

LEMMA ReadsScan ==
    ASSUME NEW x, NEW k
    PROVE  /\ read_key(x, k) # <<>> <=> k \in DOMAIN scan_range(x)
           /\ k \in DOMAIN scan_range(x) => scan_range(x)[k] = read_key(x, k)[1]
BY DEF read_key, scan_range, merge_sorted

LEMMA NumberedIds ==
    ASSUME NEW x, Numbered(x)
    PROVE  IdsFit(scan_range(x))
<1>1. \A k : /\ read_key(x, k) # <<>> <=> k \in DOMAIN scan_range(x)
             /\ k \in DOMAIN scan_range(x) => scan_range(x)[k] = read_key(x, k)[1]
  BY ReadsScan
<1> QED BY <1>1 DEF Numbered, IdsFit, HasId, table_id

LEMMA TableStays ==
    ASSUME NEW v, NEW w, NEW t, SameTable(v, w, t), TableFit(v, t)
    PROVE  TableFit(w, t)
BY DEF SameTable, Agree, TableFit

LEMMA RowStays ==
    ASSUME NEW v, NEW w, NEW id, NEW pk, RowExact(v, id, pk), SameRow(v, w, id, pk),
           \A u : SameTable(v, w, u) \/ (~ HasId(v, u, id) /\ ~ HasId(w, u, id))
    PROVE  RowExact(w, id, pk)
<1>1. ASSUME NEW u, row_key(id, pk) \in DOMAIN v PROVE HasRow(v, u, id, pk) => HasRow(w, u, id, pk)
  BY <1>1 DEF SameTable, Agree, HasRow, HasId, SameRow
<1>2. ASSUME NEW u, NEW i, NEW val PROVE HasEntry(v, u, id, i, val, pk) <=> HasEntry(w, u, id, i, val, pk)
  BY DEF SameTable, Agree, HasEntry, HasId, SameRow, ValueIn, LogicalIn
<1> QED BY <1>1, <1>2 DEF RowExact, SameRow, Agree

\* A row written with its entries, or deleted with them, and nothing else.
LEMMA RowReplaced ==
    ASSUME NEW v, NEW w, Fit(v), IdsFit(v), NEW t, NEW id, HasId(v, t, id), NEW pk,
           \A u : SameTable(v, w, u),
           \A i, p : i # id \/ p # pk => SameRow(v, w, i, p),
           row_key(id, pk) \in DOMAIN w => HasRow(w, t, id, pk),
           \A i, val : index_entry_key(id, i, val, pk) \in DOMAIN w <=> HasEntry(w, t, id, i, val, pk)
    PROVE  Fit(w)
<1>1. ASSUME NEW u PROVE TableFit(w, u)
  BY TableStays DEF Fit
<1>2. ASSUME NEW i, NEW p, i # id \/ p # pk PROVE RowExact(w, i, p)
  BY <1>2, RowStays DEF Fit
<1>3. RowExact(w, id, pk)
  <2>1. ASSUME NEW u, HasId(w, u, id) PROVE u = t
    BY <2>1 DEF SameTable, Agree, HasId, IdsFit
  <2>2. ASSUME NEW u, NEW i, NEW val, HasEntry(w, u, id, i, val, pk) PROVE u = t
    BY <2>1, <2>2 DEF HasEntry
  <2> QED BY <2>2 DEF RowExact
<1> QED BY <1>1, <1>2, <1>3 DEF Fit

\* A commit beside others: the rows it writes are as its snapshot had them.
WithRows(f) == \A id, i, val, pk : index_entry_key(id, i, val, pk) \in DOMAIN f => row_key(id, pk) \in DOMAIN f

LEMMA RowsMergedFit ==
    ASSUME NEW v, NEW s, NEW f, NEW w, NEW u, Fit(v), Fit(s), Fit(u), Becomes(v, f, w), Becomes(s, f, u),
           \A t : SameTable(s, v, t), RowsOnly(f), WithRows(f),
           \A id, pk : row_key(id, pk) \in DOMAIN f => Agree(s, v, row_key(id, pk))
    PROVE  Fit(w)
<1>1. \A t : SameTable(v, w, t) /\ SameTable(u, w, t)
  <2>1. ASSUME NEW k, k[1] \in {"schema", "tableid", "colcat"}, Agree(s, v, k) PROVE Agree(v, w, k) /\ Agree(u, w, k)
    BY <2>1 DEF RowsOnly, Becomes, Agree
  <2>2. ASSUME NEW t, NEW k \in {schema_key(t), tableid_key(t), colcat_key(t)} PROVE k[1] \in {"schema", "tableid", "colcat"}
    BY DEF schema_key, tableid_key, colcat_key
  <2>3. ASSUME NEW t, NEW k \in {schema_key(t), tableid_key(t), colcat_key(t)} PROVE Agree(v, w, k) /\ Agree(u, w, k)
    BY <2>1, <2>2 DEF SameTable
  <2> QED BY <2>3 DEF SameTable
<1>2. ASSUME NEW t PROVE TableFit(w, t)
  BY <1>1, TableStays DEF Fit
<1>3. ASSUME NEW id, NEW pk PROVE RowExact(w, id, pk)
  <2>1. CASE row_key(id, pk) \notin DOMAIN f
    <3>1. \A i, val : index_entry_key(id, i, val, pk) \notin DOMAIN f
      BY <2>1 DEF WithRows
    <3>2. SameRow(v, w, id, pk)
      BY <2>1, <3>1 DEF SameRow, Agree, Becomes
    <3> QED BY <1>1, <3>2, RowStays DEF Fit
  <2>2. CASE row_key(id, pk) \in DOMAIN f
    <3>1. SameRow(s, v, id, pk)
      <4>1. RowExact(s, id, pk) /\ RowExact(v, id, pk) /\ Agree(s, v, row_key(id, pk))
        BY <2>2 DEF Fit
      <4>2. ASSUME NEW t, NEW i, NEW val PROVE HasEntry(s, t, id, i, val, pk) <=> HasEntry(v, t, id, i, val, pk)
        BY <4>1 DEF SameTable, Agree, HasEntry, HasId, ValueIn, LogicalIn
      <4> QED BY <4>1, <4>2 DEF RowExact, SameRow
    <3>2. SameRow(u, w, id, pk)
      BY <2>2, <3>1 DEF SameRow, Agree, Becomes
    <3> QED BY <1>1, <3>2, RowStays DEF Fit
  <2> QED BY <2>1, <2>2
<1> QED BY <1>2, <1>3 DEF Fit

\* What a transaction reads is what its scan shows.
LEMMA TableSeen ==
    ASSUME NEW x, NEW t, Known(x, t), NEW v, v = scan_range(x)
    PROVE  /\ schema_key(t) \in DOMAIN v /\ read_schema(x, t) = v[schema_key(t)]
           /\ HasId(v, t, table_id(x, t))
BY ReadsScan DEF Known, Exists, read_schema, table_id, HasId

LEMMA LogicalSeen ==
    ASSUME NEW x, NEW t, NEW v, v = scan_range(x), NEW row
    PROVE  /\ Logical(x, t, row) = LogicalIn(v, t, row)
           /\ Physical(x, t, row) = IF colcat_key(t) \in DOMAIN v THEN to_physical(v[colcat_key(t)], row) ELSE row
BY ReadsScan DEF Logical, Physical, read_catalog, LogicalIn

\* A row is read from its slots as it was written to them.
LEMMA SlotsBack ==
    ASSUME NEW c, NEW n \in Nat, SlotsFit(c, n), NEW row, DOMAIN row = 1..n, NEW i \in 1..n
    PROVE  /\ DOMAIN to_logical(c, to_physical(c, row)) = 1..n
           /\ to_logical(c, to_physical(c, row))[i] = row[i]
<1>1. PICK p : p = to_physical(c, row)
  OBVIOUS
<1>2. DOMAIN c.slots = 1..n /\ DOMAIN p = 1..c.width /\ c.slots[i] \in 1..c.width
  BY <1>1 DEF SlotsFit, to_physical
<1>3. PICK s : s = c.slots[i]
  OBVIOUS
<1>4. PICK g : g = DOMAIN c.slots \cap DOMAIN row
  OBVIOUS
<1>5. g = 1..n
  BY <1>2, <1>4
<1>6. p[s] = IF \E j \in g : c.slots[j] = s THEN row[CHOOSE j \in g : c.slots[j] = s] ELSE Null
  BY <1>1, <1>2, <1>3, <1>4 DEF to_physical
<1>7. PICK j : j = CHOOSE h \in g : c.slots[h] = s
  OBVIOUS
<1>8. j \in g /\ c.slots[j] = s
  BY <1>3, <1>5, <1>7
<1>9. j = i
  BY <1>2, <1>3, <1>5, <1>8 DEF SlotsFit
<1>10. p[s] = row[i]
  BY <1>3, <1>5, <1>6, <1>7, <1>8, <1>9
<1> QED BY <1>1, <1>2, <1>3, <1>10 DEF to_logical

LEMMA PositionFits ==
    ASSUME NEW s, ColumnsFit(s), NEW col \in Range(s.cols)
    PROVE  Len(s.cols) \in Nat /\ Position(s.cols, col) \in 1..Len(s.cols) /\ s.cols[Position(s.cols, col)] = col
<1>1. s.cols \in Seq(Range(s.cols))
  BY DEF ColumnsFit
<1>2. \E i \in DOMAIN s.cols : s.cols[i] = col
  BY DEF Range
<1>3. Position(s.cols, col) \in DOMAIN s.cols /\ s.cols[Position(s.cols, col)] = col
  BY <1>2 DEF Position
<1> QED BY <1>1, <1>3

\* Index entries, exactly.
Filled(ks, mark) == [k \in ks |-> mark]
RowEntries(s, id, row, pk) == {index_entry_key(id, d.name, index_value(s.cols, row, d.col), pk) : d \in s.indexes}

Applied(x, y, ks, mark) == y.snap = x.snap /\ y.overlay = Over(Filled(ks, mark), x.overlay)

LEMMA EntriesAdded ==
    ASSUME NEW x, TxnOK(x), NEW t, NEW pk, NEW row, NEW y, y = apply_index_entries(x, t, pk, row, TRUE), ~ y.failed,
           NEW ks, ks = RowEntries(read_schema(x, t), table_id(x, t), row, pk)
    PROVE  Applied(x, y, ks, <<pk>>)
<1>1. PICK s : s = read_schema(x, t)
  OBVIOUS
<1>2. PICK id : id = table_id(x, t)
  OBVIOUS
<1> DEFINE value(d) == index_value(s.cols, row, d.col)
           guarded == {d \in s.indexes : TRUE /\ d.name \in read_unique_indexes(x, t) /\ value(d) # Null}
           entries == {index_entry_key(id, d.name, value(d), pk) : d \in s.indexes}
<1>3. PICK f : f = [k \in entries |-> <<pk>>]
  OBVIOUS
<1>4. PICK w : w = write_all(x, f)
  OBVIOUS
<1>5. PICK g : g = guarded
  OBVIOUS
<1>6. \/ y = Fail(x)
      \/ y = [w EXCEPT !.uniqIdx = @ \cup {[prefix |-> index_value_prefix(id, d.name, value(d)), pk |-> pk] : d \in g}]
  BY <1>1, <1>2, <1>3, <1>4, <1>5 DEF apply_index_entries
<1>7. y = [w EXCEPT !.uniqIdx = @ \cup {[prefix |-> index_value_prefix(id, d.name, value(d)), pk |-> pk] : d \in g}]
  BY <1>6, FailedOK
<1>8. \A k \in DOMAIN f : k[1] = "index" /\ k = index_entry_key(k[2], k[3], k[4], k[5])
  BY <1>3 DEF index_entry_key
<1>9. TxnOK(w) /\ w.overlay = Over(f, x.overlay) /\ w.snap = x.snap
  BY <1>4, <1>8, WrittenOK DEF WritesOK, RecordOK
<1>10. y.overlay = w.overlay /\ y.snap = w.snap
  BY <1>7, <1>9 DEF TxnOK
<1>11. f = Filled(ks, <<pk>>)
  BY <1>1, <1>2, <1>3 DEF RowEntries, Filled
<1> QED BY <1>9, <1>10, <1>11 DEF Applied

LEMMA EntriesCleared ==
    ASSUME NEW x, TxnOK(x), NEW t, NEW pk, NEW row, NEW y, y = apply_index_entries(x, t, pk, row, FALSE), ~ y.failed,
           NEW ks, ks = RowEntries(read_schema(x, t), table_id(x, t), row, pk)
    PROVE  Applied(x, y, ks, <<>>)
<1>1. PICK s : s = read_schema(x, t)
  OBVIOUS
<1>2. PICK id : id = table_id(x, t)
  OBVIOUS
<1> DEFINE value(d) == index_value(s.cols, row, d.col)
           guarded == {d \in s.indexes : FALSE /\ d.name \in read_unique_indexes(x, t) /\ value(d) # Null}
           entries == {index_entry_key(id, d.name, value(d), pk) : d \in s.indexes}
<1>3. PICK f : f = [k \in entries |-> <<>>]
  OBVIOUS
<1>4. PICK w : w = write_all(x, f)
  OBVIOUS
<1>5. PICK g : g = guarded
  OBVIOUS
<1>6. \/ y = Fail(x)
      \/ y = [w EXCEPT !.uniqIdx = @ \cup {[prefix |-> index_value_prefix(id, d.name, value(d)), pk |-> pk] : d \in g}]
  BY <1>1, <1>2, <1>3, <1>4, <1>5 DEF apply_index_entries
<1>7. y = [w EXCEPT !.uniqIdx = @ \cup {[prefix |-> index_value_prefix(id, d.name, value(d)), pk |-> pk] : d \in g}]
  BY <1>6, FailedOK
<1>8. \A k \in DOMAIN f : k[1] = "index" /\ k = index_entry_key(k[2], k[3], k[4], k[5])
  BY <1>3 DEF index_entry_key
<1>9. TxnOK(w) /\ w.overlay = Over(f, x.overlay) /\ w.snap = x.snap
  BY <1>4, <1>8, WrittenOK DEF WritesOK, RecordOK
<1>10. y.overlay = w.overlay /\ y.snap = w.snap
  BY <1>7, <1>9 DEF TxnOK
<1>11. f = Filled(ks, <<>>)
  BY <1>1, <1>2, <1>3 DEF RowEntries, Filled
<1> QED BY <1>9, <1>10, <1>11 DEF Applied

LEMMA KeyShapes ==
    /\ \A id, pk : row_key(id, pk)[1] = "row"
    /\ \A id, i, val, pk : index_entry_key(id, i, val, pk)[1] = "index"
    /\ \A id, pk, j, q : row_key(id, pk) = row_key(j, q) => id = j /\ pk = q
    /\ \A id, i, val, pk, j, n, u, q :
          index_entry_key(id, i, val, pk) = index_entry_key(j, n, u, q) => id = j /\ i = n /\ val = u /\ pk = q
    /\ \A id, pk, j, n, u, q : row_key(id, pk) # index_entry_key(j, n, u, q)
BY DEF row_key, index_entry_key

\* The entries of a table's row are those its old values have.
LEMMA OldEntries ==
    ASSUME NEW v, Fit(v), IdsFit(v), NEW t, NEW id, HasId(v, t, id), NEW pk, NEW i, NEW val
    PROVE  index_entry_key(id, i, val, pk) \in DOMAIN v <=>
              /\ row_key(id, pk) \in DOMAIN v
              /\ index_entry_key(id, i, val, pk)
                    \in RowEntries(v[schema_key(t)], id, LogicalIn(v, t, v[row_key(id, pk)]), pk)
<1>1. schema_key(t) \in DOMAIN v /\ RowExact(v, id, pk)
  BY DEF Fit, TableFit, HasId
<1>2. index_entry_key(id, i, val, pk) \in DOMAIN v <=> HasEntry(v, t, id, i, val, pk)
  BY <1>1 DEF RowExact, HasEntry, IdsFit
<1>3. \A j, w : index_entry_key(id, i, val, pk) = index_entry_key(id, j, w, pk) <=> i = j /\ val = w
  BY DEF index_entry_key
<1> QED BY <1>1, <1>2, <1>3 DEF HasEntry, RowEntries, ValueIn, index_value

\* What a statement on rows does to a transaction: what is not a row or an
\* entry stays as it is seen.
Aside(v, w) == \A k : k[1] \notin {"row", "index"} => Agree(v, w, k)
RowWork(x, z) ==
    /\ TxnOK(z) /\ z.snap = x.snap /\ Aside(scan_range(x), scan_range(z)) /\ Fit(scan_range(z))
    /\ WithRows(x.overlay) => WithRows(z.overlay)

OnlyRow(v, w, id, pk) == \A i, p : i # id \/ p # pk => SameRow(v, w, i, p)

LEMMA AsideTables ==
    ASSUME NEW v, NEW w, Aside(v, w)
    PROVE  (\A t : SameTable(v, w, t)) /\ (IdsFit(v) => IdsFit(w))
<1>1. ASSUME NEW t PROVE Agree(v, w, schema_key(t)) /\ Agree(v, w, tableid_key(t)) /\ Agree(v, w, colcat_key(t))
  BY DEF Aside, schema_key, tableid_key, colcat_key
<1>2. Agree(v, w, tableid_seq_key)
  BY DEF Aside, tableid_seq_key
<1> QED BY <1>1, <1>2 DEF SameTable, IdsFit, HasId, Agree

LEMMA WorkTwice ==
    ASSUME NEW x, NEW y, NEW z, RowWork(x, y), RowWork(y, z)
    PROVE  RowWork(x, z)
BY DEF RowWork, Aside, Agree

LEMMA WorkNone ==
    ASSUME NEW x, TxnOK(x), Fit(scan_range(x)), NEW y, TxnOK(y), y.snap = x.snap, y.overlay = x.overlay
    PROVE  RowWork(x, y)
BY DEF RowWork, Aside, Agree, scan_range

\* Entries of one row written or deleted, then the row.
LEMMA OneRowDone ==
    ASSUME NEW x, TxnOK(x), Fit(scan_range(x)), IdsFit(scan_range(x)), NEW t, Known(x, t), NEW pk, NEW v, v = scan_range(x),
           NEW id, id = table_id(x, t), NEW s, s = v[schema_key(t)],
           NEW old, old = (IF row_key(id, pk) \in DOMAIN v THEN RowEntries(s, id, LogicalIn(v, t, v[row_key(id, pk)]), pk) ELSE {}),
           NEW row, NEW new, NEW val,
           \/ new = {} /\ val = <<>>
           \/ new = RowEntries(s, id, row, pk) /\ DOMAIN row = 1..Len(s.cols) /\ val = <<Physical(x, t, row)>>,
           NEW y, Becomes(v, Filled(old, <<>>), scan_range(y)),
           NEW w1, Becomes(scan_range(y), Filled(new, <<pk>>), scan_range(w1)),
           NEW z, TxnOK(z), z.snap = x.snap, Becomes(scan_range(w1), Single(row_key(id, pk), val), scan_range(z)),
           DOMAIN z.overlay = {row_key(id, pk)} \cup new \cup old \cup DOMAIN x.overlay
    PROVE  RowWork(x, z) /\ OnlyRow(v, scan_range(z), id, pk)
<1> DEFINE r == row_key(id, pk)
           g == {r} \cup new \cup old
           w == scan_range(z)
<1>2. PICK o, n, m : o = Filled(old, <<>>) /\ n = Filled(new, <<pk>>) /\ m = Single(r, val)
  OBVIOUS
<1>3. \A k \in new \cup old : \E i, u : k = index_entry_key(id, i, u, pk)
  BY DEF RowEntries
<1>4. \A i, u : r # index_entry_key(id, i, u, pk)
  BY KeyShapes
<1>5. /\ r \in DOMAIN w <=> val # <<>>
      /\ val # <<>> => w[r] = val[1]
      /\ \A k \in new : k \in DOMAIN w
      /\ \A k \in old \ new : k \notin DOMAIN w
      /\ \A k : k \notin g => Agree(v, w, k)
  <2>1. /\ DOMAIN o = old /\ \A k \in old : o[k] = <<>>
        /\ DOMAIN n = new /\ \A k \in new : n[k] = <<pk>> /\ n[k] # <<>>
        /\ DOMAIN m = {r} /\ m[r] = val
    BY <1>2 DEF Single, Filled
  <2>2. r \notin new \cup old
    BY <1>3, <1>4
  <2>3. Becomes(v, o, scan_range(y)) /\ Becomes(scan_range(y), n, scan_range(w1)) /\ Becomes(scan_range(w1), m, w)
    BY <1>2
  <2> HIDE DEF r, w
  <2> QED BY <2>1, <2>2, <2>3 DEF Becomes, Agree
<1>6. HasId(v, t, id) /\ schema_key(t) \in DOMAIN v /\ TableFit(v, t) /\ ColumnsFit(s)
  BY TableSeen DEF Fit, TableFit
<1>7. \A i, u : index_entry_key(id, i, u, pk) \in DOMAIN v <=> index_entry_key(id, i, u, pk) \in old
  BY <1>6, OldEntries
<1>8. \A i, u : index_entry_key(id, i, u, pk) \in DOMAIN w <=> index_entry_key(id, i, u, pk) \in new
  BY <1>4, <1>5, <1>7 DEF Agree
<1>9. (r \in DOMAIN w <=> val # <<>>) /\ (val # <<>> => w[r] = val[1])
  BY <1>5
<1>10. \A k : k \notin g => Agree(v, w, k)
  BY <1>5
<1> HIDE DEF w
<1>11. \A k \in g : k[1] \in {"row", "index"}
  <2>1. ASSUME NEW k \in g PROVE k = r \/ \E i, u : k = index_entry_key(id, i, u, pk)
    BY <1>3
  <2> QED BY <2>1, KeyShapes
<1>12. Aside(v, w)
  BY <1>10, <1>11 DEF Aside
<1>13. ASSUME NEW i, NEW p, i # id \/ p # pk PROVE SameRow(v, w, i, p)
  <2>1. row_key(i, p) \notin g
    BY <1>3, <1>13, KeyShapes
  <2>2. ASSUME NEW j, NEW u PROVE index_entry_key(i, j, u, p) \notin g
    BY <1>3, <1>13, KeyShapes
  <2> QED BY <1>10, <2>1, <2>2 DEF SameRow, Agree
<1>14. \A u : SameTable(v, w, u)
  BY <1>12, AsideTables
<1>15. HasId(w, t, id) /\ w[schema_key(t)] = s /\ schema_key(t) \in DOMAIN w
  BY <1>6, <1>14 DEF SameTable, Agree, HasId
<1>16. WithRows(x.overlay) => WithRows(z.overlay)
  <2>1. DOMAIN z.overlay = g \cup DOMAIN x.overlay
    OBVIOUS
  <2>2. ASSUME NEW i, NEW j, NEW u, NEW p, index_entry_key(i, j, u, p) \in g PROVE row_key(i, p) \in g
    BY <1>3, <2>2, KeyShapes
  <2> QED BY <2>1, <2>2 DEF WithRows
<1>17. Fit(w)
  <2>1. CASE new = {} /\ val = <<>>
    <3>1. ASSUME NEW i, NEW u PROVE index_entry_key(id, i, u, pk) \in DOMAIN w <=> HasEntry(w, t, id, i, u, pk)
      BY <1>8, <1>9, <2>1 DEF HasEntry
    <3> QED BY <1>6, <1>9, <1>13, <1>14, <2>1, <3>1, RowReplaced
  <2>2. CASE new = RowEntries(s, id, row, pk) /\ DOMAIN row = 1..Len(s.cols) /\ val = <<Physical(x, t, row)>>
    <3>1. r \in DOMAIN w /\ w[r] = Physical(x, t, row)
      BY <1>9, <2>2
    <3>2. Len(s.cols) \in Nat
      BY <1>6 DEF ColumnsFit
    <3>3. ASSUME NEW i \in 1..Len(s.cols) PROVE LogicalIn(w, t, w[r])[i] = row[i]
      <4>1. CASE colcat_key(t) \in DOMAIN v
        <5>1. SlotsFit(v[colcat_key(t)], Len(s.cols)) /\ w[colcat_key(t)] = v[colcat_key(t)] /\ colcat_key(t) \in DOMAIN w
          BY <1>6, <1>14, <4>1 DEF TableFit, SameTable, Agree
        <5>2. w[r] = to_physical(v[colcat_key(t)], row)
          BY <3>1, <4>1, LogicalSeen
        <5> QED BY <2>2, <3>2, <5>1, <5>2, SlotsBack DEF LogicalIn
      <4>2. CASE colcat_key(t) \notin DOMAIN v
        <5>1. w[r] = row /\ colcat_key(t) \notin DOMAIN w
          BY <1>14, <3>1, <4>2, LogicalSeen DEF SameTable, Agree
        <5> QED BY <5>1 DEF LogicalIn
      <4> QED BY <4>1, <4>2
    <3>4. HasRow(w, t, id, pk)
      <4>1. ASSUME colcat_key(t) \notin DOMAIN w PROVE w[r] = row
        BY <1>14, <3>1, <4>1, LogicalSeen DEF SameTable, Agree
      <4> QED BY <1>15, <2>2, <4>1 DEF HasRow
    <3>5. ASSUME NEW i, NEW u PROVE index_entry_key(id, i, u, pk) \in DOMAIN w <=> HasEntry(w, t, id, i, u, pk)
      <4>1. ASSUME NEW d \in s.indexes PROVE ValueIn(w, t, w[r], d.col) = index_value(s.cols, row, d.col)
        <5>1. Position(s.cols, d.col) \in 1..Len(s.cols)
          BY <1>6, PositionFits DEF ColumnsFit
        <5> QED BY <1>15, <3>3, <5>1 DEF ValueIn, index_value
      <4>2. index_entry_key(id, i, u, pk) \in new <=> \E d \in s.indexes : i = d.name /\ u = index_value(s.cols, row, d.col)
        BY <2>2 DEF RowEntries, index_entry_key
      <4>3. HasEntry(w, t, id, i, u, pk) <=> \E d \in s.indexes : i = d.name /\ u = ValueIn(w, t, w[r], d.col)
        BY <1>15, <3>1 DEF HasEntry
      <4> QED BY <1>8, <4>1, <4>2, <4>3
    <3> QED BY <1>6, <1>13, <1>14, <3>4, <3>5, RowReplaced
  <2> QED BY <2>1, <2>2
<1> QED BY <1>12, <1>13, <1>16, <1>17 DEF RowWork, OnlyRow, w

Ready(x, t) == TxnOK(x) /\ Known(x, t) /\ Fit(scan_range(x)) /\ IdsFit(scan_range(x))

LEMMA WorkFails ==
    ASSUME NEW x, TxnOK(x), Fit(scan_range(x))
    PROVE  RowWork(x, Fail(x)) /\ \A id, pk : OnlyRow(scan_range(x), scan_range(Fail(x)), id, pk)
<1>1. PICK y : y = Fail(x)
  OBVIOUS
<1>2. TxnOK(y)
  BY <1>1, FailedOK
<1>3. y.snap = x.snap /\ y.overlay = x.overlay
  BY <1>1 DEF Fail, TxnOK
<1> QED BY <1>1, <1>2, <1>3, WorkNone DEF OnlyRow, SameRow, Agree, scan_range

LEMMA InsertExact ==
    ASSUME NEW x, NEW t, Ready(x, t), NEW pk \in Int, NEW row, RowOK(row),
           DOMAIN row = 1..Len(read_schema(x, t).cols), NEW z, z = insert_data(x, t, pk, row)
    PROVE  RowWork(x, z) /\ OnlyRow(scan_range(x), scan_range(z), table_id(x, t), pk)
<1>1. PICK id : id = table_id(x, t)
  OBVIOUS
<1>2. PICK v : v = scan_range(x)
  OBVIOUS
<1>3. PICK k : k = row_key(id, pk)
  OBVIOUS
<1>4. PICK o : o = read_key(x, k)
  OBVIOUS
<1>5. PICK y : y = IF o = <<>> THEN [x EXCEPT !.uniq = @ \cup {k}]
                   ELSE apply_index_entries(x, t, pk, Logical(x, t, o[1]), FALSE)
  OBVIOUS
<1>6. PICK w : w = IF y.failed THEN y ELSE apply_index_entries(y, t, pk, row, TRUE)
  OBVIOUS
<1>7. z = IF w.failed THEN Fail(x) ELSE write_key(record_change(w, k), k, Physical(x, t, row))
  BY <1>1, <1>3, <1>4, <1>5, <1>6 DEF insert_data
<1>8. TxnOK(x) /\ Known(x, t) /\ Fit(v) /\ IdsFit(v)
  BY <1>2 DEF Ready
<1>9. TxnOK(z)
  BY <1>8, DataInserted
<1>10. CASE w.failed
  BY <1>2, <1>7, <1>8, <1>10, WorkFails
<1>11. CASE ~ w.failed
  <2>1. PICK s : s = v[schema_key(t)]
    OBVIOUS
  <2>2. read_schema(x, t) = s
    BY <1>2, <1>8, <2>1, TableSeen
  <2>3. ~ y.failed /\ w = apply_index_entries(y, t, pk, row, TRUE)
    BY <1>6, <1>11
  <2>4. PICK old : old = IF k \in DOMAIN v THEN RowEntries(s, id, LogicalIn(v, t, v[k]), pk) ELSE {}
    OBVIOUS
  <2>5. (o # <<>> <=> k \in DOMAIN v) /\ (k \in DOMAIN v => v[k] = o[1])
    BY <1>2, <1>4, ReadsScan
  <2>6. /\ TxnOK(y) /\ SameCatalog(x, y) /\ y.snap = x.snap /\ DOMAIN y.overlay = old \cup DOMAIN x.overlay
        /\ Becomes(v, Filled(old, <<>>), scan_range(y))
    <3>1. CASE o = <<>>
      <4>1. RowLock(k)
        BY <1>1, <1>3, <1>8, TableOK DEF RowLock, row_key
      <4>2. TxnOK(y) /\ SameCatalog(x, y)
        BY <1>5, <1>8, <3>1, <4>1, KeyGuarded
      <4>3. y.snap = x.snap /\ y.overlay = x.overlay
        BY <1>5, <1>8, <3>1 DEF TxnOK
      <4>4. old = {}
        BY <2>4, <2>5, <3>1
      <4>5. scan_range(y) = v
        BY <1>2, <4>3 DEF scan_range
      <4> QED BY <4>2, <4>3, <4>4, <4>5 DEF Becomes, Filled
    <3>2. CASE o # <<>>
      <4>1. PICK phys : phys = Logical(x, t, o[1])
        OBVIOUS
      <4>2. phys = LogicalIn(v, t, v[k])
        BY <1>2, <2>5, <3>2, <4>1, LogicalSeen
      <4>3. y = apply_index_entries(x, t, pk, phys, FALSE)
        BY <1>5, <3>2, <4>1
      <4>4. old = RowEntries(s, id, phys, pk)
        BY <2>4, <2>5, <3>2, <4>2
      <4>5. y.snap = x.snap /\ y.overlay = Over(Filled(old, <<>>), x.overlay)
        <5>1. Applied(x, y, old, <<>>)
          BY <1>1, <1>8, <2>2, <2>3, <4>3, <4>4, EntriesCleared
        <5> QED BY <5>1 DEF Applied
      <4>6. DOMAIN y.overlay = old \cup DOMAIN x.overlay
        BY <4>5 DEF Over, Filled
      <4> QED BY <1>2, <1>8, <4>3, <4>5, <4>6, EntriesApplied, ScanBecomes
    <3> QED BY <3>1, <3>2
  <2>7. read_schema(y, t) = s /\ table_id(y, t) = id
    BY <1>1, <2>2, <2>6 DEF SameCatalog, read_schema, table_id
  <2>8. PICK new : new = RowEntries(s, id, row, pk)
    OBVIOUS
  <2>9. TxnOK(w) /\ w.snap = y.snap /\ w.overlay = Over(Filled(new, <<pk>>), y.overlay)
    <3>1. w.snap = y.snap /\ w.overlay = Over(Filled(new, <<pk>>), y.overlay)
      <4>1. Applied(y, w, new, <<pk>>)
        BY <1>11, <2>3, <2>6, <2>7, <2>8, EntriesAdded
      <4> QED BY <4>1 DEF Applied
    <3>2. Known(y, t)
      BY <1>8, <2>6, KnownKept
    <3>3. TxnOK(w)
      BY <2>3, <2>6, <3>2, EntriesApplied
    <3> QED BY <3>1, <3>3
  <2>10. PICK val : val = <<Physical(x, t, row)>>
    OBVIOUS
  <2>11. z.snap = x.snap /\ z.overlay = Over(Single(k, val), w.overlay)
    <3>1. PICK c : c = record_change(w, k)
      OBVIOUS
    <3>2. TxnOK(c) /\ c.snap = w.snap /\ c.overlay = w.overlay
      BY <2>9, <3>1, ChangeRecorded
    <3>3. z = write_all(c, Single(k, val))
      BY <1>7, <1>11, <2>10, <3>1 DEF write_key
    <3>4. z.snap = c.snap /\ z.overlay = Over(Single(k, val), c.overlay)
      BY <3>2, <3>3, WriteAll DEF TxnOK, IsTxn
    <3> QED BY <2>6, <2>9, <3>2, <3>4
  <2>12. /\ Becomes(scan_range(y), Filled(new, <<pk>>), scan_range(w)) /\ Becomes(scan_range(w), Single(k, val), scan_range(z))
         /\ DOMAIN z.overlay = {k} \cup new \cup old \cup DOMAIN x.overlay
    BY <2>6, <2>9, <2>11, ScanBecomes DEF Over, Single, Filled
  <2>13. new = RowEntries(s, id, row, pk) /\ DOMAIN row = 1..Len(s.cols) /\ val = <<Physical(x, t, row)>>
    BY <2>2, <2>8, <2>10
  <2>14. z.snap = x.snap /\ Fit(scan_range(x)) /\ IdsFit(scan_range(x))
    BY <1>2, <1>8, <2>11
  <2>15. old = (IF row_key(id, pk) \in DOMAIN v THEN RowEntries(s, id, LogicalIn(v, t, v[row_key(id, pk)]), pk) ELSE {})
    BY <1>3, <2>4
  <2> QED BY <1>1, <1>2, <1>3, <1>8, <1>9, <2>1, <2>6, <2>12, <2>13, <2>14, <2>15, OneRowDone
<1> QED BY <1>10, <1>11

LEMMA DeleteExact ==
    ASSUME NEW x, NEW t, Ready(x, t), NEW pk, row_key(table_id(x, t), pk) \in DOMAIN scan_range(x),
           NEW z, z = delete_data(x, t, pk)
    PROVE  RowWork(x, z) /\ OnlyRow(scan_range(x), scan_range(z), table_id(x, t), pk)
<1>1. PICK id : id = table_id(x, t)
  OBVIOUS
<1>2. PICK v : v = scan_range(x)
  OBVIOUS
<1>3. PICK k : k = row_key(id, pk)
  OBVIOUS
<1>4. PICK row : row = Logical(x, t, read_key(x, k)[1])
  OBVIOUS
<1>5. PICK y : y = apply_index_entries(x, t, pk, row, FALSE)
  OBVIOUS
<1>6. z = IF y.failed THEN Fail(x) ELSE delete_key(record_change(y, k), k)
  BY <1>1, <1>3, <1>4, <1>5 DEF delete_data
<1>7. TxnOK(x) /\ Known(x, t) /\ Fit(v) /\ IdsFit(v)
  BY <1>2 DEF Ready
<1>8. TxnOK(z)
  BY <1>7, DataDeleted
<1>9. CASE y.failed
  BY <1>2, <1>6, <1>7, <1>9, WorkFails
<1>10. CASE ~ y.failed
  <2>1. PICK s : s = v[schema_key(t)]
    OBVIOUS
  <2>2. read_schema(x, t) = s
    BY <1>2, <1>7, <2>1, TableSeen
  <2>3. k \in DOMAIN v /\ row = LogicalIn(v, t, v[k])
    BY <1>1, <1>2, <1>3, <1>4, ReadsScan, LogicalSeen
  <2>4. PICK old : old = IF k \in DOMAIN v THEN RowEntries(s, id, LogicalIn(v, t, v[k]), pk) ELSE {}
    OBVIOUS
  <2>5. old = RowEntries(s, id, row, pk)
    BY <2>3, <2>4
  <2>6. Applied(x, y, old, <<>>)
    BY <1>1, <1>5, <1>7, <1>10, <2>2, <2>5, EntriesCleared
  <2>7. y.snap = x.snap /\ y.overlay = Over(Filled(old, <<>>), x.overlay)
    BY <2>6 DEF Applied
  <2>8. TxnOK(y)
    BY <1>5, <1>7, EntriesApplied
  <2>9. PICK val : val = <<>>
    OBVIOUS
  <2>10. z.snap = x.snap /\ z.overlay = Over(Single(k, val), y.overlay)
    <3>1. PICK c : c = record_change(y, k)
      OBVIOUS
    <3>2. TxnOK(c) /\ c.snap = y.snap /\ c.overlay = y.overlay
      BY <2>8, <3>1, ChangeRecorded
    <3>3. z = write_all(c, Single(k, val))
      BY <1>6, <1>10, <2>9, <3>1 DEF delete_key
    <3>4. z.snap = c.snap /\ z.overlay = Over(Single(k, val), c.overlay)
      BY <3>2, <3>3, WriteAll DEF TxnOK, IsTxn
    <3> QED BY <2>7, <3>2, <3>4
  <2>11. PICK new : new = {}
    OBVIOUS
  <2>12. /\ Becomes(v, Filled(old, <<>>), scan_range(y)) /\ Becomes(scan_range(y), Filled(new, <<pk>>), scan_range(y))
         /\ Becomes(scan_range(y), Single(k, val), scan_range(z))
         /\ DOMAIN z.overlay = {k} \cup new \cup old \cup DOMAIN x.overlay
    <3>1. Becomes(v, Filled(old, <<>>), scan_range(y)) /\ Becomes(scan_range(y), Single(k, val), scan_range(z))
      BY <1>2, <2>7, <2>10, ScanBecomes
    <3>2. Becomes(scan_range(y), Filled(new, <<pk>>), scan_range(y))
      BY <2>11 DEF Becomes, Filled
    <3>3. DOMAIN z.overlay = {k} \cup new \cup old \cup DOMAIN x.overlay
      BY <2>7, <2>10, <2>11 DEF Over, Single, Filled
    <3> QED BY <3>1, <3>2, <3>3
  <2>13. new = {} /\ val = <<>>
    BY <2>9, <2>11
  <2>14. z.snap = x.snap /\ Fit(scan_range(x)) /\ IdsFit(scan_range(x))
    BY <1>2, <1>7, <2>10
  <2>15. old = (IF row_key(id, pk) \in DOMAIN v THEN RowEntries(s, id, LogicalIn(v, t, v[row_key(id, pk)]), pk) ELSE {})
    BY <1>3, <2>4
  <2> QED BY <1>1, <1>2, <1>3, <1>7, <1>8, <2>1, <2>12, <2>13, <2>14, <2>15, OneRowDone
<1> QED BY <1>9, <1>10

\* The rows a statement fetches have a value for every column.
LEMMA FetchedWhole ==
    ASSUME NEW x, NEW t, Ready(x, t), NEW pk \in DOMAIN collect_rows(x, t)
    PROVE  /\ row_key(table_id(x, t), pk) \in DOMAIN scan_range(x)
           /\ DOMAIN collect_rows(x, t)[pk] = 1..Len(read_schema(x, t).cols)
<1>1. PICK v : v = scan_range(x)
  OBVIOUS
<1>2. StoreOK(v) /\ Fit(v) /\ IdsFit(v) /\ TxnOK(x) /\ Known(x, t)
  BY <1>1, MergedOK DEF scan_range, TxnOK, Ready
<1>3. PICK id : id = table_id(x, t)
  OBVIOUS
<1>4. /\ pk \in {k[3] : k \in RowKeys(v, id)}
      /\ collect_rows(x, t)[pk] = Logical(x, t, v[row_key(id, pk)])
  BY <1>1, <1>3 DEF collect_rows
<1>5. PICK k \in DOMAIN v : k[1] = "row" /\ k[2] = id /\ k[3] = pk
  BY <1>4 DEF RowKeys
<1>6. k = row_key(id, pk)
  BY <1>2, <1>5 DEF StoreOK, RecordOK
<1>7. HasId(v, t, id) /\ schema_key(t) \in DOMAIN v /\ read_schema(x, t) = v[schema_key(t)]
  BY <1>1, <1>2, <1>3, TableSeen
<1>8. HasRow(v, t, id, pk) /\ TableFit(v, t)
  BY <1>2, <1>5, <1>6, <1>7 DEF Fit, RowExact, HasRow, IdsFit
<1>9. DOMAIN LogicalIn(v, t, v[k]) = 1..Len(v[schema_key(t)].cols)
  <2>1. CASE colcat_key(t) \in DOMAIN v
    BY <1>8, <2>1 DEF LogicalIn, TableFit, SlotsFit, to_logical
  <2>2. CASE colcat_key(t) \notin DOMAIN v
    BY <1>6, <1>8, <2>2 DEF LogicalIn, HasRow
  <2> QED BY <2>1, <2>2
<1>10. collect_rows(x, t)[pk] = LogicalIn(v, t, v[k])
  BY <1>1, <1>4, <1>6, LogicalSeen
<1> QED BY <1>1, <1>3, <1>5, <1>6, <1>7, <1>9, <1>10

\* Writing the rows a statement fetched, one after the other.
LEMMA OneRowExact ==
    ASSUME NEW y, NEW q, StatementOK(q), q.op \in {"update", "delete"}, Ready(y, q.t), NEW cols, NEW fetched,
           NEW pk \in q.pks, RowOK(fetched[pk]), DOMAIN fetched[pk] = 1..Len(read_schema(y, q.t).cols),
           row_key(table_id(y, q.t), pk) \in DOMAIN scan_range(y),
           NEW z, z = WriteRow(y, q, cols, fetched, pk)
    PROVE  RowWork(y, z) /\ OnlyRow(scan_range(y), scan_range(z), table_id(y, q.t), pk)
<1>1. CASE y.failed
  <2>1. z = y
    BY <1>1 DEF WriteRow
  <2> QED BY <2>1, WorkNone DEF Ready, OnlyRow, SameRow, Agree
<1>2. CASE ~ y.failed /\ q.op = "delete"
  <2>1. z = delete_data(y, q.t, pk)
    BY <1>2 DEF WriteRow
  <2> QED BY <2>1, DeleteExact
<1>3. CASE ~ y.failed /\ q.op # "delete"
  <2>1. PICK row : row = [fetched[pk] EXCEPT ![Position(cols, q.col)] = q.v]
    OBVIOUS
  <2>2. z = insert_data(y, q.t, pk, row)
    BY <1>3, <2>1 DEF WriteRow
  <2>3. q.v \in Int /\ pk \in Int
    BY <1>3 DEF StatementOK
  <2>4. RowOK(row) /\ DOMAIN row = DOMAIN fetched[pk]
    BY <2>1, <2>3 DEF RowOK
  <2> QED BY <2>2, <2>3, <2>4, InsertExact
<1> QED BY <1>1, <1>2, <1>3

LEMMA WorkReady ==
    ASSUME NEW x, NEW y, NEW t, Ready(x, t), RowWork(x, y)
    PROVE  Ready(y, t) /\ read_schema(y, t) = read_schema(x, t) /\ table_id(y, t) = table_id(x, t)
<1>1. PICK v, w : v = scan_range(x) /\ w = scan_range(y)
  OBVIOUS
<1>2. SameTable(v, w, t) /\ IdsFit(w) /\ TxnOK(y) /\ Fit(w)
  BY <1>1, AsideTables DEF Ready, RowWork
<1>3. \A k : /\ read_key(x, k) # <<>> <=> k \in DOMAIN v
             /\ k \in DOMAIN v => v[k] = read_key(x, k)[1]
             /\ read_key(y, k) # <<>> <=> k \in DOMAIN w
             /\ k \in DOMAIN w => w[k] = read_key(y, k)[1]
  BY <1>1, ReadsScan
<1> QED BY <1>1, <1>2, <1>3 DEF Ready, SameTable, Agree, Known, Exists, read_schema, table_id

LEMMA RowsExact ==
    ASSUME NEW x, NEW q, StatementOK(q), q.op \in {"update", "delete"}, Ready(x, q.t)
    PROVE  RowWork(x, WriteRows(x, q))
<1>1. PICK S : S = Matching(x, q)
  OBVIOUS
<1>2. S \subseteq q.pks /\ IsFiniteSet(q.pks) /\ S \subseteq DOMAIN collect_rows(x, q.t)
  BY <1>1 DEF Matching, StatementOK
<1>3. IsFiniteSet(S)
  BY <1>2, FS_Subset
<1>4. PICK g : g = CHOOSE h : IsFold(h, x, q, S)
  OBVIOUS
<1>5. IsFold(g, x, q, S)
  BY <1>3, <1>4, FoldExists
<1>6. PICK id : id = table_id(x, q.t)
  OBVIOUS
<1> DEFINE Sound(s) == RowWork(x, g[s]) /\ \A p \in S \ s : row_key(id, p) \in DOMAIN scan_range(g[s])
           T == {Cardinality(s) : s \in {r \in SUBSET S : ~ Sound(r)}}
<1>7. ASSUME NEW s \in SUBSET S PROVE IsFiniteSet(s) /\ Cardinality(s) \in Nat
  BY <1>3, FS_Subset, FS_CardinalityType
<1>8. T \subseteq Nat
  BY <1>7
<1>9. ASSUME NEW p \in S
      PROVE  /\ row_key(id, p) \in DOMAIN scan_range(x) /\ RowOK(collect_rows(x, q.t)[p])
             /\ DOMAIN collect_rows(x, q.t)[p] = 1..Len(read_schema(x, q.t).cols)
  BY <1>2, <1>6, FetchedWhole, FetchedOK DEF Ready
<1>10. CASE T # {}
  <2>1. PICK s \in SUBSET S : ~ Sound(s) /\ \A r \in SUBSET S : ~ Sound(r) => Cardinality(s) <= Cardinality(r)
    <3>1. PICK n \in T : \A y \in T : n <= y
      <4> HIDE DEF T
      <4> QED BY <1>8, <1>10, LeastNatural
    <3> QED BY <3>1
  <2>2. g[s] = After(g, x, q, s)
    BY <1>5 DEF IsFold
  <2>3. CASE s = {}
    <3>1. g[s] = x
      BY <2>2, <2>3 DEF After
    <3> QED BY <1>9, <2>1, <2>3, <3>1, WorkNone DEF Ready
  <2>4. CASE s # {}
    <3>1. /\ First(s) \in s /\ Rest(s) \in SUBSET S
          /\ Cardinality(s) \in Nat \ {0} /\ Cardinality(Rest(s)) = Cardinality(s) - 1
      BY <1>7, <2>4, RestSmaller
    <3>2. ~(Cardinality(s) <= Cardinality(Rest(s)))
      BY <3>1
    <3>3. Sound(Rest(s))
      BY <2>1, <3>1, <3>2
    <3>4. PICK pk : pk = First(s)
      OBVIOUS
    <3>5. pk \in q.pks /\ pk \in S /\ pk \in s /\ Rest(s) = s \ {pk}
      BY <1>2, <3>1, <3>4 DEF Rest
    <3>6. PICK fetched : fetched = collect_rows(x, q.t)
      OBVIOUS
    <3>7. PICK y : y = g[Rest(s)]
      OBVIOUS
    <3>8. PICK z : z = g[s]
      OBVIOUS
    <3>9. z = WriteRow(y, q, read_schema(x, q.t).cols, fetched, pk)
      BY <2>2, <2>4, <3>4, <3>6, <3>7, <3>8 DEF After
    <3>10. RowWork(x, y) /\ \A p \in (S \ s) \cup {pk} : row_key(id, p) \in DOMAIN scan_range(y)
      BY <3>3, <3>5, <3>7
    <3>11. Ready(y, q.t) /\ read_schema(y, q.t) = read_schema(x, q.t) /\ table_id(y, q.t) = id
      BY <1>6, <3>10, WorkReady
    <3>12. RowWork(y, z) /\ OnlyRow(scan_range(y), scan_range(z), id, pk)
      BY <1>9, <3>5, <3>6, <3>9, <3>10, <3>11, OneRowExact
    <3>13. \A p \in S \ s : row_key(id, p) \in DOMAIN scan_range(z)
      BY <3>5, <3>10, <3>12 DEF OnlyRow, SameRow, Agree
    <3>14. Sound(s)
      BY <3>8, <3>10, <3>12, <3>13, WorkTwice
    <3> QED BY <2>1, <3>14
  <2> QED BY <2>3, <2>4
<1>11. CASE T = {}
  BY <1>1, <1>4, <1>11, WriteRowsIsFold
<1> QED BY <1>10, <1>11

LEMMA DmlExact ==
    ASSUME NEW x, TxnOK(x), NEW q, StatementOK(q), ~ IsDDL(q), q.op # "append",
           Fit(scan_range(x)), IdsFit(scan_range(x)), NEW z, z = Execute(x, q)
    PROVE  RowWork(x, z)
<1>1. CASE q.op = "select"
  BY <1>1, WorkNone DEF Execute
<1>2. CASE q.op \in {"insert", "update", "delete"}
  <2>1. z = IF Known(x, q.t) THEN ChangeRows(x, q) ELSE Fail(x)
    BY <1>2 DEF Execute
  <2>2. CASE z = Fail(x)
    BY <2>2, WorkFails
  <2>3. CASE Known(x, q.t) /\ q.op = "insert" /\ z # Fail(x)
    <3>1. Len(q.row) = Len(read_schema(x, q.t).cols) /\ z = insert_data(x, q.t, q.pk, q.row)
      BY <2>1, <2>3 DEF ChangeRows
    <3>2. q.row \in Seq(Int) /\ q.pk \in Int /\ RowOK(q.row)
      BY <2>3, StatementRow DEF StatementOK
    <3>3. DOMAIN q.row = 1..Len(read_schema(x, q.t).cols)
      BY <3>1, <3>2
    <3> QED BY <2>3, <3>1, <3>2, <3>3, InsertExact DEF Ready
  <2>4. CASE Known(x, q.t) /\ q.op \in {"update", "delete"} /\ z # Fail(x)
    <3>1. z = WriteRows(x, q)
      BY <2>1, <2>4 DEF ChangeRows
    <3> QED BY <2>4, <3>1, RowsExact DEF Ready
  <2> QED BY <1>2, <2>1, <2>2, <2>3, <2>4
<1> QED BY <1>1, <1>2 DEF IsDDL, StatementOK

-----------------------------------------------------------------------------
(* Statements on schemas change one table, whose id stays its own.           *)

LEMMA TableChanged ==
    ASSUME NEW v, NEW w, Fit(v), NEW id,
           \A u : SameTable(v, w, u) \/ (TableFit(w, u) /\ \A j : HasId(v, u, j) \/ HasId(w, u, j) => j = id),
           \A j, p : j # id => SameRow(v, w, j, p),
           \A p : RowExact(w, id, p)
    PROVE  Fit(w)
<1>1. ASSUME NEW u PROVE TableFit(w, u)
  BY TableStays DEF Fit
<1>2. ASSUME NEW j, NEW p, j # id PROVE RowExact(w, j, p)
  <2>1. \A u : SameTable(v, w, u) \/ (~ HasId(v, u, j) /\ ~ HasId(w, u, j))
    BY <1>2
  <2> QED BY <1>2, <2>1, RowStays DEF Fit
<1> QED BY <1>1, <1>2 DEF Fit

\* The rows stay, and so do the values of the indexed columns.
LEMMA TableMoved ==
    ASSUME NEW v, NEW w, Fit(v), IdsFit(v), IdsFit(w), NEW t, NEW u, NEW id, HasId(v, t, id), HasId(w, u, id),
           schema_key(u) \in DOMAIN w, w[schema_key(u)].indexes = v[schema_key(t)].indexes,
           \A n : SameTable(v, w, n) \/ (TableFit(w, n) /\ \A j : HasId(v, n, j) \/ HasId(w, n, j) => j = id),
           \A j, p : SameRow(v, w, j, p),
           \A p : row_key(id, p) \in DOMAIN v /\ HasRow(v, t, id, p) =>
                    /\ HasRow(w, u, id, p)
                    /\ \A d \in v[schema_key(t)].indexes :
                          ValueIn(w, u, v[row_key(id, p)], d.col) = ValueIn(v, t, v[row_key(id, p)], d.col)
    PROVE  Fit(w)
<1>1. ASSUME NEW p PROVE RowExact(w, id, p)
  <2>1. RowExact(v, id, p) /\ SameRow(v, w, id, p)
    BY DEF Fit
  <2>2. /\ row_key(id, p) \in DOMAIN w <=> row_key(id, p) \in DOMAIN v
        /\ row_key(id, p) \in DOMAIN v => w[row_key(id, p)] = v[row_key(id, p)]
    BY <2>1 DEF SameRow, Agree
  <2>3. (\A n : HasId(v, n, id) => n = t) /\ (\A n : HasId(w, n, id) => n = u)
    BY DEF IdsFit
  <2>4. row_key(id, p) \in DOMAIN v => HasRow(v, t, id, p)
    <3>1. \A n : HasRow(v, n, id, p) => n = t
      BY <2>3 DEF HasRow
    <3> QED BY <2>1, <3>1 DEF RowExact
  <2>5. schema_key(t) \in DOMAIN v
    BY DEF Fit, TableFit, HasId
  <2>6. ASSUME NEW i, NEW val PROVE HasEntry(v, t, id, i, val, p) <=> HasEntry(w, u, id, i, val, p)
    BY <2>2, <2>4, <2>5 DEF HasEntry
  <2>7. \A n, i, val : /\ HasEntry(v, n, id, i, val, p) => n = t
                       /\ HasEntry(w, n, id, i, val, p) => n = u
    BY <2>3 DEF HasEntry
  <2>8. ASSUME NEW i, NEW val
        PROVE  index_entry_key(id, i, val, p) \in DOMAIN w <=> \E n : HasEntry(w, n, id, i, val, p)
    BY <2>1, <2>6, <2>7 DEF RowExact, SameRow
  <2> QED BY <2>2, <2>4, <2>8 DEF RowExact
<1> QED BY <1>1, TableChanged

LEMMA RecordShapes ==
    /\ \A t : schema_key(t)[1] = "schema" /\ tableid_key(t)[1] = "tableid" /\ colcat_key(t)[1] = "colcat"
    /\ \A t : pkcat_key(t)[1] = "pkcat" /\ uniqueidx_key(t)[1] = "uniqueidx"
    /\ \A t, u : schema_key(t) = schema_key(u) \/ tableid_key(t) = tableid_key(u) \/ colcat_key(t) = colcat_key(u) => t = u
    /\ tableid_seq_key[1] = "tableid_seq"
BY DEF schema_key, tableid_key, colcat_key, pkcat_key, uniqueidx_key, tableid_seq_key

\* The keys outside ks stay as they are seen.
Besides(v, w, ks) == \A k : k \notin ks => Agree(v, w, k)

LEMMA BesidesTwice ==
    ASSUME NEW u, NEW v, NEW w, NEW ks, NEW js, Besides(u, v, ks), Besides(v, w, js)
    PROVE  Besides(u, w, ks \cup js)
BY DEF Besides, Agree

LEMMA KeyWritten ==
    ASSUME NEW x, IsTxn(x), NEW k, NEW e, NEW y, y = write_key(x, k, e)
    PROVE  IsTxn(y) /\ k \in DOMAIN scan_range(y) /\ scan_range(y)[k] = e /\ Besides(scan_range(x), scan_range(y), {k})
<1>1. IsTxn(y) /\ y.snap = x.snap /\ y.overlay = Over(Single(k, <<e>>), x.overlay)
  BY WriteKey
<1>2. Becomes(scan_range(x), Single(k, <<e>>), scan_range(y))
  BY <1>1, ScanBecomes
<1>3. DOMAIN Single(k, <<e>>) = {k} /\ Single(k, <<e>>)[k] = <<e>>
  BY DEF Single
<1> QED BY <1>1, <1>2, <1>3 DEF Becomes, Besides, Agree

LEMMA KeysGone ==
    ASSUME NEW x, IsTxn(x), NEW ks, NEW y, y = delete_keys(x, ks)
    PROVE  IsTxn(y) /\ (\A k \in ks : k \notin DOMAIN scan_range(y)) /\ Besides(scan_range(x), scan_range(y), ks)
<1>1. PICK f : f = [k \in ks |-> <<>>]
  OBVIOUS
<1>2. y = write_all(x, f) /\ DOMAIN f = ks /\ \A k \in ks : f[k] = <<>>
  BY <1>1 DEF delete_keys
<1>3. IsTxn(y) /\ y.snap = x.snap /\ y.overlay = Over(f, x.overlay)
  BY <1>2, WriteAll
<1>4. Becomes(scan_range(x), f, scan_range(y))
  BY <1>3, ScanBecomes
<1> QED BY <1>2, <1>3, <1>4 DEF Becomes, Besides, Agree

\* Nothing of a table whose id nobody has.
LEMMA NothingThere ==
    ASSUME NEW v, Fit(v), NEW id, \A u : ~ HasId(v, u, id), NEW p
    PROVE  row_key(id, p) \notin DOMAIN v /\ \A i, val : index_entry_key(id, i, val, p) \notin DOMAIN v
<1>1. RowExact(v, id, p)
  BY DEF Fit
<1> QED BY <1>1 DEF RowExact, HasRow, HasEntry

LEMMA NoRowsExact ==
    ASSUME NEW w, NEW id, NEW p, row_key(id, p) \notin DOMAIN w, \A i, val : index_entry_key(id, i, val, p) \notin DOMAIN w
    PROVE  RowExact(w, id, p)
BY DEF RowExact, HasEntry

LEMMA RowsBeside ==
    ASSUME NEW v, NEW w, NEW ks, Besides(v, w, ks), \A k \in ks : k[1] \notin {"row", "index"}, NEW j, NEW p
    PROVE  SameRow(v, w, j, p)
<1>1. row_key(j, p) \notin ks /\ \A i, val : index_entry_key(j, i, val, p) \notin ks
  BY KeyShapes
<1> QED BY <1>1 DEF Besides, SameRow, Agree

LEMMA TablesBeside ==
    ASSUME NEW v, NEW w, NEW t, NEW ks, Besides(v, w, ks), NEW u, u # t,
           \A k \in ks : k[1] \notin {"schema", "tableid", "colcat"} \/ k \in {schema_key(t), tableid_key(t), colcat_key(t)}
    PROVE  SameTable(v, w, u)
<1>1. schema_key(u) \notin ks /\ tableid_key(u) \notin ks /\ colcat_key(u) \notin ks
  BY RecordShapes
<1> QED BY <1>1 DEF Besides, SameTable

LEMMA CreateExact ==
    ASSUME NEW x, TxnOK(x), Numbered(x), Fit(scan_range(x)), NEW q, StatementOK(q), q.op = "create_table",
           NEW z, z = create_table(x, q), z # Fail(x)
    PROVE  Fit(scan_range(z))
<1>1. PICK v, w, t : v = scan_range(x) /\ w = scan_range(z) /\ t = q.t
  OBVIOUS
<1>2. PICK s : s = [cols |-> q.cols, indexes |-> {}, keyed |-> q.keyed]
  OBVIOUS
<1>3. ~ Exists(x, t) /\ z = insert_schema(x, t, s)
  BY <1>1, <1>2 DEF create_table
<1>4. schema_key(t) \notin DOMAIN v /\ tableid_key(t) \notin DOMAIN v /\ colcat_key(t) \notin DOMAIN v
  <2>1. schema_key(t) \notin DOMAIN v
    BY <1>1, <1>3, ReadsScan DEF Exists
  <2> QED BY <1>1, <2>1 DEF Fit, TableFit
<1>5. read_key(x, tableid_key(t)) = <<>>
  BY <1>1, <1>4, ReadsScan
<1>6. PICK n : n = read_or(x, tableid_seq_key, 0) + 1
  OBVIOUS
<1>7. PICK y1 : y1 = write_key(x, tableid_seq_key, n)
  OBVIOUS
<1>8. PICK y2 : y2 = write_key(y1, tableid_key(t), n)
  OBVIOUS
<1>9. z = write_key(y2, schema_key(t), s)
  BY <1>3, <1>5, <1>6, <1>7, <1>8 DEF insert_schema, ensure_table_id
<1>10. IsTxn(x)
  BY DEF TxnOK, IsTxn
<1>11. IsTxn(y1) /\ Besides(v, scan_range(y1), {tableid_seq_key})
  BY <1>1, <1>7, <1>10, KeyWritten
<1>12. /\ IsTxn(y2) /\ tableid_key(t) \in DOMAIN scan_range(y2) /\ scan_range(y2)[tableid_key(t)] = n
       /\ Besides(scan_range(y1), scan_range(y2), {tableid_key(t)})
  BY <1>8, <1>11, KeyWritten
<1>13. schema_key(t) \in DOMAIN w /\ w[schema_key(t)] = s /\ Besides(scan_range(y2), w, {schema_key(t)})
  BY <1>1, <1>9, <1>12, KeyWritten
<1>14. PICK ks : ks = ({tableid_seq_key} \cup {tableid_key(t)}) \cup {schema_key(t)}
  OBVIOUS
<1>15. Besides(v, w, ks)
  BY <1>11, <1>12, <1>13, <1>14, BesidesTwice
<1>16. HasId(w, t, n)
  BY <1>12, <1>13, RecordShapes DEF Besides, Agree, HasId
<1>17. ASSUME NEW u PROVE ~ HasId(v, u, n)
  <2>1. ASSUME HasId(v, u, n) PROVE FALSE
    <3>1. read_key(x, tableid_key(u)) # <<>> /\ table_id(x, u) = n
      BY <1>1, <2>1, ReadsScan DEF HasId, table_id
    <3>2. read_key(x, tableid_seq_key) # <<>> /\ table_id(x, u) <= read_key(x, tableid_seq_key)[1]
      BY <3>1 DEF Numbered
    <3>3. table_id(x, u) \in Int
      BY <3>1, ReadOK DEF RecordOK, tableid_key, table_id
    <3>4. read_key(x, tableid_seq_key)[1] \in Int
      BY <3>2, ReadOK DEF RecordOK, tableid_seq_key
    <3> QED BY <1>6, <3>1, <3>2, <3>3, <3>4 DEF read_or
  <2> QED BY <2>1
<1>18. TableFit(w, t)
  <2>1. colcat_key(t) \notin DOMAIN w
    BY <1>4, <1>14, <1>15, RecordShapes DEF Besides, Agree
  <2>2. ColumnsFit(s)
    BY <1>2 DEF StatementOK, ColumnsFit, IsInjective
  <2> QED BY <1>13, <2>1, <2>2 DEF TableFit
<1>19. ASSUME NEW u PROVE SameTable(v, w, u) \/ (TableFit(w, u) /\ \A j : HasId(v, u, j) \/ HasId(w, u, j) => j = n)
  <2>1. CASE u = t
    BY <1>4, <1>16, <1>18, <2>1 DEF HasId
  <2>2. CASE u # t
    BY <1>14, <1>15, <2>2, RecordShapes, TablesBeside
  <2> QED BY <2>1, <2>2
<1>20. \A j, p : SameRow(v, w, j, p)
  BY <1>14, <1>15, RecordShapes, RowsBeside
<1>21. ASSUME NEW p PROVE RowExact(w, n, p)
  BY <1>1, <1>17, <1>20, NothingThere, NoRowsExact DEF SameRow, Agree
<1> QED BY <1>1, <1>19, <1>20, <1>21, TableChanged

\* The rows of a table, and what is under its id.
LEMMA FetchedAll ==
    ASSUME NEW x, TxnOK(x), NEW t, NEW v, v = scan_range(x), NEW id, id = table_id(x, t), NEW rows, rows = collect_rows(x, t), NEW p
    PROVE  /\ p \in DOMAIN rows <=> row_key(id, p) \in DOMAIN v
           /\ p \in DOMAIN rows => rows[p] = LogicalIn(v, t, v[row_key(id, p)])
<1>1. DOMAIN rows = {k[3] : k \in RowKeys(v, id)}
  BY DEF collect_rows
<1>2. StoreOK(v)
  BY MergedOK DEF scan_range, TxnOK
<1>3. p \in DOMAIN rows => row_key(id, p) \in DOMAIN v
  <2>1. ASSUME p \in DOMAIN rows PROVE row_key(id, p) \in DOMAIN v
    <3>1. PICK k \in DOMAIN v : k[1] = "row" /\ k[2] = id /\ k[3] = p
      BY <1>1, <2>1 DEF RowKeys
    <3>2. k = row_key(id, p)
      BY <1>2, <3>1 DEF StoreOK, RecordOK
    <3> QED BY <3>1, <3>2
  <2> QED BY <2>1
<1>4. row_key(id, p) \in DOMAIN v => p \in DOMAIN rows
  <2>1. row_key(id, p)[1] = "row" /\ row_key(id, p)[2] = id /\ row_key(id, p)[3] = p
    BY DEF row_key
  <2> QED BY <1>1, <2>1 DEF RowKeys
<1>5. p \in DOMAIN rows => rows[p] = Logical(x, t, v[row_key(id, p)])
  BY DEF collect_rows
<1> QED BY <1>3, <1>4, <1>5, LogicalSeen

LEMMA EntriesOfRows ==
    ASSUME NEW id, NEW s, NEW rows, NEW ks, ks = entries_of_rows(id, s, rows)
    PROVE  /\ \A k \in ks : \E i, val, p : k = index_entry_key(id, i, val, p)
           /\ \A i, val, p : index_entry_key(id, i, val, p) \in ks <=>
                 p \in DOMAIN rows /\ \E d \in s.indexes : i = d.name /\ val = index_value(s.cols, rows[p], d.col)
<1>1. \A k : k \in ks <=> \E d \in s.indexes, p \in DOMAIN rows : k = index_entry_key(id, d.name, index_value(s.cols, rows[p], d.col), p)
  BY DEF entries_of_rows
<1> QED BY <1>1, KeyShapes

\* The only table with the id decides what its rows and entries are.
LEMMA EntriesOfTable ==
    ASSUME NEW v, IdsFit(v), NEW t, NEW id, HasId(v, t, id), NEW p, RowExact(v, id, p)
    PROVE  /\ row_key(id, p) \in DOMAIN v => HasRow(v, t, id, p)
           /\ \A i, val : index_entry_key(id, i, val, p) \in DOMAIN v <=> HasEntry(v, t, id, i, val, p)
<1>1. \A n : HasId(v, n, id) => n = t
  BY DEF IdsFit
<1>2. \A n, i, val : (HasRow(v, n, id, p) => n = t) /\ (HasEntry(v, n, id, i, val, p) => n = t)
  BY <1>1 DEF HasRow, HasEntry
<1> QED BY <1>2 DEF RowExact

LEMMA DropExact ==
    ASSUME NEW x, TxnOK(x), Numbered(x), Fit(scan_range(x)), NEW t, NEW z, z = delete_schema(x, t), z # Fail(x)
    PROVE  Fit(scan_range(z))
<1>1. PICK v, w : v = scan_range(x) /\ w = scan_range(z)
  OBVIOUS
<1>2. PICK id, s, rows : id = table_id(x, t) /\ s = read_schema(x, t) /\ rows = collect_rows(x, t)
  OBVIOUS
<1>3. PICK es : es = entries_of_rows(id, s, rows)
  OBVIOUS
<1>4. PICK rs : rs = {row_key(id, p) : p \in DOMAIN rows}
  OBVIOUS
<1>5. PICK ks : ks = es \cup rs \cup {schema_key(t), colcat_key(t), pkcat_key(t), tableid_key(t)}
  OBVIOUS
<1>6. Known(x, t) /\ z = delete_keys(x, ks)
  BY <1>2, <1>3, <1>4, <1>5, Zenon DEF delete_schema
<1>7. IsTxn(x) /\ IdsFit(v)
  BY <1>1, NumberedIds DEF TxnOK, IsTxn
<1>8. (\A k \in ks : k \notin DOMAIN w) /\ Besides(v, w, ks)
  BY <1>1, <1>6, <1>7, KeysGone
<1>9. HasId(v, t, id) /\ s = v[schema_key(t)]
  BY <1>1, <1>2, <1>6, TableSeen
<1>10. /\ \A k \in es : \E i, val, p : k = index_entry_key(id, i, val, p)
       /\ \A i, val, p : index_entry_key(id, i, val, p) \in es <=>
             p \in DOMAIN rows /\ \E d \in s.indexes : i = d.name /\ val = index_value(s.cols, rows[p], d.col)
  BY <1>3, EntriesOfRows
<1>11. ASSUME NEW p PROVE RowExact(w, id, p)
  <2>1. RowExact(v, id, p)
    BY <1>1 DEF Fit
  <2>2. /\ p \in DOMAIN rows <=> row_key(id, p) \in DOMAIN v
        /\ p \in DOMAIN rows => rows[p] = LogicalIn(v, t, v[row_key(id, p)])
    BY <1>1, <1>2, FetchedAll
  <2>3. row_key(id, p) \notin DOMAIN w
    BY <1>4, <1>5, <1>8, <2>2 DEF Besides, Agree
  <2>4. ASSUME NEW i, NEW val PROVE index_entry_key(id, i, val, p) \notin DOMAIN w
    <3>1. index_entry_key(id, i, val, p) \in DOMAIN v => HasEntry(v, t, id, i, val, p)
      BY <1>7, <1>9, <2>1, EntriesOfTable
    <3>2. HasEntry(v, t, id, i, val, p) => index_entry_key(id, i, val, p) \in es
      BY <1>9, <1>10, <2>2 DEF HasEntry, ValueIn, index_value
    <3> QED BY <1>5, <1>8, <3>1, <3>2 DEF Besides, Agree
  <2> QED BY <2>3, <2>4, NoRowsExact
<1>12. ASSUME NEW j, NEW p, j # id PROVE SameRow(v, w, j, p)
  <2>1. row_key(j, p) \notin ks
    BY <1>4, <1>5, <1>10, <1>12, KeyShapes, RecordShapes
  <2>2. ASSUME NEW i, NEW val PROVE index_entry_key(j, i, val, p) \notin ks
    BY <1>4, <1>5, <1>10, <1>12, KeyShapes, RecordShapes
  <2> QED BY <1>8, <2>1, <2>2 DEF Besides, SameRow, Agree
<1>13. ASSUME NEW u PROVE SameTable(v, w, u) \/ (TableFit(w, u) /\ \A j : HasId(v, u, j) \/ HasId(w, u, j) => j = id)
  <2>1. CASE u = t
    <3>1. schema_key(t) \notin DOMAIN w /\ tableid_key(t) \notin DOMAIN w /\ colcat_key(t) \notin DOMAIN w
      BY <1>5, <1>8
    <3> QED BY <1>9, <2>1, <3>1 DEF TableFit, HasId
  <2>2. CASE u # t
    <3>1. \A k \in ks : k[1] \notin {"schema", "tableid", "colcat"} \/ k \in {schema_key(t), tableid_key(t), colcat_key(t)}
      BY <1>4, <1>5, <1>10, KeyShapes, RecordShapes
    <3> QED BY <1>8, <2>2, <3>1, TablesBeside
  <2> QED BY <2>1, <2>2
<1> QED BY <1>1, <1>11, <1>12, <1>13, TableChanged

LEMMA NewIndexExact ==
    ASSUME NEW x, TxnOK(x), Numbered(x), Fit(scan_range(x)), NEW q, NEW z, z = create_index(x, q), z # Fail(x)
    PROVE  Fit(scan_range(z))
<1>1. PICK v, w, t : v = scan_range(x) /\ w = scan_range(z) /\ t = q.t
  OBVIOUS
<1>2. PICK id, s, rows : id = table_id(x, t) /\ s = read_schema(x, t) /\ rows = collect_rows(x, t)
  OBVIOUS
<1>3. PICK d0 : d0 = [name |-> q.i, col |-> q.col]
  OBVIOUS
<1>4. PICK s0, s1 : s0 = [s EXCEPT !.indexes = {d0}] /\ s1 = [s EXCEPT !.indexes = @ \cup {d0}]
  OBVIOUS
<1>5. PICK es : es = entries_of_rows(id, s0, rows)
  OBVIOUS
<1>6. PICK f : f = [k \in es |-> <<k[5]>>]
  OBVIOUS
<1>7. PICK y : y = write_all(x, f)
  OBVIOUS
<1>8. /\ Known(x, t) /\ q.col \in Range(s.cols) /\ ~(\E d \in s.indexes : d.name = q.i)
      /\ z = write_key(y, schema_key(t), s1)
  BY <1>1, <1>2, <1>3, <1>4, <1>5, <1>6, <1>7 DEF create_index
<1>9. IsTxn(x) /\ IdsFit(v) /\ SchemaOK(s)
  BY <1>1, <1>2, <1>8, NumberedIds, TableOK DEF TxnOK, IsTxn
<1>10. s0.cols = s.cols /\ s0.indexes = {d0} /\ s1.cols = s.cols /\ s1.indexes = s.indexes \cup {d0}
  BY <1>4, <1>9 DEF SchemaOK
<1>11. IsTxn(y) /\ Besides(v, scan_range(y), es) /\ \A k \in es : k \in DOMAIN scan_range(y)
  <2>1. IsTxn(y) /\ y.snap = x.snap /\ y.overlay = Over(f, x.overlay)
    BY <1>7, <1>9, WriteAll
  <2>2. Becomes(v, f, scan_range(y))
    BY <1>1, <2>1, ScanBecomes
  <2>3. DOMAIN f = es /\ \A k \in es : f[k] # <<>>
    BY <1>6
  <2> QED BY <2>1, <2>2, <2>3 DEF Becomes, Besides, Agree
<1>12. schema_key(t) \in DOMAIN w /\ w[schema_key(t)] = s1 /\ Besides(scan_range(y), w, {schema_key(t)})
  BY <1>1, <1>8, <1>11, KeyWritten
<1>13. Besides(v, w, es \cup {schema_key(t)})
  BY <1>11, <1>12, BesidesTwice
<1>14. HasId(v, t, id) /\ s = v[schema_key(t)] /\ schema_key(t) \in DOMAIN v
  BY <1>1, <1>2, <1>8, TableSeen
<1>15. /\ \A k \in es : \E i, val, p : k = index_entry_key(id, i, val, p)
       /\ \A i, val, p : index_entry_key(id, i, val, p) \in es <=>
             p \in DOMAIN rows /\ \E d \in s0.indexes : i = d.name /\ val = index_value(s0.cols, rows[p], d.col)
  BY <1>5, EntriesOfRows
<1>16. HasId(w, t, id) /\ Agree(v, w, colcat_key(t))
  <2>1. tableid_key(t) \notin es \cup {schema_key(t)} /\ colcat_key(t) \notin es \cup {schema_key(t)}
    BY <1>15, KeyShapes, RecordShapes
  <2> QED BY <1>13, <1>14, <2>1 DEF Besides, Agree, HasId
<1>17. ASSUME NEW row, NEW c PROVE ValueIn(w, t, row, c) = ValueIn(v, t, row, c)
  BY <1>10, <1>12, <1>14, <1>16 DEF ValueIn, LogicalIn, Agree
<1>18. d0.name = q.i /\ d0.col = q.col
  BY <1>3
<1>19. ASSUME NEW p PROVE RowExact(w, id, p)
  <2>1. RowExact(v, id, p)
    BY <1>1 DEF Fit
  <2>2. /\ p \in DOMAIN rows <=> row_key(id, p) \in DOMAIN v
        /\ p \in DOMAIN rows => rows[p] = LogicalIn(v, t, v[row_key(id, p)])
    BY <1>1, <1>2, FetchedAll
  <2>3. Agree(v, w, row_key(id, p))
    BY <1>13, <1>15, KeyShapes, RecordShapes DEF Besides
  <2>4. row_key(id, p) \in DOMAIN w => HasRow(w, t, id, p)
    <3>1. row_key(id, p) \in DOMAIN v => HasRow(v, t, id, p)
      BY <1>9, <1>14, <2>1, EntriesOfTable
    <3> QED BY <1>10, <1>12, <1>14, <1>16, <2>3, <3>1 DEF HasRow, Agree
  <2>5. ASSUME NEW i, NEW val PROVE index_entry_key(id, i, val, p) \in DOMAIN w <=> \E n : HasEntry(w, n, id, i, val, p)
    <3>1. index_entry_key(id, i, val, p) \in DOMAIN v <=> HasEntry(v, t, id, i, val, p)
      BY <1>9, <1>14, <2>1, EntriesOfTable
    <3>2. index_entry_key(id, i, val, p) \in es <=>
             row_key(id, p) \in DOMAIN v /\ i = q.i /\ val = ValueIn(v, t, v[row_key(id, p)], q.col)
      BY <1>10, <1>14, <1>15, <1>18, <2>2 DEF ValueIn, index_value
    <3>3. index_entry_key(id, i, val, p) \in DOMAIN w <=> index_entry_key(id, i, val, p) \in DOMAIN v \cup es
      BY <1>11, <1>12, <1>13, KeyShapes, RecordShapes DEF Besides, Agree
    <3>4. HasEntry(w, t, id, i, val, p) <=>
             HasEntry(v, t, id, i, val, p) \/ (row_key(id, p) \in DOMAIN v /\ i = q.i /\ val = ValueIn(v, t, v[row_key(id, p)], q.col))
      BY <1>10, <1>12, <1>14, <1>16, <1>17, <1>18, <2>3 DEF HasEntry, Agree
    <3>5. ASSUME NEW n, HasEntry(w, n, id, i, val, p) PROVE n = t
      <4>1. HasId(w, n, id)
        BY <3>5 DEF HasEntry
      <4>2. tableid_key(n) \notin es \cup {schema_key(t)}
        BY <1>15, KeyShapes, RecordShapes
      <4>3. HasId(v, n, id)
        BY <1>13, <4>1, <4>2 DEF HasId, Besides, Agree
      <4> QED BY <1>9, <1>14, <4>3 DEF IdsFit
    <3> QED BY <3>1, <3>2, <3>3, <3>4, <3>5
  <2> QED BY <2>4, <2>5 DEF RowExact
<1>20. ASSUME NEW j, NEW p, j # id PROVE SameRow(v, w, j, p)
  <2>1. row_key(j, p) \notin es \cup {schema_key(t)}
    BY <1>15, <1>20, KeyShapes, RecordShapes
  <2>2. ASSUME NEW i, NEW val PROVE index_entry_key(j, i, val, p) \notin es \cup {schema_key(t)}
    BY <1>15, <1>20, KeyShapes, RecordShapes
  <2> QED BY <1>13, <2>1, <2>2 DEF Besides, SameRow, Agree
<1>21. ASSUME NEW u PROVE SameTable(v, w, u) \/ (TableFit(w, u) /\ \A j : HasId(v, u, j) \/ HasId(w, u, j) => j = id)
  <2>1. CASE u = t
    <3>1. TableFit(v, t)
      BY <1>1 DEF Fit
    <3>2. ColumnsFit(s1)
      <4>1. d0.name = q.i /\ \A d \in s.indexes : d.name # q.i
        BY <1>3, <1>8
      <4>2. ColumnsFit(s)
        BY <1>14, <3>1 DEF TableFit
      <4>3. \A d, e \in s1.indexes : d.name = e.name => d = e
        BY <1>10, <4>1, <4>2 DEF ColumnsFit
      <4>4. \A d \in s1.indexes : d.col \in Range(s1.cols)
        BY <1>3, <1>8, <1>10, <4>2 DEF ColumnsFit
      <4> QED BY <1>10, <4>2, <4>3, <4>4 DEF ColumnsFit
    <3>3. TableFit(w, t)
      BY <1>10, <1>12, <1>14, <1>16, <3>1, <3>2 DEF TableFit, Agree
    <3> QED BY <1>14, <1>16, <2>1, <3>3 DEF HasId
  <2>2. CASE u # t
    <3>1. \A k \in es \cup {schema_key(t)} : k[1] \notin {"schema", "tableid", "colcat"} \/ k \in {schema_key(t), tableid_key(t), colcat_key(t)}
      BY <1>15, KeyShapes, RecordShapes
    <3> QED BY <1>13, <2>2, <3>1, TablesBeside
  <2> QED BY <2>1, <2>2
<1> QED BY <1>1, <1>19, <1>20, <1>21, TableChanged

LEMMA DropIndexesExact ==
    ASSUME NEW x, TxnOK(x), Numbered(x), Fit(scan_range(x)), NEW t, Known(x, t), NEW names,
           NEW z, z = drop_indexes(x, t, names), NEW w, w = scan_range(z), NEW s, s = read_schema(x, t)
    PROVE  /\ Fit(w) /\ schema_key(t) \in DOMAIN w
           /\ w[schema_key(t)].cols = s.cols /\ w[schema_key(t)].indexes = {d \in s.indexes : d.name \notin names}
<1>1. PICK v, id : v = scan_range(x) /\ id = table_id(x, t)
  OBVIOUS
<1>2. PICK es : es = UNION {IndexEntries(v, id, i) : i \in names}
  OBVIOUS
<1>3. PICK s1 : s1 = [s EXCEPT !.indexes = {d \in @ : d.name \notin names}]
  OBVIOUS
<1>4. PICK y : y = delete_keys(x, es)
  OBVIOUS
<1>5. PICK y1 : y1 = write_key(y, schema_key(t), s1)
  OBVIOUS
<1>6. PICK unique : unique = read_unique_indexes(x, t)
  OBVIOUS
<1>7. z = IF names \cap unique # {} THEN write_key(y1, uniqueidx_key(t), unique \ names) ELSE y1
  BY <1>1, <1>2, <1>3, <1>4, <1>5, <1>6 DEF drop_indexes
<1>8. IsTxn(x) /\ IdsFit(v) /\ SchemaOK(s) /\ StoreOK(v)
  BY <1>1, NumberedIds, TableOK, MergedOK DEF TxnOK, IsTxn, scan_range
<1>9. s1.cols = s.cols /\ s1.indexes = {d \in s.indexes : d.name \notin names}
  BY <1>3, <1>8 DEF SchemaOK
<1>10. IsTxn(y) /\ (\A k \in es : k \notin DOMAIN scan_range(y)) /\ Besides(v, scan_range(y), es)
  BY <1>1, <1>4, <1>8, KeysGone
<1>11. IsTxn(y1) /\ schema_key(t) \in DOMAIN scan_range(y1) /\ scan_range(y1)[schema_key(t)] = s1
       /\ Besides(scan_range(y), scan_range(y1), {schema_key(t)})
  BY <1>5, <1>10, KeyWritten
<1>12. Besides(scan_range(y1), w, {uniqueidx_key(t)})
  <2>1. CASE names \cap unique # {}
    BY <1>7, <1>11, <2>1, KeyWritten
  <2>2. CASE names \cap unique = {}
    BY <1>7, <2>2 DEF Besides, Agree
  <2> QED BY <2>1, <2>2
<1>13. PICK ks : ks = (es \cup {schema_key(t)}) \cup {uniqueidx_key(t)}
  OBVIOUS
<1>14. Besides(v, w, ks)
  BY <1>10, <1>11, <1>12, <1>13, BesidesTwice
<1>15. \A k \in es : \E i, val, p : k = index_entry_key(id, i, val, p) /\ i \in names
  <2>1. ASSUME NEW k \in es PROVE \E i, val, p : k = index_entry_key(id, i, val, p) /\ i \in names
    <3>1. k \in DOMAIN v /\ k[1] = "index" /\ k[2] = id /\ k[3] \in names
      BY <1>2 DEF IndexEntries
    <3>2. k = index_entry_key(k[2], k[3], k[4], k[5])
      BY <1>8, <3>1 DEF StoreOK, RecordOK
    <3> QED BY <3>1, <3>2
  <2> QED BY <2>1
<1>16. ASSUME NEW i \in names, NEW val, NEW p, index_entry_key(id, i, val, p) \in DOMAIN v PROVE index_entry_key(id, i, val, p) \in es
  <2>1. index_entry_key(id, i, val, p)[1] = "index" /\ index_entry_key(id, i, val, p)[2] = id /\ index_entry_key(id, i, val, p)[3] = i
    BY DEF index_entry_key
  <2> QED BY <1>2, <1>16, <2>1 DEF IndexEntries
<1>17. schema_key(t) \in DOMAIN w /\ w[schema_key(t)] = s1
  BY <1>11, <1>12, RecordShapes DEF Besides, Agree
<1>18. HasId(v, t, id) /\ s = v[schema_key(t)] /\ schema_key(t) \in DOMAIN v
  BY <1>1, TableSeen
<1>19. HasId(w, t, id) /\ Agree(v, w, colcat_key(t))
  <2>1. tableid_key(t) \notin ks /\ colcat_key(t) \notin ks
    BY <1>13, <1>15, KeyShapes, RecordShapes
  <2> QED BY <1>14, <1>18, <2>1 DEF Besides, Agree, HasId
<1>20. ASSUME NEW row, NEW c PROVE ValueIn(w, t, row, c) = ValueIn(v, t, row, c)
  BY <1>9, <1>17, <1>18, <1>19 DEF ValueIn, LogicalIn, Agree
<1>21. ASSUME NEW p PROVE RowExact(w, id, p)
  <2>1. RowExact(v, id, p)
    BY <1>1 DEF Fit
  <2>2. Agree(v, w, row_key(id, p))
    BY <1>13, <1>14, <1>15, KeyShapes, RecordShapes DEF Besides
  <2>3. row_key(id, p) \in DOMAIN w => HasRow(w, t, id, p)
    <3>1. row_key(id, p) \in DOMAIN v => HasRow(v, t, id, p)
      BY <1>8, <1>18, <2>1, EntriesOfTable
    <3> QED BY <1>9, <1>17, <1>18, <1>19, <2>2, <3>1 DEF HasRow, Agree
  <2>4. ASSUME NEW i, NEW val PROVE index_entry_key(id, i, val, p) \in DOMAIN w <=> \E n : HasEntry(w, n, id, i, val, p)
    <3>1. index_entry_key(id, i, val, p) \in DOMAIN v <=> HasEntry(v, t, id, i, val, p)
      BY <1>8, <1>18, <2>1, EntriesOfTable
    <3>2. index_entry_key(id, i, val, p) \in es <=> index_entry_key(id, i, val, p) \in DOMAIN v /\ i \in names
      <4>1. index_entry_key(id, i, val, p) \in es => i \in names
        BY <1>15, KeyShapes
      <4>2. index_entry_key(id, i, val, p) \in es => index_entry_key(id, i, val, p) \in DOMAIN v
        BY <1>2 DEF IndexEntries
      <4> QED BY <1>16, <4>1, <4>2
    <3>3. index_entry_key(id, i, val, p) \in DOMAIN w <=> index_entry_key(id, i, val, p) \in DOMAIN v \ es
      <4>1. index_entry_key(id, i, val, p) \notin {schema_key(t), uniqueidx_key(t)}
        BY KeyShapes, RecordShapes
      <4> QED BY <1>10, <1>11, <1>12, <1>13, <1>14, <4>1 DEF Besides, Agree
    <3>4. HasEntry(w, t, id, i, val, p) <=> HasEntry(v, t, id, i, val, p) /\ i \notin names
      BY <1>9, <1>17, <1>18, <1>19, <1>20, <2>2 DEF HasEntry, Agree
    <3>5. ASSUME NEW n, HasEntry(w, n, id, i, val, p) PROVE n = t
      <4>1. HasId(w, n, id)
        BY <3>5 DEF HasEntry
      <4>2. tableid_key(n) \notin ks
        BY <1>13, <1>15, KeyShapes, RecordShapes
      <4>3. HasId(v, n, id)
        BY <1>14, <4>1, <4>2 DEF HasId, Besides, Agree
      <4> QED BY <1>8, <1>18, <4>3 DEF IdsFit
    <3> QED BY <3>1, <3>2, <3>3, <3>4, <3>5
  <2> QED BY <2>3, <2>4 DEF RowExact
<1>22. ASSUME NEW j, NEW p, j # id PROVE SameRow(v, w, j, p)
  <2>1. row_key(j, p) \notin ks
    BY <1>13, <1>15, <1>22, KeyShapes, RecordShapes
  <2>2. ASSUME NEW i, NEW val PROVE index_entry_key(j, i, val, p) \notin ks
    BY <1>13, <1>15, <1>22, KeyShapes, RecordShapes
  <2> QED BY <1>14, <2>1, <2>2 DEF Besides, SameRow, Agree
<1>23. ASSUME NEW u PROVE SameTable(v, w, u) \/ (TableFit(w, u) /\ \A j : HasId(v, u, j) \/ HasId(w, u, j) => j = id)
  <2>1. CASE u = t
    <3>1. TableFit(v, t)
      BY <1>1 DEF Fit
    <3>2. ColumnsFit(s1)
      BY <1>9, <1>18, <3>1 DEF TableFit, ColumnsFit
    <3>3. TableFit(w, t)
      BY <1>9, <1>17, <1>18, <1>19, <3>1, <3>2 DEF TableFit, Agree
    <3> QED BY <1>18, <1>19, <2>1, <3>3 DEF HasId
  <2>2. CASE u # t
    <3>1. \A k \in ks : k[1] \notin {"schema", "tableid", "colcat"} \/ k \in {schema_key(t), tableid_key(t), colcat_key(t)}
      BY <1>13, <1>15, KeyShapes, RecordShapes
    <3> QED BY <1>14, <2>2, <3>1, TablesBeside
  <2> QED BY <2>1, <2>2
<1>24. Fit(w)
  BY <1>1, <1>21, <1>22, <1>23, TableChanged
<1> QED BY <1>9, <1>17, <1>24

\* The catalog of a table, or the one its columns stand for.
LEMMA CatalogSeen ==
    ASSUME NEW x, TxnOK(x), NEW t, Exists(x, t), NEW v, v = scan_range(x), TableFit(v, t), NEW s, s = read_schema(x, t),
           NEW c, c = CatalogOf(x, t, s)
    PROVE  /\ ColumnsFit(s) /\ Len(s.cols) \in Nat /\ SlotsFit(c, Len(s.cols))
           /\ \A row : \A i \in 1..Len(s.cols) : colcat_key(t) \in DOMAIN v \/ DOMAIN row = 1..Len(s.cols) =>
                 LogicalIn(v, t, row)[i] = to_logical(c, row)[i]
<1>1. schema_key(t) \in DOMAIN v /\ s = v[schema_key(t)]
  BY ReadsScan DEF Exists, read_schema
<1>2. ColumnsFit(s) /\ Len(s.cols) \in Nat
  BY <1>1 DEF TableFit, ColumnsFit
<1>3. PICK n : n = Len(s.cols)
  OBVIOUS
<1>4. CASE colcat_key(t) \in DOMAIN v
  <2>1. c = v[colcat_key(t)]
    BY <1>4, ReadsScan DEF CatalogOf, read_or
  <2> QED BY <1>1, <1>2, <1>4, <2>1 DEF TableFit, LogicalIn
<1>5. CASE colcat_key(t) \notin DOMAIN v
  <2>1. c = [slots |-> [i \in 1..n |-> i], width |-> n, defaults |-> <<>>]
    BY <1>3, <1>5, ReadsScan DEF CatalogOf, read_or, identity
  <2>2. c.slots = [i \in 1..n |-> i] /\ c.width = n
    BY <2>1
  <2>3. c.slots \in Seq(1..n) /\ Len(c.slots) = n
    BY <1>2, <1>3, <2>2
  <2>4. SlotsFit(c, n)
    BY <1>2, <1>3, <2>2, <2>3 DEF SlotsFit
  <2>5. ASSUME NEW row, DOMAIN row = 1..n, NEW i \in 1..n PROVE row[i] = to_logical(c, row)[i]
    BY <2>2, <2>5 DEF to_logical
  <2> QED BY <1>2, <1>3, <1>5, <2>4, <2>5 DEF LogicalIn
<1> QED BY <1>4, <1>5

LEMMA PositionIs ==
    ASSUME NEW s, ColumnsFit(s), NEW i \in DOMAIN s.cols
    PROVE  Position(s.cols, s.cols[i]) = i
<1>1. \E j \in DOMAIN s.cols : s.cols[j] = s.cols[i]
  OBVIOUS
<1>2. Position(s.cols, s.cols[i]) \in DOMAIN s.cols /\ s.cols[Position(s.cols, s.cols[i])] = s.cols[i]
  BY <1>1 DEF Position
<1> QED BY <1>2 DEF ColumnsFit

\* A table whose columns change, and its catalog with them: a row keeps its
\* values of the indexed columns.
KeepsIndexed(s, c, s1, c1) ==
    /\ ColumnsFit(s1) /\ s1.indexes = s.indexes /\ SlotsFit(c1, Len(s1.cols))
    /\ \A row : \A d \in s.indexes : to_logical(c1, row)[Position(s1.cols, d.col)] = to_logical(c, row)[Position(s.cols, d.col)]

LEMMA ColumnsMoved ==
    ASSUME NEW x, TxnOK(x), Numbered(x), NEW v, v = scan_range(x), Fit(v), NEW t, Exists(x, t),
           NEW s, s = read_schema(x, t), NEW c, c = CatalogOf(x, t, s),
           NEW s1, NEW c1, KeepsIndexed(s, c, s1, c1), NEW z, z = write_key(insert_schema(x, t, s1), colcat_key(t), c1)
    PROVE  Fit(scan_range(z))
<1> USE DEF KeepsIndexed
<1>1. PICK w, id : w = scan_range(z) /\ id = table_id(x, t)
  OBVIOUS
<1>2. Known(x, t) /\ IsTxn(x) /\ IdsFit(v)
  BY NumberedIds DEF Known, Exists, Numbered, TxnOK, IsTxn
<1>3. HasId(v, t, id) /\ s = v[schema_key(t)] /\ schema_key(t) \in DOMAIN v
  BY <1>1, <1>2, TableSeen
<1>4. PICK y : y = write_key(x, schema_key(t), s1)
  OBVIOUS
<1>5. z = write_key(y, colcat_key(t), c1)
  BY <1>2, <1>4 DEF insert_schema, ensure_table_id, Known
<1>6. IsTxn(y) /\ schema_key(t) \in DOMAIN scan_range(y) /\ scan_range(y)[schema_key(t)] = s1 /\ Besides(v, scan_range(y), {schema_key(t)})
  BY <1>2, <1>4, KeyWritten
<1>7. colcat_key(t) \in DOMAIN w /\ w[colcat_key(t)] = c1 /\ Besides(scan_range(y), w, {colcat_key(t)})
  BY <1>1, <1>5, <1>6, KeyWritten
<1>8. schema_key(t) \in DOMAIN w /\ w[schema_key(t)] = s1
  BY <1>6, <1>7, RecordShapes DEF Besides, Agree
<1>9. Besides(v, w, {schema_key(t)} \cup {colcat_key(t)})
  BY <1>6, <1>7, BesidesTwice
<1>10. \A u : Agree(v, w, tableid_key(u))
  BY <1>9, RecordShapes DEF Besides
<1>11. HasId(w, t, id) /\ \A u, j : HasId(v, u, j) <=> HasId(w, u, j)
  BY <1>3, <1>10 DEF HasId, Agree
<1>12. IdsFit(w)
  <2>1. \A u : u # t => Agree(v, w, schema_key(u))
    BY <1>9, RecordShapes DEF Besides
  <2>2. Agree(v, w, tableid_seq_key)
    BY <1>9, RecordShapes DEF Besides
  <2>3. \A u : schema_key(u) \in DOMAIN w => tableid_key(u) \in DOMAIN w
    BY <1>2, <1>10, <1>11, <2>1 DEF IdsFit, Agree, HasId
  <2> QED BY <1>2, <1>11, <2>2, <2>3 DEF IdsFit, Agree
<1>13. TableFit(w, t)
  BY <1>7, <1>8 DEF TableFit
<1>14. ASSUME NEW u PROVE SameTable(v, w, u) \/ (TableFit(w, u) /\ \A j : HasId(v, u, j) \/ HasId(w, u, j) => j = id)
  <2>1. CASE u = t
    BY <1>3, <1>11, <1>13, <2>1 DEF HasId
  <2>2. CASE u # t
    BY <1>9, <2>2, RecordShapes, TablesBeside
  <2> QED BY <2>1, <2>2
<1>15. \A j, p : SameRow(v, w, j, p)
  BY <1>9, RecordShapes, RowsBeside
<1>16. TableFit(v, t)
  BY DEF Fit
<1>17. /\ ColumnsFit(s) /\ Len(s.cols) \in Nat /\ SlotsFit(c, Len(s.cols))
       /\ \A row : \A i \in 1..Len(s.cols) : colcat_key(t) \in DOMAIN v \/ DOMAIN row = 1..Len(s.cols) =>
             LogicalIn(v, t, row)[i] = to_logical(c, row)[i]
  BY <1>16, CatalogSeen
<1>18. ASSUME NEW p, row_key(id, p) \in DOMAIN v, HasRow(v, t, id, p)
       PROVE  /\ HasRow(w, t, id, p)
              /\ \A d \in v[schema_key(t)].indexes :
                    ValueIn(w, t, v[row_key(id, p)], d.col) = ValueIn(v, t, v[row_key(id, p)], d.col)
  <2>1. PICK row : row = v[row_key(id, p)]
    OBVIOUS
  <2>2. colcat_key(t) \in DOMAIN v \/ DOMAIN row = 1..Len(s.cols)
    BY <1>3, <1>18, <2>1 DEF HasRow
  <2>3. ASSUME NEW d \in s.indexes PROVE ValueIn(w, t, row, d.col) = ValueIn(v, t, row, d.col)
    <3>1. Position(s.cols, d.col) \in 1..Len(s.cols)
      BY <1>17, PositionFits DEF ColumnsFit
    <3>2. ValueIn(v, t, row, d.col) = to_logical(c, row)[Position(s.cols, d.col)]
      BY <1>3, <1>17, <2>2, <3>1 DEF ValueIn
    <3>3. ValueIn(w, t, row, d.col) = to_logical(c1, row)[Position(s1.cols, d.col)]
      BY <1>7, <1>8 DEF ValueIn, LogicalIn
    <3> QED BY <3>2, <3>3
  <2>4. HasRow(w, t, id, p)
    BY <1>7, <1>8, <1>11 DEF HasRow
  <2> QED BY <1>3, <2>1, <2>3, <2>4
<1>19. w[schema_key(t)].indexes = v[schema_key(t)].indexes
  BY <1>3, <1>8
<1> QED BY <1>1, <1>2, <1>3, <1>8, <1>11, <1>12, <1>14, <1>15, <1>18, <1>19, TableMoved

LEMMA AddColumnExact ==
    ASSUME NEW x, TxnOK(x), Numbered(x), Fit(scan_range(x)), NEW q, NEW z, z = add_column(x, q), z # Fail(x)
    PROVE  Fit(scan_range(z))
<1>1. PICK v, t : v = scan_range(x) /\ t = q.t
  OBVIOUS
<1>2. PICK s : s = read_schema(x, t)
  OBVIOUS
<1>3. PICK c : c = CatalogOf(x, t, s)
  OBVIOUS
<1>4. PICK s1 : s1 = [s EXCEPT !.cols = Append(@, q.col)]
  OBVIOUS
<1>5. PICK c1 : c1 = catalog_add_column(c, fill_value(q))
  OBVIOUS
<1>6. Exists(x, t) /\ q.col \notin Range(s.cols) /\ z = write_key(insert_schema(x, t, s1), colcat_key(t), c1)
  BY <1>1, <1>2, <1>3, <1>4, <1>5 DEF add_column
<1>7. SchemaOK(s) /\ TableFit(v, t)
  BY <1>1, <1>2, <1>6, SchemaRead DEF Fit
<1>8. s1.indexes = s.indexes /\ s1.cols = Append(s.cols, q.col)
  BY <1>4, <1>7 DEF SchemaOK
<1>9. ColumnsFit(s) /\ Len(s.cols) \in Nat /\ SlotsFit(c, Len(s.cols))
  BY <1>1, <1>2, <1>3, <1>6, <1>7, CatalogSeen
<1>10. PICK n : n = Len(s.cols)
  OBVIOUS
<1>11. /\ DOMAIN s.cols = 1..n /\ n \in Nat /\ DOMAIN s1.cols = 1..(n + 1) /\ Len(s1.cols) = n + 1
       /\ s1.cols[n + 1] = q.col /\ \A i \in 1..n : s1.cols[i] = s.cols[i]
  BY <1>8, <1>9, <1>10 DEF ColumnsFit
<1>12. ColumnsFit(s1)
  <2>1. s1.cols \in Seq(Range(s1.cols))
    <3>1. s1.cols \in Seq(Range(s.cols) \cup {q.col})
      BY <1>8, <1>9 DEF ColumnsFit
    <3>2. \A i \in 1..(n + 1) : s1.cols[i] \in Range(s1.cols)
      BY <1>11 DEF Range
    <3> QED BY <1>11, <3>1, <3>2
  <2>2. ASSUME NEW i \in DOMAIN s1.cols, NEW j \in DOMAIN s1.cols, s1.cols[i] = s1.cols[j] PROVE i = j
    <3>1. \A k \in 1..n : s.cols[k] # q.col
      BY <1>6, <1>11 DEF Range
    <3>2. i \in 1..n \/ i = n + 1
      BY <1>11
    <3>3. j \in 1..n \/ j = n + 1
      BY <1>11
    <3> QED BY <1>9, <1>11, <2>2, <3>1, <3>2, <3>3 DEF ColumnsFit
  <2>3. Range(s.cols) \subseteq Range(s1.cols)
    BY <1>11 DEF Range
  <2> QED BY <1>8, <1>9, <2>1, <2>2, <2>3 DEF ColumnsFit
<1>13. /\ c1.slots = Append(c.slots, c.width + 1) /\ c1.width = c.width + 1
       /\ c1.defaults = IF fill_value(q) = Null THEN c.defaults ELSE Over(Single(c.width + 1, fill_value(q)), c.defaults)
  BY <1>5 DEF catalog_add_column
<1>14. c.width \in Nat /\ c.slots \in Seq(1..c.width) /\ Len(c.slots) = n /\ DOMAIN c.slots = 1..n
  BY <1>9, <1>10 DEF SlotsFit
<1>15. /\ DOMAIN c1.slots = 1..(n + 1) /\ Len(c1.slots) = n + 1 /\ c1.slots[n + 1] = c.width + 1
       /\ \A i \in 1..n : c1.slots[i] = c.slots[i] /\ c.slots[i] \in 1..c.width
  BY <1>11, <1>13, <1>14
<1>16. SlotsFit(c1, Len(s1.cols))
  <2>1. c1.slots \in Seq(1..c1.width)
    <3>1. c.slots \in Seq(1..(c.width + 1)) /\ c.width + 1 \in 1..(c.width + 1)
      BY <1>14
    <3> QED BY <1>13, <3>1
  <2>2. ASSUME NEW i \in DOMAIN c1.slots, NEW j \in DOMAIN c1.slots, c1.slots[i] = c1.slots[j] PROVE i = j
    <3>1. i \in 1..n \/ i = n + 1
      BY <1>11, <1>15
    <3>2. j \in 1..n \/ j = n + 1
      BY <1>11, <1>15
    <3>3. \A k \in 1..n : c1.slots[k] # c.width + 1
      BY <1>14, <1>15
    <3> QED BY <1>9, <1>14, <1>15, <2>2, <3>1, <3>2, <3>3 DEF SlotsFit
  <2> QED BY <1>11, <1>13, <1>14, <1>15, <2>1, <2>2 DEF SlotsFit
<1>17. ASSUME NEW row, NEW d \in s.indexes
       PROVE  to_logical(c1, row)[Position(s1.cols, d.col)] = to_logical(c, row)[Position(s.cols, d.col)]
  <2>1. PICK i : i = Position(s.cols, d.col)
    OBVIOUS
  <2>2. i \in 1..n /\ s.cols[i] = d.col
    BY <1>9, <1>10, <2>1, PositionFits DEF ColumnsFit
  <2>3. Position(s1.cols, d.col) = i
    BY <1>11, <1>12, <2>2, PositionIs
  <2>4. PICK e : e = c.slots[i]
    OBVIOUS
  <2>5. i \in DOMAIN c.slots /\ i \in DOMAIN c1.slots /\ c1.slots[i] = e /\ e \in 1..c.width
    BY <1>11, <1>14, <1>15, <2>2, <2>4
  <2>6. (e \in DOMAIN c1.defaults <=> e \in DOMAIN c.defaults) /\ (e \in DOMAIN c.defaults => c1.defaults[e] = c.defaults[e])
    <3>1. e # c.width + 1
      BY <1>14, <2>5
    <3> QED BY <1>13, <3>1 DEF Over, Single
  <2>7. to_logical(c, row)[i] = IF e \in DOMAIN row THEN row[e] ELSE IF e \in DOMAIN c.defaults THEN c.defaults[e] ELSE Null
    BY <2>4, <2>5 DEF to_logical
  <2>8. to_logical(c1, row)[i] = IF e \in DOMAIN row THEN row[e] ELSE IF e \in DOMAIN c1.defaults THEN c1.defaults[e] ELSE Null
    BY <2>5 DEF to_logical
  <2> QED BY <2>1, <2>3, <2>6, <2>7, <2>8
<1>18. KeepsIndexed(s, c, s1, c1)
  BY <1>8, <1>12, <1>16, <1>17 DEF KeepsIndexed
<1>19. Fit(v)
  BY <1>1
<1> QED BY <1>1, <1>2, <1>3, <1>6, <1>18, <1>19, ColumnsMoved

\* A sequence without repetitions, and without one of its elements.
Without(S, s, i, r) ==
    /\ r \in Seq(S) /\ Len(r) = Len(s) - 1 /\ DOMAIN r = 1..(Len(s) - 1) /\ IsInjective(r)
    /\ \A k \in 1..Len(s) : /\ k < i => k \in DOMAIN r /\ r[k] = s[k]
                            /\ k > i => k - 1 \in DOMAIN r /\ r[k - 1] = s[k]

LEMMA RemovedAt ==
    ASSUME NEW S, NEW s, s \in Seq(S), NEW i, i \in 1..Len(s), IsInjective(s), NEW r, r = RemoveAt(s, i)
    PROVE  Without(S, s, i, r)
<1>1. PICK a, b : a = SubSeq(s, 1, i - 1) /\ b = SubSeq(s, i + 1, Len(s))
  OBVIOUS
<1>2. a \in Seq(S) /\ Len(a) = i - 1 /\ \A j \in 1..(i - 1) : a[j] = s[j]
  BY <1>1
<1>3. b \in Seq(S) /\ Len(b) = Len(s) - i /\ \A j \in 1..(Len(s) - i) : b[j] = s[i + j]
  BY <1>1
<1>4. r = a \o b
  BY <1>1 DEF RemoveAt
<1>5. r \in Seq(S) /\ Len(r) = Len(s) - 1 /\ DOMAIN r = 1..(Len(s) - 1) /\ DOMAIN s = 1..Len(s) /\ Len(s) \in Nat
  <2>1. r \in Seq(S) /\ Len(r) = Len(a) + Len(b)
    <3>1. a \in Seq(S) /\ b \in Seq(S)
      BY <1>2, <1>3
    <3>2. a \o b \in Seq(S) /\ Len(a \o b) = Len(a) + Len(b)
      BY <3>1, ConcatProperties
    <3> QED BY <1>4, <3>2
  <2>2. Len(s) \in Nat /\ DOMAIN s = 1..Len(s)
    OBVIOUS
  <2>3. Len(r) = Len(s) - 1
    BY <1>2, <1>3, <2>1, <2>2
  <2>4. DOMAIN r = 1..Len(r)
    BY <2>1
  <2> QED BY <2>1, <2>2, <2>3, <2>4
<1>6. ASSUME NEW j \in 1..(Len(s) - 1) PROVE r[j] = IF j < i THEN s[j] ELSE s[j + 1]
  <2>1. r[j] = IF j <= Len(a) THEN a[j] ELSE b[j - Len(a)]
    BY <1>2, <1>3, <1>4
  <2>2. CASE j < i
    BY <1>2, <2>1, <2>2
  <2>3. CASE ~(j < i)
    <3>1. j - Len(a) \in 1..(Len(s) - i) /\ ~(j <= Len(a))
      BY <1>2, <2>3
    <3>2. b[j - Len(a)] = s[i + (j - Len(a))] /\ i + (j - Len(a)) = j + 1
      BY <1>2, <1>3, <3>1
    <3> QED BY <2>1, <2>3, <3>1, <3>2
  <2> QED BY <2>2, <2>3
<1>7. ASSUME NEW j \in DOMAIN r, NEW k \in DOMAIN r, r[j] = r[k] PROVE j = k
  <2>1. PICK e, f : e = (IF j < i THEN j ELSE j + 1) /\ f = (IF k < i THEN k ELSE k + 1)
    OBVIOUS
  <2>2. e \in DOMAIN s /\ f \in DOMAIN s /\ s[e] = s[f]
    BY <1>5, <1>6, <1>7, <2>1
  <2>3. e = f
    BY <2>2 DEF IsInjective
  <2> QED BY <1>5, <2>1, <2>3
<1>8. ASSUME NEW k \in 1..Len(s), k < i PROVE k \in DOMAIN r /\ r[k] = s[k]
  BY <1>5, <1>6, <1>8
<1>9. ASSUME NEW k \in 1..Len(s), k > i PROVE k - 1 \in DOMAIN r /\ r[k - 1] = s[k]
  <2>1. k - 1 \in 1..(Len(s) - 1) /\ ~(k - 1 < i) /\ (k - 1) + 1 = k
    BY <1>5, <1>9
  <2>2. r[k - 1] = s[(k - 1) + 1]
    BY <1>6, <2>1
  <2> QED BY <1>5, <2>1, <2>2
<1> QED BY <1>5, <1>7, <1>8, <1>9 DEF Without, IsInjective

LEMMA DropColumnExact ==
    ASSUME NEW x, TxnOK(x), Numbered(x), Fit(scan_range(x)), NEW q, NEW z, z = drop_column(x, q), z # Fail(x)
    PROVE  Fit(scan_range(z))
<1>1. PICK t, s0 : t = q.t /\ s0 = read_schema(x, t)
  OBVIOUS
<1>2. PICK names : names = {d.name : d \in {e \in s0.indexes : e.col = q.col}}
  OBVIOUS
<1>3. PICK y : y = IF names = {} THEN x ELSE drop_indexes(x, t, names)
  OBVIOUS
<1>4. PICK s : s = read_schema(y, t)
  OBVIOUS
<1>5. PICK i : i = Position(s.cols, q.col)
  OBVIOUS
<1>6. PICK c : c = CatalogOf(y, t, s)
  OBVIOUS
<1>7. PICK s1 : s1 = [s EXCEPT !.cols = RemoveAt(@, i)]
  OBVIOUS
<1>8. PICK c1 : c1 = catalog_drop_column(c, i)
  OBVIOUS
<1>9. /\ Exists(x, t) /\ q.col \in Range(s0.cols) /\ (names # {} => Known(x, t))
      /\ z = write_key(insert_schema(y, t, s1), colcat_key(t), c1)
  BY <1>1, <1>2, <1>3, <1>4, <1>5, <1>6, <1>7, <1>8 DEF drop_column
<1>10. PICK v : v = scan_range(y)
  OBVIOUS
<1>11. TxnOK(y) /\ Numbered(y) /\ Fit(v) /\ Exists(y, t) /\ s.cols = s0.cols /\ \A d \in s.indexes : d.col # q.col
  <2>1. CASE names = {}
    BY <1>1, <1>2, <1>3, <1>4, <1>9, <1>10, <2>1
  <2>2. CASE names # {}
    <3>1. y = drop_indexes(x, t, names) /\ Known(x, t)
      BY <1>3, <1>9, <2>2
    <3>2. TxnOK(y) /\ Exists(y, t)
      BY <1>9, <3>1, IndexesDropped
    <3>3. Numbered(y)
      BY <3>1, TidyIndexesDropped DEF Tidy
    <3>4. /\ Fit(v) /\ schema_key(t) \in DOMAIN v
          /\ v[schema_key(t)].cols = s0.cols /\ v[schema_key(t)].indexes = {d \in s0.indexes : d.name \notin names}
      BY <1>1, <1>10, <3>1, DropIndexesExact
    <3>5. v[schema_key(t)] = s
      BY <1>4, <1>10, <3>4, ReadsScan DEF read_schema
    <3> QED BY <1>2, <3>2, <3>3, <3>4, <3>5
  <2> QED BY <2>1, <2>2
<1>12. SchemaOK(s) /\ TableFit(v, t)
  BY <1>4, <1>11, SchemaRead DEF Fit
<1>13. s1.indexes = s.indexes /\ s1.cols = RemoveAt(s.cols, i)
  BY <1>7, <1>12 DEF SchemaOK
<1>14. ColumnsFit(s) /\ Len(s.cols) \in Nat /\ SlotsFit(c, Len(s.cols))
  BY <1>4, <1>6, <1>10, <1>11, <1>12, CatalogSeen
<1>15. CatalogOK(c)
  BY <1>6, <1>11, CatalogRead
<1>16. c1.slots = RemoveAt(c.slots, i) /\ c1.width = c.width /\ c1.defaults = c.defaults
  BY <1>8, <1>15 DEF catalog_drop_column, CatalogOK
<1>17. PICK n : n = Len(s.cols)
  OBVIOUS
<1>18. i \in 1..n /\ s.cols[i] = q.col /\ n \in Nat
  BY <1>5, <1>9, <1>11, <1>14, <1>17, PositionFits
<1>19. s.cols \in Seq(Range(s.cols)) /\ IsInjective(s.cols)
  BY <1>14 DEF ColumnsFit, IsInjective
<1>20. c.slots \in Seq(1..c.width) /\ Len(c.slots) = n /\ DOMAIN c.slots = 1..n /\ IsInjective(c.slots)
  BY <1>14, <1>17 DEF SlotsFit, IsInjective
<1>21. Without(Range(s.cols), s.cols, i, s1.cols)
  BY <1>13, <1>17, <1>18, <1>19, RemovedAt
<1>22. Without(1..c.width, c.slots, i, c1.slots)
  BY <1>16, <1>18, <1>20, RemovedAt
<1>23. ASSUME NEW k \in 1..n, k # i
       PROVE  \E j : j \in DOMAIN s1.cols /\ s1.cols[j] = s.cols[k] /\ j \in DOMAIN c1.slots /\ c1.slots[j] = c.slots[k]
  <2>1. CASE k < i
    BY <1>17, <1>20, <1>21, <1>22, <2>1 DEF Without
  <2>2. CASE k > i
    BY <1>17, <1>20, <1>21, <1>22, <2>2 DEF Without
  <2> QED BY <1>18, <1>23, <2>1, <2>2
<1>24. ASSUME NEW d \in s.indexes
       PROVE  \E j, k : /\ k = Position(s.cols, d.col) /\ k \in 1..n /\ j \in DOMAIN s1.cols /\ s1.cols[j] = d.col
                        /\ j \in DOMAIN c1.slots /\ c1.slots[j] = c.slots[k]
  <2>1. PICK k : k = Position(s.cols, d.col)
    OBVIOUS
  <2>2. k \in 1..n /\ s.cols[k] = d.col
    BY <1>14, <1>17, <2>1, PositionFits DEF ColumnsFit
  <2>3. k # i
    BY <1>11, <1>18, <2>2
  <2> QED BY <1>23, <2>1, <2>2, <2>3
<1>25. ColumnsFit(s1)
  <2>1. ASSUME NEW j \in DOMAIN s1.cols PROVE s1.cols[j] \in Range(s1.cols)
    BY DEF Range
  <2>2. s1.cols \in Seq(Range(s1.cols))
    BY <1>21, <2>1 DEF Without
  <2>3. \A d \in s1.indexes : d.col \in Range(s1.cols)
    BY <1>13, <1>24 DEF Range
  <2>4. \A d, e \in s1.indexes : d.name = e.name => d = e
    BY <1>13, <1>14 DEF ColumnsFit
  <2> QED BY <1>21, <2>2, <2>3, <2>4 DEF ColumnsFit, Without, IsInjective
<1>26. SlotsFit(c1, Len(s1.cols))
  BY <1>14, <1>16, <1>17, <1>20, <1>21, <1>22 DEF SlotsFit, Without, IsInjective
<1>27. ASSUME NEW row, NEW d \in s.indexes
       PROVE  to_logical(c1, row)[Position(s1.cols, d.col)] = to_logical(c, row)[Position(s.cols, d.col)]
  <2>1. PICK j, k : /\ k = Position(s.cols, d.col) /\ k \in 1..n /\ j \in DOMAIN s1.cols /\ s1.cols[j] = d.col
                    /\ j \in DOMAIN c1.slots /\ c1.slots[j] = c.slots[k]
    BY <1>24
  <2>2. Position(s1.cols, d.col) = j
    BY <1>25, <2>1, PositionIs
  <2>3. PICK e : e = c.slots[k]
    OBVIOUS
  <2>4. to_logical(c, row)[k] = IF e \in DOMAIN row THEN row[e] ELSE IF e \in DOMAIN c.defaults THEN c.defaults[e] ELSE Null
    BY <1>20, <2>1, <2>3 DEF to_logical
  <2>5. to_logical(c1, row)[j] = IF e \in DOMAIN row THEN row[e] ELSE IF e \in DOMAIN c1.defaults THEN c1.defaults[e] ELSE Null
    BY <2>1, <2>3 DEF to_logical
  <2> QED BY <1>16, <2>1, <2>2, <2>4, <2>5
<1>28. KeepsIndexed(s, c, s1, c1)
  BY <1>13, <1>25, <1>26, <1>27 DEF KeepsIndexed
<1> QED BY <1>4, <1>6, <1>9, <1>10, <1>11, <1>28, ColumnsMoved

\* Renaming a column is no concern of the indexes on other columns.
LEMMA RenameColumnExact ==
    ASSUME NEW x, TxnOK(x), Numbered(x), Fit(scan_range(x)), NEW q, NEW z, z = rename_column(x, q), z # Fail(x),
           \A d \in read_schema(x, q.t).indexes : d.col # q.col
    PROVE  Fit(scan_range(z))
<1>1. PICK v, w, t : v = scan_range(x) /\ w = scan_range(z) /\ t = q.t
  OBVIOUS
<1>2. PICK s, id : s = read_schema(x, t) /\ id = table_id(x, t)
  OBVIOUS
<1>3. PICK e : e = Position(s.cols, q.col)
  OBVIOUS
<1>4. PICK s1 : s1 = [s EXCEPT !.cols = [s.cols EXCEPT ![e] = q.to]]
  OBVIOUS
<1>5. Exists(x, t) /\ q.to \notin Range(s.cols) /\ q.col \in Range(s.cols) /\ z = insert_schema(x, t, s1)
  BY <1>1, <1>2, <1>3, <1>4 DEF rename_column
<1>6. Known(x, t) /\ IsTxn(x) /\ IdsFit(v) /\ SchemaOK(s) /\ TableFit(v, t)
  BY <1>1, <1>2, <1>5, NumberedIds, SchemaRead DEF Known, Exists, Numbered, TxnOK, IsTxn, Fit
<1>7. s1.indexes = s.indexes /\ s1.cols = [s.cols EXCEPT ![e] = q.to]
  BY <1>4, <1>6 DEF SchemaOK
<1>8. HasId(v, t, id) /\ s = v[schema_key(t)] /\ schema_key(t) \in DOMAIN v
  BY <1>1, <1>2, <1>6, TableSeen
<1>9. PICK n : n = Len(s.cols)
  OBVIOUS
<1>10. ColumnsFit(s) /\ n \in Nat /\ DOMAIN s.cols = 1..n /\ e \in 1..n /\ s.cols[e] = q.col
  BY <1>3, <1>5, <1>6, <1>8, <1>9, PositionFits DEF TableFit, ColumnsFit
<1>11. /\ DOMAIN s1.cols = 1..n /\ s1.cols[e] = q.to /\ \A i \in 1..n : i # e => s1.cols[i] = s.cols[i]
       /\ \A i \in 1..n : s.cols[i] # q.to
  BY <1>5, <1>7, <1>10 DEF Range
<1>12. \A d \in s.indexes : Position(s.cols, d.col) \in 1..n /\ s.cols[Position(s.cols, d.col)] = d.col /\ Position(s.cols, d.col) # e
  <2>1. ASSUME NEW d \in s.indexes
        PROVE Position(s.cols, d.col) \in 1..n /\ s.cols[Position(s.cols, d.col)] = d.col /\ Position(s.cols, d.col) # e
    <3>1. d.col \in Range(s.cols) /\ d.col # q.col
      BY <1>1, <1>2, <1>10 DEF ColumnsFit
    <3> QED BY <1>9, <1>10, <3>1, PositionFits
  <2> QED BY <2>1
<1>13. ColumnsFit(s1) /\ Len(s1.cols) = n
  <2>1. s1.cols \in Seq(Range(s.cols) \cup {q.to}) /\ Len(s1.cols) = n
    <3>1. s.cols \in Seq(Range(s.cols))
      BY <1>10 DEF ColumnsFit
    <3> QED BY <1>7, <1>9, <1>10, <3>1
  <2>2. \A i \in 1..n : s1.cols[i] \in Range(s1.cols)
    BY <1>11 DEF Range
  <2>3. s1.cols \in Seq(Range(s1.cols))
    BY <1>11, <2>1, <2>2
  <2>4. \A i, j \in DOMAIN s1.cols : s1.cols[i] = s1.cols[j] => i = j
    BY <1>10, <1>11 DEF ColumnsFit
  <2>5. ASSUME NEW d \in s1.indexes PROVE d.col \in Range(s1.cols)
    <3>1. PICK p : p = Position(s.cols, d.col)
      OBVIOUS
    <3>2. p \in DOMAIN s1.cols /\ s1.cols[p] = d.col
      BY <1>7, <1>11, <1>12, <3>1
    <3> QED BY <3>2 DEF Range
  <2>6. \A d, g \in s1.indexes : d.name = g.name => d = g
    BY <1>7, <1>10 DEF ColumnsFit
  <2> QED BY <2>1, <2>3, <2>4, <2>5, <2>6 DEF ColumnsFit
<1>14. \A d \in s.indexes : Position(s1.cols, d.col) = Position(s.cols, d.col)
  BY <1>11, <1>12, <1>13, PositionIs
<1>15. z = write_key(x, schema_key(t), s1)
  BY <1>5, <1>6 DEF insert_schema, ensure_table_id, Known
<1>16. schema_key(t) \in DOMAIN w /\ w[schema_key(t)] = s1 /\ Besides(v, w, {schema_key(t)})
  BY <1>1, <1>6, <1>15, KeyWritten
<1>17. (\A u : Agree(v, w, tableid_key(u)) /\ Agree(v, w, colcat_key(u))) /\ Agree(v, w, tableid_seq_key)
  BY <1>16, RecordShapes DEF Besides
<1>18. HasId(w, t, id) /\ \A u, j : HasId(v, u, j) <=> HasId(w, u, j)
  BY <1>8, <1>17 DEF HasId, Agree
<1>19. IdsFit(w)
  <2>1. \A u : u # t => Agree(v, w, schema_key(u))
    BY <1>16, RecordShapes DEF Besides
  <2>2. \A u : schema_key(u) \in DOMAIN w => tableid_key(u) \in DOMAIN w
    BY <1>6, <1>17, <1>18, <2>1 DEF IdsFit, Agree, HasId
  <2> QED BY <1>6, <1>17, <1>18, <2>2 DEF IdsFit, Agree
<1>20. TableFit(w, t)
  BY <1>6, <1>8, <1>9, <1>13, <1>16, <1>17 DEF TableFit, Agree
<1>21. ASSUME NEW u PROVE SameTable(v, w, u) \/ (TableFit(w, u) /\ \A j : HasId(v, u, j) \/ HasId(w, u, j) => j = id)
  <2>1. CASE u = t
    BY <1>8, <1>18, <1>20, <2>1 DEF HasId
  <2>2. CASE u # t
    BY <1>16, <2>2, RecordShapes, TablesBeside
  <2> QED BY <2>1, <2>2
<1>22. \A j, p : SameRow(v, w, j, p)
  BY <1>16, RecordShapes, RowsBeside
<1>23. ASSUME NEW p, row_key(id, p) \in DOMAIN v, HasRow(v, t, id, p)
       PROVE  /\ HasRow(w, t, id, p)
              /\ \A d \in v[schema_key(t)].indexes :
                    ValueIn(w, t, v[row_key(id, p)], d.col) = ValueIn(v, t, v[row_key(id, p)], d.col)
  <2>1. SameRow(v, w, id, p)
    BY <1>22
  <2>2. HasRow(w, t, id, p)
    BY <1>8, <1>9, <1>13, <1>16, <1>17, <1>18, <1>23, <2>1 DEF HasRow, Agree, SameRow
  <2> QED BY <1>8, <1>14, <1>16, <1>17, <2>2 DEF ValueIn, LogicalIn, Agree
<1>24. w[schema_key(t)].indexes = v[schema_key(t)].indexes /\ Fit(v)
  BY <1>1, <1>7, <1>8, <1>16
<1> QED BY <1>1, <1>6, <1>8, <1>16, <1>18, <1>19, <1>21, <1>22, <1>23, <1>24, TableMoved

\* Renaming a table, to a name no table has.
LEMMA RenameTableExact ==
    ASSUME NEW x, TxnOK(x), Numbered(x), Fit(scan_range(x)), NEW t, NEW u, ~ Exists(x, u),
           NEW z, z = rename_schema(x, t, u), z # Fail(x)
    PROVE  Fit(scan_range(z))
<1>1. PICK v, w : v = scan_range(x) /\ w = scan_range(z)
  OBVIOUS
<1>2. PICK moved : moved = {key \in {"schema", "tableid", "colcat", "pkcat"} : read_key(x, <<key, t>>) # <<>>}
  OBVIOUS
<1>3. PICK f : f = [k \in {<<key, u>> : key \in moved} |-> read_key(x, <<k[1], t>>)]
  OBVIOUS
<1>4. PICK ks : ks = {<<key, t>> : key \in moved}
  OBVIOUS
<1>5. PICK y : y = write_all(x, f)
  OBVIOUS
<1>6. Known(x, t) /\ z = delete_keys(y, ks)
  BY <1>2, <1>3, <1>4, <1>5 DEF rename_schema
<1>7. IsTxn(x) /\ IdsFit(v) /\ u # t
  BY <1>1, <1>6, NumberedIds DEF TxnOK, IsTxn, Known
<1>8. /\ schema_key(u) \notin DOMAIN v /\ tableid_key(u) \notin DOMAIN v /\ colcat_key(u) \notin DOMAIN v
  <2>1. schema_key(u) \notin DOMAIN v
    BY <1>1, ReadsScan DEF Exists
  <2> QED BY <1>1, <2>1 DEF Fit, TableFit
<1>9. DOMAIN f = {<<key, u>> : key \in moved} /\ \A key \in moved : f[<<key, u>>] = read_key(x, <<key, t>>)
  <2>1. ASSUME NEW key \in moved PROVE f[<<key, u>>] = read_key(x, <<key, t>>)
    <3>1. <<key, u>>[1] = key /\ <<key, u>> \in {<<h, u>> : h \in moved}
      OBVIOUS
    <3> QED BY <1>3, <3>1
  <2> QED BY <1>3, <2>1
<1>10. IsTxn(y) /\ Becomes(v, f, scan_range(y))
  <2>1. IsTxn(y) /\ y.snap = x.snap /\ y.overlay = Over(f, x.overlay)
    BY <1>5, <1>7, WriteAll
  <2> QED BY <1>1, <2>1, ScanBecomes
<1>11. (\A k \in ks : k \notin DOMAIN w) /\ Besides(scan_range(y), w, ks)
  BY <1>1, <1>6, <1>10, KeysGone
<1>12. ASSUME NEW key \in {"schema", "tableid", "colcat"}, <<key, u>> \notin DOMAIN v
       PROVE  /\ <<key, t>> \notin DOMAIN w
              /\ <<key, u>> \in DOMAIN w <=> <<key, t>> \in DOMAIN v
              /\ <<key, t>> \in DOMAIN v => w[<<key, u>>] = v[<<key, t>>]
  <2>1. (key \in moved <=> <<key, t>> \in DOMAIN v) /\ (<<key, t>> \in DOMAIN v => v[<<key, t>>] = read_key(x, <<key, t>>)[1])
    BY <1>1, <1>2, ReadsScan
  <2>2. /\ <<key, t>> \in ks <=> key \in moved
        /\ <<key, u>> \notin ks /\ <<key, t>> \notin DOMAIN f
        /\ <<key, u>> \in DOMAIN f <=> key \in moved
    BY <1>4, <1>7, <1>9
  <2>3. key \in moved => f[<<key, u>>] = read_key(x, <<key, t>>) /\ f[<<key, u>>] # <<>>
    BY <1>2, <1>9
  <2>4. Agree(scan_range(y), w, <<key, u>>)
    BY <1>11, <2>2 DEF Besides
  <2>5. /\ <<key, u>> \in DOMAIN scan_range(y) <=> key \in moved
        /\ key \in moved => scan_range(y)[<<key, u>>] = v[<<key, t>>]
    BY <1>10, <1>12, <2>1, <2>2, <2>3 DEF Becomes
  <2>6. <<key, t>> \notin DOMAIN w
    BY <1>10, <1>11, <2>1, <2>2 DEF Becomes, Besides, Agree
  <2> QED BY <2>1, <2>4, <2>5, <2>6 DEF Agree
<1>13. Besides(v, w, DOMAIN f \cup ks)
  BY <1>10, <1>11 DEF Becomes, Besides, Agree
<1>14. /\ schema_key(t) \notin DOMAIN w /\ tableid_key(t) \notin DOMAIN w /\ colcat_key(t) \notin DOMAIN w
       /\ schema_key(u) \in DOMAIN w <=> schema_key(t) \in DOMAIN v
       /\ tableid_key(u) \in DOMAIN w <=> tableid_key(t) \in DOMAIN v
       /\ colcat_key(u) \in DOMAIN w <=> colcat_key(t) \in DOMAIN v
       /\ schema_key(t) \in DOMAIN v => w[schema_key(u)] = v[schema_key(t)]
       /\ tableid_key(t) \in DOMAIN v => w[tableid_key(u)] = v[tableid_key(t)]
       /\ colcat_key(t) \in DOMAIN v => w[colcat_key(u)] = v[colcat_key(t)]
  BY <1>8, <1>12 DEF schema_key, tableid_key, colcat_key
<1>15. PICK id : id = table_id(x, t)
  OBVIOUS
<1>16. HasId(v, t, id) /\ schema_key(t) \in DOMAIN v
  BY <1>1, <1>6, <1>15, TableSeen
<1>17. HasId(w, u, id) /\ schema_key(u) \in DOMAIN w /\ w[schema_key(u)] = v[schema_key(t)]
  BY <1>14, <1>16 DEF HasId
<1>18. \A k \in DOMAIN f \cup ks : k[1] \in {"schema", "tableid", "colcat", "pkcat"} /\ (k = <<k[1], t>> \/ k = <<k[1], u>>)
  <2>1. ASSUME NEW k \in DOMAIN f \cup ks PROVE k[1] \in {"schema", "tableid", "colcat", "pkcat"} /\ (k = <<k[1], t>> \/ k = <<k[1], u>>)
    <3>1. PICK key \in moved : k = <<key, t>> \/ k = <<key, u>>
      BY <1>4, <1>9
    <3> QED BY <1>2, <3>1
  <2> QED BY <2>1
<1>19. \A j, p : SameRow(v, w, j, p)
  BY <1>13, <1>18, RowsBeside
<1>20. ASSUME NEW m, m # t, m # u PROVE SameTable(v, w, m)
  <2>1. ASSUME NEW key PROVE <<key, m>> \notin DOMAIN f \cup ks
    BY <1>18, <1>20
  <2> QED BY <1>13, <2>1 DEF Besides, SameTable, schema_key, tableid_key, colcat_key
<1>21. TableFit(v, t)
  BY <1>1 DEF Fit
<1>22. TableFit(w, t) /\ TableFit(w, u)
  BY <1>14, <1>21 DEF TableFit
<1>23. ASSUME NEW m PROVE SameTable(v, w, m) \/ (TableFit(w, m) /\ \A j : HasId(v, m, j) \/ HasId(w, m, j) => j = id)
  <2>1. CASE m = t \/ m = u
    BY <1>8, <1>14, <1>16, <1>17, <1>22, <2>1 DEF HasId
  <2>2. CASE m # t /\ m # u
    BY <1>20, <2>2
  <2> QED BY <2>1, <2>2
<1>24. IdsFit(w)
  BY <1>1, <1>6, TidyTableRenamed, NumberedIds DEF Tidy
<1>25. ASSUME NEW p, row_key(id, p) \in DOMAIN v, HasRow(v, t, id, p)
       PROVE  /\ HasRow(w, u, id, p)
              /\ \A d \in v[schema_key(t)].indexes :
                    ValueIn(w, u, v[row_key(id, p)], d.col) = ValueIn(v, t, v[row_key(id, p)], d.col)
  <2>1. SameRow(v, w, id, p)
    BY <1>19
  <2>2. HasRow(w, u, id, p)
    BY <1>14, <1>17, <1>25, <2>1 DEF HasRow, Agree, SameRow
  <2> QED BY <1>14, <1>17, <2>2 DEF ValueIn, LogicalIn
<1>26. w[schema_key(u)].indexes = v[schema_key(t)].indexes /\ Fit(v)
  BY <1>1, <1>17
<1> QED BY <1>1, <1>7, <1>16, <1>17, <1>19, <1>23, <1>24, <1>25, <1>26, TableMoved

\* The two renamings that leave indexes behind: onto a table there is, and of
\* an indexed column.
Gentle(x, q) ==
    /\ q.op = "rename_table" /\ Exists(x, q.t) => ~ Exists(x, q.to)
    /\ q.op = "rename_column" /\ Exists(x, q.t) => \A d \in read_schema(x, q.t).indexes : d.col # q.col

\* A statement, whatever it is.
LEMMA ExecuteExact ==
    ASSUME NEW x, TxnOK(x), Numbered(x), Fit(scan_range(x)), NEW q, StatementOK(q), q.op # "append", Gentle(x, q),
           NEW z, z = Execute(x, q)
    PROVE  Fit(scan_range(z))
<1>1. CASE z = Fail(x)
  BY <1>1, WorkFails DEF RowWork
<1>2. CASE ~ IsDDL(q)
  BY <1>2, NumberedIds, DmlExact DEF RowWork
<1>3. CASE q.op = "view"
  BY <1>3 DEF Execute
<1>4. CASE z # Fail(x) /\ q.op = "create_table"
  <2>1. z = create_table(x, q)
    BY <1>4 DEF Execute
  <2> QED BY <1>4, <2>1, CreateExact
<1>5. CASE z # Fail(x) /\ q.op = "drop_table"
  <2>1. z = delete_schema(x, q.t)
    BY <1>5 DEF Execute
  <2> QED BY <1>5, <2>1, DropExact
<1>6. CASE z # Fail(x) /\ q.op = "create_index"
  <2>1. z = create_index(x, q)
    BY <1>6 DEF Execute
  <2> QED BY <1>6, <2>1, NewIndexExact
<1>7. CASE z # Fail(x) /\ q.op = "drop_index"
  <2>1. z = drop_index(x, q.t, q.i)
    BY <1>7 DEF Execute
  <2>2. Known(x, q.t) /\ z = drop_indexes(x, q.t, {q.i})
    BY <1>7, <2>1 DEF drop_index
  <2> QED BY <2>2, DropIndexesExact
<1>8. CASE z # Fail(x) /\ q.op = "add_column"
  <2>1. z = add_column(x, q)
    BY <1>8 DEF Execute
  <2> QED BY <1>8, <2>1, AddColumnExact
<1>9. CASE z # Fail(x) /\ q.op = "drop_column"
  <2>1. z = drop_column(x, q)
    BY <1>9 DEF Execute
  <2> QED BY <1>9, <2>1, DropColumnExact
<1>10. CASE z # Fail(x) /\ q.op = "rename_column"
  <2>1. z = rename_column(x, q)
    BY <1>10 DEF Execute
  <2>2. \A d \in read_schema(x, q.t).indexes : d.col # q.col
    BY <1>10, <2>1 DEF Gentle, rename_column
  <2> QED BY <1>10, <2>1, <2>2, RenameColumnExact
<1>11. CASE z # Fail(x) /\ q.op = "rename_table"
  <2>1. z = rename_schema(x, q.t, q.to)
    BY <1>11 DEF Execute
  <2>2. ~ Exists(x, q.to)
    BY <1>11, <2>1 DEF Gentle, rename_schema, Known
  <2> QED BY <1>11, <2>1, <2>2, RenameTableExact
<1>12. q.op \in {"create_table", "drop_table", "create_index", "drop_index", "add_column", "drop_column",
                 "rename_column", "rename_table", "view", "select", "insert", "update", "delete"}
  BY DEF StatementOK
<1> QED BY <1>1, <1>2, <1>3, <1>4, <1>5, <1>6, <1>7, <1>8, <1>9, <1>10, <1>11, <1>12 DEF IsDDL

-----------------------------------------------------------------------------
(* 14. The invariant of IndexExact, in any order of requests.  A transaction *)
(* keeps the indexes of what it sees exact; one that writes rows only keeps  *)
(* the tables and their columns, and the rows it writes are as its snapshot  *)
(* had them (section 10).                                                    *)

RowRequest(c) == ~ req[c].ddl => \A n \in DOMAIN req[c].stmts : ~ IsDDL(req[c].stmts[n])
IndexTxn(c) ==
    pc[c] \in TxnSteps =>
        /\ Numbered(txn[c]) /\ Fit(scan_range(txn[c])) /\ Fit(txn[c].snap)
        /\ ~ req[c].ddl => Guarded(txn[c]) /\ WithRows(txn[c].overlay)
IndexOwn(c) == RowRequest(c) /\ IndexTxn(c)
IndexInv ==
    /\ Numbered(View(db)) /\ Fit(db) /\ Numbered(View(durable)) /\ Fit(durable)
    /\ \A c \in Conn : IndexOwn(c)

\* What the statements do besides: no renaming leaves an index behind.
Gently == \A c \in Conn : pc[c] = "run" /\ req[c].stmts # <<>> => Gentle(txn[c], Head(req[c].stmts))

\* What a commit finds: the tables and columns its snapshot had and, when it
\* changes schemas, the rows and entries too.  Nothing in the code sees to
\* either: inserts take no lease, so they run beside CREATE INDEX and ALTER
\* TABLE, and a commit looks up nothing but keys and unique values.
Undisturbed ==
    \A c \in Conn : pc[c] = "write" =>
        \A k : \/ k[1] \in {"schema", "tableid", "tableid_seq", "colcat"}
               \/ req[c].ddl /\ k[1] \in {"row", "index"}
               => Agree(txn[c].snap, db, k)

\* A statement, whatever it is, numbers the tables.
LEMMA ExecuteNumbered ==
    ASSUME NEW x, TxnOK(x), Numbered(x), Fit(scan_range(x)), NEW q, StatementOK(q), q.op # "append",
           NEW z, z = Execute(x, q)
    PROVE  Numbered(z)
<1>1. CASE ~ IsDDL(q)
  <2>1. RowWork(x, z)
    BY <1>1, NumberedIds, DmlExact
  <2>2. ASSUME NEW k, k[1] \in {"schema", "tableid", "tableid_seq"}
        PROVE  /\ read_key(z, k) = <<>> <=> read_key(x, k) = <<>>
               /\ read_key(x, k) # <<>> => read_key(z, k)[1] = read_key(x, k)[1]
    <3>1. Agree(scan_range(x), scan_range(z), k)
      BY <2>1, <2>2 DEF RowWork, Aside
    <3> QED BY <3>1, ReadsScan DEF Agree
  <2> QED BY <2>2, NumberedSame
<1>2. CASE q.op = "create_index"
  BY <1>2, NewIndexNumbered DEF Execute
<1>3. CASE IsDDL(q) /\ q.op # "create_index"
  <2>1. IsTxn(x)
    BY DEF TxnOK, IsTxn
  <2>2. \/ q.op = "create_table" /\ z = create_table(x, q)
        \/ q.op = "drop_table" /\ z = delete_schema(x, q.t)
        \/ q.op = "drop_index" /\ z = drop_index(x, q.t, q.i)
        \/ q.op = "add_column" /\ z = add_column(x, q)
        \/ q.op = "drop_column" /\ z = drop_column(x, q)
        \/ q.op = "rename_column" /\ z = rename_column(x, q)
        \/ q.op = "rename_table" /\ z = rename_schema(x, q.t, q.to)
        \/ q.op = "view" /\ z = x
    BY <1>3 DEF Execute, StatementOK, IsDDL
  <2>3. Tidy(x, z)
    BY <2>1, <2>2, TidyColumns, TidyTableDropped, TidyTableRenamed, TidyFail
  <2> QED BY <2>3 DEF Tidy
<1> QED BY <1>1, <1>2, <1>3

\* Steps that change no store.
LEMMA IndexKept ==
    ASSUME IndexInv, NEW c \in Conn, UNCHANGED db, durable' \in {durable, db}, IndexOwn(c)',
           \A d \in Conn \ {c} : pc'[d] = pc[d] /\ req'[d] = req[d] /\ txn'[d] = txn[d]
    PROVE  IndexInv'
<1>1. ASSUME NEW d \in Conn, d # c PROVE IndexOwn(d)'
  <2>1. IndexOwn(d) /\ pc'[d] = pc[d] /\ req'[d] = req[d] /\ txn'[d] = txn[d]
    BY <1>1 DEF IndexInv
  <2> QED BY <2>1 DEF IndexOwn, RowRequest, IndexTxn
<1>2. Numbered(View(db')) /\ Fit(db') /\ Numbered(View(durable')) /\ Fit(durable')
  BY DEF IndexInv
<1> QED BY <1>1, <1>2 DEF IndexInv

LEMMA FinishIndex ==
    ASSUME SqlInv, IndexInv, NEW c \in Conn, Finish(c) \/ EndTxn(c), UNCHANGED <<db, durable>>
    PROVE  IndexInv'
<1>1. /\ \E p \in {"idle", "begin"} : pc' = [pc EXCEPT ![c] = p]
      /\ txn' = [txn EXCEPT ![c] = NoTxn] /\ (req' = req \/ req' = [req EXCEPT ![c] = NoRequest])
  BY DEF Finish, EndTxn, SetPc
<1>2. /\ pc'[c] \in {"idle", "begin"} /\ (req'[c] = req[c] \/ req'[c] = NoRequest)
      /\ \A d \in Conn \ {c} : pc'[d] = pc[d] /\ req'[d] = req[d] /\ txn'[d] = txn[d]
  BY <1>1 DEF SqlInv, LeaseInv, RequestInv
<1>3. RowRequest(c)'
  <2>1. CASE req'[c] = req[c]
    BY <2>1 DEF IndexInv, IndexOwn, RowRequest
  <2>2. CASE req'[c] = NoRequest
    BY <2>2 DEF RowRequest, NoRequest
  <2> QED BY <1>2, <2>1, <2>2
<1>4. IndexOwn(c)'
  BY <1>2, <1>3 DEF IndexOwn, IndexTxn, TxnSteps
<1> QED BY <1>2, <1>4, IndexKept

\* A request arrives.
LEMMA SubmitIndex ==
    ASSUME SqlInv, IndexInv, NEW c \in Conn, Submit(c)
    PROVE  IndexInv'
<1>1. PICK r \in Request : req' = [req EXCEPT ![c] = [mode |-> r.mode, stmts |-> r.stmts, ddl |-> ChangesSchema(r)]]
  BY DEF Submit
<1>2. pc' = [pc EXCEPT ![c] = "prepare"] /\ UNCHANGED <<db, durable, txn>>
  BY DEF Submit, SetPc
<1>3. PICK new : new = [mode |-> r.mode, stmts |-> r.stmts, ddl |-> ChangesSchema(r)]
  OBVIOUS
<1>4. new.stmts = r.stmts /\ new.ddl = ChangesSchema(r)
  BY <1>3
<1>5. /\ req'[c] = new /\ pc'[c] = "prepare"
      /\ \A d \in Conn \ {c} : pc'[d] = pc[d] /\ req'[d] = req[d] /\ txn'[d] = txn[d]
  BY <1>1, <1>2, <1>3 DEF SqlInv, RequestInv, LeaseInv
<1>6. IndexOwn(c)'
  BY <1>4, <1>5 DEF IndexOwn, RowRequest, IndexTxn, ChangesSchema, TxnSteps
<1> QED BY <1>2, <1>5, <1>6, IndexKept

\* Steps outside a transaction.
LEMMA PassIndex ==
    ASSUME SqlInv, IndexInv, NEW c \in Conn, Prepare(c) \/ RegisterFlush(c) \/ TakeLease(c) \/ Flush(c)
    PROVE  IndexInv'
<1>1. /\ \E p \in {"register", "begin", "snapshot", "report"} : pc' = [pc EXCEPT ![c] = p]
      /\ UNCHANGED <<db, txn, req>> /\ durable' \in {durable, db}
  BY DEF Prepare, RegisterFlush, TakeLease, Flush, SetPc
<1>2. /\ pc'[c] \notin TxnSteps
      /\ \A d \in Conn \ {c} : pc'[d] = pc[d] /\ req'[d] = req[d] /\ txn'[d] = txn[d]
  BY <1>1 DEF SqlInv, LeaseInv, TxnSteps
<1>3. IndexOwn(c)'
  BY <1>1, <1>2 DEF IndexInv, IndexOwn, RowRequest, IndexTxn
<1> QED BY <1>1, <1>2, <1>3, IndexKept

LEMMA LockIndex ==
    ASSUME SqlInv, IndexInv, NEW c \in Conn, acquire_unique_locks(c) \/ Check(c)
    PROVE  IndexInv'
<1>1. CASE Finish(c) /\ UNCHANGED <<db, durable>>
  BY <1>1, FinishIndex
<1>2. CASE /\ pc[c] = "commit" /\ (pc' = pc \/ pc' = [pc EXCEPT ![c] = "write"])
           /\ UNCHANGED <<db, durable, req, txn>>
  <2>1. pc'[c] \in {"commit", "write"} /\ \A d \in Conn \ {c} : pc'[d] = pc[d]
    BY <1>2 DEF SqlInv, LeaseInv
  <2>2. IndexOwn(c)'
    BY <1>2, <2>1 DEF IndexInv, IndexOwn, RowRequest, IndexTxn, TxnSteps
  <2> QED BY <1>2, <2>1, <2>2, IndexKept
<1> QED BY <1>1, <1>2 DEF acquire_unique_locks, Check, SetPc

LEMMA ScanOfNothing ==
    ASSUME NEW x, DOMAIN x.overlay = {}, NEW k
    PROVE  Agree(x.snap, scan_range(x), k)
BY DEF scan_range, merge_sorted, Agree

\* Two stores with the same tables, rows and entries.
LEMMA FitAgrees ==
    ASSUME NEW v, NEW w, Fit(v), \A k : k[1] \in {"schema", "tableid", "colcat", "row", "index"} => Agree(v, w, k)
    PROVE  Fit(w)
<1>1. \A t : SameTable(v, w, t)
  BY RecordShapes DEF SameTable
<1>2. \A id, pk : row_key(id, pk)[1] = "row" /\ \A i, val : index_entry_key(id, i, val, pk)[1] = "index"
  BY DEF row_key, index_entry_key
<1>3. \A id, pk : SameRow(v, w, id, pk)
  BY <1>2 DEF SameRow, Agree
<1> QED BY <1>1, <1>3, TableStays, RowStays DEF Fit

LEMMA BeginIndex ==
    ASSUME SqlInv, IndexInv, NEW c \in Conn, Begin(c)
    PROVE  IndexInv'
<1>1. pc' = [pc EXCEPT ![c] = "run"] /\ txn' = [txn EXCEPT ![c] = NewTxn(db, <<>>)] /\ UNCHANGED <<db, durable, req>>
  BY DEF Begin, SetPc
<1>2. PICK x : x = NewTxn(db, <<>>)
  OBVIOUS
<1>3. x.snap = db /\ x.overlay = <<>> /\ x = View(db)
  BY <1>2, NothingCovered DEF View
<1>4. DOMAIN x.overlay = {}
  BY <1>3
<1>5. /\ pc'[c] = "run" /\ txn'[c] = x
      /\ \A d \in Conn \ {c} : pc'[d] = pc[d] /\ txn'[d] = txn[d]
  BY <1>1, <1>2 DEF SqlInv, LeaseInv, RequestInv
<1>6. Fit(db) /\ Fit(scan_range(x)) /\ WithRows(x.overlay)
  BY <1>3, <1>4, ScanOfNothing, FitAgrees DEF IndexInv, WithRows
<1>7. Numbered(x) /\ Guarded(x)
  BY <1>3, <1>4, FreshGuarded DEF IndexInv
<1>8. IndexOwn(c)'
  BY <1>1, <1>3, <1>5, <1>6, <1>7 DEF IndexInv, IndexOwn, RowRequest, IndexTxn
<1> QED BY <1>1, <1>5, <1>8, IndexKept

\* One statement.
LEMMA ExecIndex ==
    ASSUME SqlInv, OwnInv, IndexInv, Gently, NEW c \in Conn, Exec(c)
    PROVE  IndexInv'
<1>1. PICK y : y = [txn[c] EXCEPT !.seq = seq]
  OBVIOUS
<1>2. PICK q : q = Head(req[c].stmts)
  OBVIOUS
<1>3. PICK x : x = Execute(y, q)
  OBVIOUS
<1>4. pc[c] = "run" /\ req[c].stmts # <<>> /\ UNCHANGED <<db, durable>>
  BY DEF Exec
<1>5. \/ Finish(c)
      \/ /\ txn' = [txn EXCEPT ![c] = [x EXCEPT !.seq = <<>>]]
         /\ req' = [req EXCEPT ![c] = [mode |-> req[c].mode, stmts |-> Tail(req[c].stmts), ddl |-> req[c].ddl]]
         /\ SetPc(c, IF req[c].mode = "block" /\ Len(req[c].stmts) > 1 THEN "run" ELSE "commit")
         /\ UNCHANGED <<lease, locks, reg>>
  BY <1>1, <1>2, <1>3, Zenon DEF Exec
<1>6. CASE Finish(c)
  BY <1>4, <1>6, FinishIndex
<1>7. CASE /\ txn' = [txn EXCEPT ![c] = [x EXCEPT !.seq = <<>>]]
           /\ req' = [req EXCEPT ![c] = [mode |-> req[c].mode, stmts |-> Tail(req[c].stmts), ddl |-> req[c].ddl]]
           /\ SetPc(c, IF req[c].mode = "block" /\ Len(req[c].stmts) > 1 THEN "run" ELSE "commit")
           /\ UNCHANGED <<lease, locks, reg>>
  <2>1. PICK p : p = IF req[c].mode = "block" /\ Len(req[c].stmts) > 1 THEN "run" ELSE "commit"
    OBVIOUS
  <2>2. p \in {"run", "commit"} /\ pc' = [pc EXCEPT ![c] = p]
    BY <1>7, <2>1 DEF SetPc
  <2>3. PICK z : z = [x EXCEPT !.seq = <<>>]
    OBVIOUS
  <2>4. PICK r : r = [mode |-> req[c].mode, stmts |-> Tail(req[c].stmts), ddl |-> req[c].ddl]
    OBVIOUS
  <2>5. r.ddl = req[c].ddl /\ r.stmts = Tail(req[c].stmts)
    BY <2>4
  <2>6. /\ pc'[c] = p /\ txn'[c] = z /\ req'[c] = r
        /\ \A d \in Conn \ {c} : pc'[d] = pc[d] /\ txn'[d] = txn[d] /\ req'[d] = req[d]
    BY <1>7, <2>2, <2>3, <2>4 DEF SqlInv, RequestInv, LeaseInv
  <2>7. TxnOK(txn[c]) /\ req[c].stmts \in Seq(Statements)
    BY DEF SqlInv, RequestInv
  <2>8. TxnOK(y) /\ y.snap = txn[c].snap /\ y.overlay = txn[c].overlay /\ y.uniqIdx = txn[c].uniqIdx
    BY <1>1, <2>7, CounterSet DEF TxnOK
  <2>9. q \in Statements /\ q = req[c].stmts[1] /\ 1 \in DOMAIN req[c].stmts
    BY <1>2, <1>4, <2>7
  <2>10. StatementOK(q) /\ TxnOK(x)
    BY <1>3, <2>8, <2>9, StatementsOK, Executed
  <2>11. z.snap = x.snap /\ z.overlay = x.overlay /\ z.uniqIdx = x.uniqIdx
    BY <2>3, <2>10 DEF TxnOK
  <2>12. Own(c) /\ IndexOwn(c)
    BY DEF OwnInv, IndexInv
  <2>13. q.op # "append" /\ (~ req[c].ddl => ~ IsDDL(q))
    BY <2>9, <2>12 DEF IndexOwn, RowRequest, Own, SentAs
  <2>14. Numbered(y)
    <3>1. Numbered(txn[c])
      BY <1>4, <2>12 DEF IndexOwn, IndexTxn, TxnSteps
    <3> QED BY <2>8, <3>1 DEF Numbered, table_id, read_key
  <2>15. Fit(scan_range(y)) /\ Fit(y.snap) /\ (~ req[c].ddl => Guarded(y) /\ WithRows(y.overlay))
    <3>1. Fit(scan_range(txn[c])) /\ Fit(txn[c].snap) /\ (~ req[c].ddl => Guarded(txn[c]) /\ WithRows(txn[c].overlay))
      BY <1>4, <2>12 DEF IndexOwn, IndexTxn, TxnSteps
    <3>2. Guarded(txn[c]) => Guarded(y)
      BY <2>8 DEF Guarded, EntriesGuarded, MustGuard, EntryGuarded, scan_range
    <3> QED BY <2>8, <3>1, <3>2 DEF scan_range
  <2>16. Gentle(y, q)
    <3>1. Gentle(txn[c], q)
      BY <1>2, <1>4 DEF Gently
    <3>2. \A k : read_key(y, k) = read_key(txn[c], k)
      BY <2>8 DEF read_key
    <3> QED BY <3>1, <3>2 DEF Gentle, Exists, read_schema
  <2>17. Fit(scan_range(x)) /\ Numbered(x) /\ x.snap = y.snap
    <3>1. Fit(scan_range(x)) /\ Numbered(x)
      BY <1>3, <2>8, <2>10, <2>13, <2>14, <2>15, <2>16, ExecuteExact, ExecuteNumbered
    <3>2. x.snap = y.snap
      BY <1>3, <2>8, <2>10, <2>13, Executed DEF Moves
    <3> QED BY <3>1, <3>2
  <2>18. ASSUME ~ req[c].ddl PROVE WithRows(x.overlay) /\ Guarded(x)
    <3>1. RowWork(y, x)
      BY <1>3, <2>8, <2>10, <2>13, <2>14, <2>15, <2>18, NumberedIds, DmlExact
    <3>2. Guards(y, x)
      BY <1>3, <2>8, <2>10, <2>13, <2>18, DmlGuarded
    <3> QED BY <2>15, <2>18, <3>1, <3>2 DEF RowWork, Guards
  <2>19. scan_range(z) = scan_range(x) /\ Numbered(z) /\ (Guarded(x) => Guarded(z))
    BY <2>11, <2>17 DEF scan_range, Numbered, table_id, read_key, Guarded, EntriesGuarded, MustGuard, EntryGuarded
  <2>20. RowRequest(c)'
    <3>1. ASSUME NEW n \in DOMAIN r.stmts PROVE n + 1 \in DOMAIN req[c].stmts /\ r.stmts[n] = req[c].stmts[n + 1]
      BY <1>4, <2>5, <2>7
    <3> QED BY <2>5, <2>6, <2>12, <3>1 DEF IndexOwn, RowRequest
  <2>21. IndexOwn(c)'
    BY <2>5, <2>6, <2>11, <2>15, <2>17, <2>18, <2>19, <2>20 DEF IndexOwn, IndexTxn
  <2> QED BY <1>4, <2>6, <2>21, IndexKept
<1> QED BY <1>5, <1>6, <1>7

\* Registries hold no rows, entries or schemas.
LEMMA RegisteredFit ==
    ASSUME NEW s, Fit(s), NEW f, Registry(f), NEW w, w = Over(f, s)
    PROVE  Fit(w) /\ \A t : SameTable(s, w, t)
<1>1. ASSUME NEW k, k[1] \in {"schema", "tableid", "colcat", "row", "index"} PROVE Agree(s, w, k)
  BY <1>1 DEF Registry, Over, Agree
<1>2. \A t : SameTable(s, w, t)
  BY <1>1, RecordShapes DEF SameTable
<1>3. \A id, pk : SameRow(s, w, id, pk)
  <2>1. \A id, pk : row_key(id, pk)[1] = "row" /\ \A i, val : index_entry_key(id, i, val, pk)[1] = "index"
    BY DEF row_key, index_entry_key
  <2> QED BY <1>1, <2>1 DEF SameRow, Agree
<1> QED BY <1>2, <1>3, TableStays, RowStays DEF Fit

LEMMA RegisterIndex ==
    ASSUME SqlInv, IndexInv, NEW c \in Conn, Register(c)
    PROVE  IndexInv'
<1>1. /\ pc' = [pc EXCEPT ![c] = "registered"] /\ db' = Over(reg[c], db)
      /\ UNCHANGED <<durable, req, txn>>
  BY DEF Register, SetPc
<1>2. pc'[c] = "registered" /\ \A d \in Conn \ {c} : pc'[d] = pc[d]
  BY <1>1 DEF SqlInv, LeaseInv
<1>3. Numbered(View(db')) /\ Fit(db')
  BY <1>1, RegisteredNumbered, RegisteredFit DEF SqlInv, RequestInv, IndexInv
<1>4. ASSUME NEW d \in Conn PROVE IndexOwn(d)'
  BY <1>1, <1>2 DEF IndexInv, IndexOwn, RowRequest, IndexTxn, TxnSteps
<1> QED BY <1>1, <1>3, <1>4 DEF IndexInv

\* A commit finds the store its snapshot had or, when it writes rows, the
\* tables and the rows it writes.
LEMMA WriteIndex ==
    ASSUME SqlInv, OwnInv, IndexInv, Undisturbed, NEW c \in Conn, Write(c)
    PROVE  IndexInv'
<1>1. /\ pc[c] = "write" /\ pc' = [pc EXCEPT ![c] = "flush"] /\ db' = merge_sorted(db, txn[c].overlay)
      /\ UNCHANGED <<durable, req, txn>>
  BY DEF Write, SetPc
<1>2. pc'[c] = "flush" /\ \A d \in Conn \ {c} : pc'[d] = pc[d]
  BY <1>1 DEF SqlInv, LeaseInv
<1>3. ASSUME NEW d \in Conn PROVE IndexOwn(d)'
  BY <1>1, <1>2 DEF IndexInv, IndexOwn, RowRequest, IndexTxn, TxnSteps
<1>4. PICK s, f, u : s = txn[c].snap /\ f = txn[c].overlay /\ u = scan_range(txn[c])
  OBVIOUS
<1>5. Becomes(db, f, db') /\ Becomes(s, f, u)
  BY <1>1, <1>4, MergeBecomes DEF scan_range
<1>6. Fit(u) /\ Fit(s) /\ Fit(db) /\ Numbered(txn[c]) /\ (~ req[c].ddl => WithRows(f) /\ RowsOnly(f))
  BY <1>1, <1>4 DEF IndexInv, IndexOwn, IndexTxn, TxnSteps, Guarded
<1>7. ASSUME NEW k, \/ k[1] \in {"schema", "tableid", "tableid_seq", "colcat"}
                    \/ req[c].ddl /\ k[1] \in {"row", "index"}
      PROVE  Agree(s, db, k)
  BY <1>1, <1>4, <1>7 DEF Undisturbed
<1>8. Numbered(View(db'))
  <2>1. SameIds(s, db)
    BY <1>7 DEF SameIds, Agree
  <2> QED BY <1>1, <1>4, <1>6, <2>1, CommitNumbered
<1>9. CASE req[c].ddl
  <2>1. ASSUME NEW k, k[1] \in {"schema", "tableid", "colcat", "row", "index"} PROVE Agree(u, db', k)
    <3>1. Agree(s, db, k)
      BY <1>7, <1>9, <2>1
    <3> QED BY <1>5, <3>1 DEF Becomes, Agree
  <2>2. Fit(db')
    BY <1>6, <2>1, FitAgrees
  <2> QED BY <1>1, <1>3, <1>8, <2>2 DEF IndexInv
<1>10. CASE ~ req[c].ddl
  <2>1. ASSUME NEW id, NEW pk, row_key(id, pk) \in DOMAIN f PROVE Agree(s, db, row_key(id, pk))
    <3>1. row_key(id, pk)[1] = "row"
      BY DEF row_key
    <3> QED BY <1>1, <1>4, <2>1, <3>1, RowsWrittenFresh DEF Agree
  <2>2. \A t : SameTable(s, db, t)
    BY <1>7, RecordShapes DEF SameTable
  <2>3. Fit(db')
    BY <1>5, <1>6, <1>10, <2>1, <2>2, RowsMergedFit
  <2> QED BY <1>1, <1>3, <1>8, <2>3 DEF IndexInv
<1> QED BY <1>9, <1>10

LEMMA CrashIndex ==
    ASSUME IndexInv, Crash
    PROVE  IndexInv'
<1>1. db' = durable /\ durable' = durable /\ \A c \in Conn : pc'[c] = "idle" /\ req'[c] = NoRequest
  BY DEF Crash
<1>2. ASSUME NEW c \in Conn PROVE IndexOwn(c)'
  <2>1. pc'[c] = "idle" /\ req'[c].stmts = <<>>
    BY <1>1 DEF NoRequest
  <2> QED BY <2>1 DEF IndexOwn, RowRequest, IndexTxn, TxnSteps
<1> QED BY <1>1, <1>2 DEF IndexInv

LEMMA IndexStep ==
    ASSUME SqlInv, OwnInv, IndexInv, Gently, Undisturbed, [Next]_vars
    PROVE  IndexInv'
<1>1. CASE UNCHANGED vars
  BY <1>1 DEF vars, IndexInv, IndexOwn, RowRequest, IndexTxn
<1>2. ASSUME NEW c \in Conn, Submit(c) \/ TakeLease(c) \/ acquire_unique_locks(c) \/ Drop(c) PROVE IndexInv'
  BY <1>2, SubmitIndex, PassIndex, LockIndex, FinishIndex DEF Drop
<1>3. ASSUME NEW c \in Conn, CommitNothing(c) \/ Report(c) PROVE IndexInv'
  BY <1>3, FinishIndex DEF CommitNothing, Report
<1>4. ASSUME NEW c \in Conn, Continue(c) PROVE IndexInv'
  BY <1>3, <1>4, PassIndex, RegisterIndex, BeginIndex, ExecIndex, LockIndex, WriteIndex DEF Continue
<1> QED BY <1>1, <1>2, <1>4, CrashIndex DEF Next

\* The store the requests start on: tables, indexes and rows.
LEMMA SetUpFit ==
    ASSUME NEW s, StoreOK(s), Numbered(View(s)), Fit(s), NEW q, StatementOK(q),
           q.op \in {"create_table", "create_index", "insert"}
    PROVE  Fit(SetUp(s, q))
<1>1. PICK r : r = [mode |-> "auto", stmts |-> <<q>>]
  OBVIOUS
<1>2. PICK known : known = Over(prepare(s, r), s)
  OBVIOUS
<1>3. PICK x : x = NewTxn(known, <<>>)
  OBVIOUS
<1>4. PICK z : z = Execute(x, q)
  OBVIOUS
<1>5. StoreOK(known) /\ Numbered(View(known)) /\ Fit(known)
  BY <1>2, Prepared, Registered, RegisteredNumbered, RegisteredFit
<1>6. x.snap = known /\ x.overlay = <<>> /\ x = View(known) /\ TxnOK(x)
  BY <1>3, <1>5, NothingCovered, TxnBegins DEF View
<1>7. DOMAIN x.overlay = {}
  BY <1>6
<1>8. Fit(scan_range(x))
  BY <1>5, <1>6, <1>7, ScanOfNothing, FitAgrees
<1>9. Gentle(x, q)
  BY DEF Gentle
<1>10. Fit(scan_range(z))
  BY <1>4, <1>5, <1>6, <1>8, <1>9, ExecuteExact
<1>11. z.snap = known
  BY <1>4, <1>6, Executed DEF Moves
<1>12. SetUp(s, q) = merge_sorted(known, z.overlay)
  BY <1>1, <1>2, <1>3, <1>4 DEF SetUp
<1> QED BY <1>10, <1>11, <1>12 DEF scan_range

LEMMA SetupStoreFit == Fit(SetupStore)
<1>1. PICK n, f : n = Len(Setup) /\ SetupStore = f[n] /\ \A m \in 0..n : f[m] = NextStore(f, m)
  BY SetupStores
<1>2. n \in Nat /\ \A m \in 1..n : StatementOK(Setup[m]) /\ Setup[m].op \in {"create_table", "create_index", "insert"}
  <2>1. /\ Setup \in Seq(Range(Setup))
        /\ \A q \in Range(Setup) : StatementOK(q) /\ q.op \in {"create_table", "create_index", "insert"}
    BY SqlAssumption
  <2>2. n \in Nat /\ \A m \in 1..n : m \in DOMAIN Setup /\ Setup[m] \in Range(Setup)
    BY <1>1, <2>1
  <2> QED BY <2>1, <2>2
<1> DEFINE T == {m \in 0..n : ~(StoreOK(f[m]) /\ Numbered(View(f[m])) /\ Fit(f[m]))}
<1>3. T \subseteq Nat
  BY <1>2
<1>4. CASE T # {}
  <2>1. PICK k \in T : \A m \in T : k <= m
    <3> HIDE DEF T
    <3> QED BY <1>3, <1>4, LeastNatural
  <2>2. k \in 0..n /\ ~(StoreOK(f[k]) /\ Numbered(View(f[k])) /\ Fit(f[k])) /\ f[k] = NextStore(f, k)
    BY <1>1, <2>1
  <2>3. CASE k = 0
    <3>1. f[k] = <<>> /\ DOMAIN f[k] = {}
      BY <2>2, <2>3 DEF NextStore
    <3>2. \A j : read_key(View(f[k]), j) = <<>>
      BY <3>1, ViewReads
    <3>3. Fit(f[k])
      BY <3>1 DEF Fit, TableFit, RowExact, HasEntry, HasId
    <3> QED BY <2>2, <3>1, <3>2, <3>3 DEF StoreOK, Numbered
  <2>4. CASE k # 0
    <3>1. k - 1 \in 0..n /\ ~(k <= k - 1) /\ k \in 1..n
      BY <1>2, <2>2, <2>4
    <3>2. StoreOK(f[k - 1]) /\ Numbered(View(f[k - 1])) /\ Fit(f[k - 1])
      BY <2>1, <3>1
    <3>3. PICK s, q : s = f[k - 1] /\ q = Setup[k]
      OBVIOUS
    <3>4. StoreOK(SetUp(s, q)) /\ Numbered(View(SetUp(s, q))) /\ Fit(SetUp(s, q))
      BY <1>2, <3>1, <3>2, <3>3, SetUpOK, SetUpFit
    <3> QED BY <2>2, <2>4, <3>3, <3>4 DEF NextStore
  <2> QED BY <2>3, <2>4
<1>5. CASE T = {}
  <2>1. n \in 0..n
    BY <1>2
  <2> QED BY <1>1, <1>5, <2>1
<1> QED BY <1>4, <1>5

LEMMA IndexInit ==
    ASSUME Init
    PROVE  IndexInv
<1>1. db = SetupStore /\ durable = SetupStore /\ \A c \in Conn : pc[c] = "idle" /\ req[c] = NoRequest
  BY DEF Init, InitOn
<1>2. ASSUME NEW c \in Conn PROVE IndexOwn(c)
  <2>1. pc[c] = "idle" /\ req[c].stmts = <<>>
    BY <1>1 DEF NoRequest
  <2> QED BY <2>1 DEF IndexOwn, RowRequest, IndexTxn, TxnSteps
<1> QED BY <1>1, <1>2, SetupStoreFit, SetupStoreOK DEF IndexInv

\* The entries of a table are those of its rows.
LEMMA EntriesSeen ==
    ASSUME NEW x, TxnOK(x), Numbered(x), Fit(scan_range(x)), NEW t, Exists(x, t), NEW v, v = scan_range(x),
           NEW id, id = table_id(x, t), NEW s, s = read_schema(x, t), NEW rows, rows = collect_rows(x, t)
    PROVE  /\ \A i, val, p : index_entry_key(id, i, val, p) \in DOMAIN v <=>
                 p \in DOMAIN rows /\ \E d \in s.indexes : i = d.name /\ val = ValueOf(s, rows, d, p)
           /\ HasId(v, t, id) /\ ColumnsFit(s)
<1>1. Known(x, t) /\ IdsFit(v)
  BY NumberedIds DEF Known, Exists, Numbered
<1>2. HasId(v, t, id) /\ s = v[schema_key(t)] /\ schema_key(t) \in DOMAIN v
  BY <1>1, TableSeen
<1>3. ColumnsFit(s)
  BY <1>2 DEF Fit, TableFit
<1>4. ASSUME NEW i, NEW val, NEW p
      PROVE  index_entry_key(id, i, val, p) \in DOMAIN v <=>
                 p \in DOMAIN rows /\ \E d \in s.indexes : i = d.name /\ val = ValueOf(s, rows, d, p)
  <2>1. index_entry_key(id, i, val, p) \in DOMAIN v <=> HasEntry(v, t, id, i, val, p)
    BY <1>1, <1>2, EntriesOfTable DEF Fit
  <2>2. p \in DOMAIN rows <=> row_key(id, p) \in DOMAIN v
    BY FetchedAll
  <2>3. ASSUME p \in DOMAIN rows, NEW d PROVE ValueOf(s, rows, d, p) = ValueIn(v, t, v[row_key(id, p)], d.col)
    <3>1. rows[p] = LogicalIn(v, t, v[row_key(id, p)])
      BY <2>3, FetchedAll
    <3> QED BY <1>2, <3>1 DEF ValueOf, ValueIn
  <2> QED BY <1>2, <2>1, <2>2, <2>3 DEF HasEntry
<1> QED BY <1>2, <1>3, <1>4

LEMMA ViewFit ==
    ASSUME NEW s, StoreOK(s), Numbered(View(s)), Fit(s), NEW x, x = View(s), NEW v, v = scan_range(x)
    PROVE  TxnOK(x) /\ Fit(v) /\ (\A k : k \in DOMAIN v <=> k \in DOMAIN s) /\ \A t : t \in Tables(s) <=> Exists(x, t)
<1>1. x.snap = s /\ x.overlay = <<>> /\ TxnOK(x)
  BY NothingCovered, TxnBegins DEF View
<1>2. DOMAIN x.overlay = {}
  BY <1>1
<1>3. \A k : Agree(s, v, k)
  BY <1>1, <1>2, ScanOfNothing
<1>4. ASSUME NEW t PROVE t \in Tables(s) <=> Exists(x, t)
  <2>1. Exists(x, t) <=> schema_key(t) \in DOMAIN s
    BY <1>3, ReadsScan DEF Exists, Agree
  <2>2. t \in Tables(s) <=> \E k \in DOMAIN s : k[1] = "schema" /\ k[2] = t
    BY DEF Tables
  <2>3. \A k \in DOMAIN s : k[1] = "schema" /\ k[2] = t => k = schema_key(t)
    BY DEF StoreOK, RecordOK
  <2>4. schema_key(t)[1] = "schema" /\ schema_key(t)[2] = t
    BY DEF schema_key
  <2> QED BY <2>1, <2>2, <2>3, <2>4
<1> QED BY <1>1, <1>3, <1>4, FitAgrees DEF Agree

\* What IndexExact says of the entries, and of the scans of one table.
LEMMA EntriesExact ==
    ASSUME NEW s, StoreOK(s), Numbered(View(s)), Fit(s)
    PROVE  IndexExactIn(s, View(s))
<1>1. PICK x, v : x = View(s) /\ v = scan_range(x)
  OBVIOUS
<1>2. TxnOK(x) /\ Numbered(x) /\ Fit(v) /\ (\A k : k \in DOMAIN v <=> k \in DOMAIN s) /\ \A t : t \in Tables(s) <=> Exists(x, t)
  BY <1>1, ViewFit
<1>3. ASSUME NEW t, Exists(x, t), NEW k
      PROVE  k \in EntriesFor(table_id(x, t), read_schema(x, t), collect_rows(x, t)) <=>
                \E i, val, p : k = index_entry_key(table_id(x, t), i, val, p) /\ k \in DOMAIN v
  <2>1. PICK id, c, rows : id = table_id(x, t) /\ c = read_schema(x, t) /\ rows = collect_rows(x, t)
    OBVIOUS
  <2>2. \A i, val, p : index_entry_key(id, i, val, p) \in DOMAIN v <=>
            p \in DOMAIN rows /\ \E d \in c.indexes : i = d.name /\ val = ValueOf(c, rows, d, p)
    BY <1>1, <1>2, <1>3, <2>1, EntriesSeen
  <2>3. k \in EntriesFor(id, c, rows) <=>
            \E d \in c.indexes, p \in DOMAIN rows : k = index_entry_key(id, d.name, ValueOf(c, rows, d, p), p)
    BY DEF EntriesFor
  <2> QED BY <2>1, <2>2, <2>3
<1>4. ASSUME NEW k \in DOMAIN s, k[1] = "index"
      PROVE  \E t \in Tables(s) : k \in EntriesFor(table_id(x, t), read_schema(x, t), collect_rows(x, t))
  <2>1. k = index_entry_key(k[2], k[3], k[4], k[5])
    BY <1>4 DEF StoreOK, RecordOK
  <2>2. PICK id, i, val, p : k = index_entry_key(id, i, val, p)
    BY <2>1
  <2>3. RowExact(v, id, p) /\ k \in DOMAIN v
    BY <1>2 DEF Fit
  <2>4. PICK t : HasEntry(v, t, id, i, val, p)
    BY <2>2, <2>3 DEF RowExact
  <2>5. schema_key(t) \in DOMAIN v /\ tableid_key(t) \in DOMAIN v /\ v[tableid_key(t)] = id
    BY <2>4 DEF HasEntry, HasId
  <2>6. Exists(x, t) /\ table_id(x, t) = id
    BY <1>1, <2>5, ReadsScan DEF Exists, table_id
  <2> QED BY <1>2, <1>3, <2>2, <2>3, <2>6
<1>5. ASSUME NEW t \in Tables(s), NEW k \in EntriesFor(table_id(x, t), read_schema(x, t), collect_rows(x, t))
      PROVE  k \in DOMAIN s /\ k[1] = "index"
  <2>1. Exists(x, t)
    BY <1>2
  <2>2. PICK i, val, p : k = index_entry_key(table_id(x, t), i, val, p) /\ k \in DOMAIN v
    BY <1>3, <1>5, <2>1
  <2> QED BY <1>2, <2>2 DEF index_entry_key
<1>6. PICK es : es = UNION {EntriesFor(table_id(x, t), read_schema(x, t), collect_rows(x, t)) : t \in Tables(s)}
  OBVIOUS
<1>7. \A k : k \in es <=> \E t \in Tables(s) : k \in EntriesFor(table_id(x, t), read_schema(x, t), collect_rows(x, t))
  BY <1>6
<1>8. {k \in DOMAIN s : k[1] = "index"} = es
  BY <1>4, <1>5, <1>7
<1> QED BY <1>1, <1>6, <1>8 DEF IndexExactIn

LEMMA ScansExact ==
    ASSUME NEW s, StoreOK(s), Numbered(View(s)), Fit(s), NEW x, x = View(s), NEW t, Exists(x, t)
    PROVE  ScansFind(x, t, read_schema(x, t), collect_rows(x, t))
<1>1. PICK v, id, c, rows : v = scan_range(x) /\ id = table_id(x, t) /\ c = read_schema(x, t) /\ rows = collect_rows(x, t)
  OBVIOUS
<1>2. TxnOK(x) /\ Numbered(x) /\ Fit(v) /\ StoreOK(v)
  <2>1. TxnOK(x) /\ Fit(v)
    BY <1>1, ViewFit
  <2> QED BY <1>1, <2>1, MergedOK DEF scan_range, TxnOK
<1>3. /\ \A i, val, p : index_entry_key(id, i, val, p) \in DOMAIN v <=>
            p \in DOMAIN rows /\ \E d \in c.indexes : i = d.name /\ val = ValueOf(c, rows, d, p)
      /\ ColumnsFit(c)
  BY <1>1, <1>2, EntriesSeen
<1>4. \A p : /\ p \in DOMAIN rows <=> row_key(id, p) \in DOMAIN v
             /\ p \in DOMAIN rows => rows[p] = Logical(x, t, v[row_key(id, p)])
  <2>1. ASSUME NEW phys PROVE LogicalIn(v, t, phys) = Logical(x, t, phys)
    <3>1. /\ read_catalog(x, t) # <<>> <=> colcat_key(t) \in DOMAIN v
          /\ colcat_key(t) \in DOMAIN v => v[colcat_key(t)] = read_catalog(x, t)[1]
      BY <1>1, ReadsScan DEF read_catalog
    <3>2. PICK c1 : c1 = read_catalog(x, t)
      OBVIOUS
    <3>3. Logical(x, t, phys) = IF c1 = <<>> THEN phys ELSE to_logical(c1[1], phys)
      BY <3>2 DEF Logical
    <3> QED BY <3>1, <3>2, <3>3 DEF LogicalIn
  <2>2. ASSUME NEW p PROVE /\ p \in DOMAIN rows <=> row_key(id, p) \in DOMAIN v
                           /\ p \in DOMAIN rows => rows[p] = LogicalIn(v, t, v[row_key(id, p)])
    BY <1>1, <1>2, FetchedAll
  <2> QED BY <2>1, <2>2
<1>5. ASSUME NEW d \in c.indexes, NEW val
      PROVE  {<<e[1], Logical(x, t, e[2])>> : e \in scan_indexed_data(x, t, d.name, val)} = RowsWith(c, rows, d, val)
  <2>1. PICK found : found = {e \in IndexEntries(v, id, d.name) : e[4] = val /\ read_key(x, row_key(id, e[5])) # <<>>}
    OBVIOUS
  <2>2. scan_indexed_data(x, t, d.name, val) = {<<k[5], v[row_key(id, k[5])]>> : k \in found}
    BY <1>1, <2>1 DEF scan_indexed_data
  <2>3. ASSUME NEW k \in found PROVE k[5] \in DOMAIN rows /\ ValueOf(c, rows, d, k[5]) = val
    <3>1. k \in DOMAIN v /\ k[1] = "index" /\ k[2] = id /\ k[3] = d.name /\ k[4] = val
      BY <2>1 DEF IndexEntries
    <3>2. k = index_entry_key(id, d.name, val, k[5])
      BY <1>2, <3>1 DEF StoreOK, RecordOK
    <3>3. PICK p : p = k[5]
      OBVIOUS
    <3>4. index_entry_key(id, d.name, val, p) \in DOMAIN v
      BY <3>1, <3>2, <3>3
    <3>5. p \in DOMAIN rows /\ \E e \in c.indexes : d.name = e.name /\ val = ValueOf(c, rows, e, p)
      BY <1>3, <3>4
    <3> QED BY <1>3, <3>3, <3>5 DEF ColumnsFit
  <2>4. ASSUME NEW p \in DOMAIN rows, ValueOf(c, rows, d, p) = val PROVE \E k \in found : k[5] = p
    <3>1. PICK k : k = index_entry_key(id, d.name, val, p)
      OBVIOUS
    <3>2. k \in DOMAIN v
      BY <1>3, <2>4, <3>1
    <3>3. k[1] = "index" /\ k[2] = id /\ k[3] = d.name /\ k[4] = val /\ k[5] = p
      BY <3>1 DEF index_entry_key
    <3>4. read_key(x, row_key(id, p)) # <<>>
      BY <1>1, <1>4, ReadsScan
    <3> QED BY <2>1, <3>2, <3>3, <3>4 DEF IndexEntries
  <2>5. PICK got, want : /\ got = {<<e[1], Logical(x, t, e[2])>> : e \in scan_indexed_data(x, t, d.name, val)}
                         /\ want = RowsWith(c, rows, d, val)
    OBVIOUS
  <2>6. ASSUME NEW e \in got PROVE e \in want
    <3>1. PICK g \in scan_indexed_data(x, t, d.name, val) : e = <<g[1], Logical(x, t, g[2])>>
      BY <2>5
    <3>2. PICK k \in found : g = <<k[5], v[row_key(id, k[5])]>>
      BY <2>2, <3>1
    <3>3. PICK p : p = k[5] /\ p \in DOMAIN rows /\ ValueOf(c, rows, d, p) = val
      BY <2>3
    <3>4. e = <<p, rows[p]>>
      BY <1>4, <3>1, <3>2, <3>3
    <3> QED BY <2>5, <3>3, <3>4 DEF RowsWith
  <2>7. ASSUME NEW e \in want PROVE e \in got
    <3>1. PICK p \in DOMAIN rows : ValueOf(c, rows, d, p) = val /\ e = <<p, rows[p]>>
      BY <2>5 DEF RowsWith
    <3>2. PICK k \in found : k[5] = p
      BY <2>4, <3>1
    <3>3. PICK g : g = <<p, v[row_key(id, p)]>>
      OBVIOUS
    <3>4. g \in scan_indexed_data(x, t, d.name, val) /\ g[1] = p /\ g[2] = v[row_key(id, p)]
      BY <2>2, <3>2, <3>3
    <3>5. e = <<g[1], Logical(x, t, g[2])>>
      BY <1>4, <3>1, <3>4
    <3> QED BY <2>5, <3>4, <3>5
  <2> QED BY <2>5, <2>6, <2>7
<1> QED BY <1>1, <1>5 DEF ScansFind

LEMMA IndexInvExact ==
    ASSUME SqlInv, IndexInv
    PROVE  IndexesKept
<1>1. /\ StoreOK(db) /\ Numbered(View(db)) /\ Fit(db)
      /\ StoreOK(durable) /\ Numbered(View(durable)) /\ Fit(durable)
  BY DEF SqlInv, StoreInv, IndexInv
<1>2. IndexExactIn(db, View(db)) /\ IndexExactIn(durable, View(durable))
  BY <1>1, EntriesExact
<1>3. IndexScansIn(db, View(db))
  <2>1. PICK x : x = View(db)
    OBVIOUS
  <2>2. ASSUME NEW t \in Tables(db) PROVE ScansFind(x, t, read_schema(x, t), collect_rows(x, t))
    <3>1. Exists(x, t)
      BY <1>1, <2>1, ViewFit
    <3> QED BY <1>1, <2>1, <2>2, <3>1, ScansExact
  <2> QED BY <2>1, <2>2 DEF IndexScansIn
<1> QED BY <1>2, <1>3 DEF IndexesKept

\* Every index holds exactly one entry per row, under the row's value, in the
\* store and in the one a restart finds, and a scan of an index finds the rows
\* a full scan finds, whatever was added, dropped, renamed or indexed late
\* before (apply_index_entries, create_index, drop_index, add_column,
\* drop_column, delete_schema, scan_indexed_data): with any number of requests
\* of any kind at any time, those that change schemas in blocks with others
\* included.  The requests are the server's (Routed); what leaves entries behind
\* or apart in the code is said of the behaviour: no statement renames an
\* indexed column, or a table onto another one (Gently), and a commit finds the
\* tables as its snapshot had them (Undisturbed).  The rows a scan returns are
\* in their stored form: with AlteredScanned, IndexExact also asks for more.
THEOREM IndexesAreExact ==
    ASSUME Routed
    PROVE  Spec /\ [](Gently /\ Undisturbed) => [](IndexesKept /\ (~ AlteredScanned => IndexExact))
<1>1. Init => SqlInv /\ OwnInv /\ IndexInv
  BY SqlInvInit, OwnInit, IndexInit
<1>2. SqlInv /\ OwnInv /\ IndexInv /\ Gently /\ Undisturbed /\ [Next]_vars => (SqlInv /\ OwnInv /\ IndexInv)'
  BY SqlInvStep, OwnStep, IndexStep
<1>3. SqlInv /\ OwnInv /\ IndexInv => IndexesKept /\ (~ AlteredScanned => IndexExact)
  BY IndexInvExact DEF IndexExact
<1> QED BY <1>1, <1>2, <1>3, PTL DEF Spec

=============================================================================
