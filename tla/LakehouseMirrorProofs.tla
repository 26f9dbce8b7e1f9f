----------------------- MODULE LakehouseMirrorProofs -----------------------
(***************************************************************************)
(* Proofs about LakehouseMirror, for all tables, keys and values, any      *)
(* number of commits, failed seals, restarts and PRAGMAs, and every        *)
(* compaction policy.                                                      *)
(***************************************************************************)
EXTENDS LakehouseMirror, FiniteSetTheorems, WellFoundedInduction, TLAPS

-----------------------------------------------------------------------------
(* 1. Greatest elements.                                                   *)

\* A set of naturals has a least element.
LEMMA LeastNatural ==
    ASSUME NEW T, T \subseteq Nat, T # {}
    PROVE  \E x \in T : \A y \in T : x <= y
<1> DEFINE R == OpToRel(<, Nat)
<1>1. IsWellFoundedOn(R, Nat)
  BY NatLessThanWellFounded
<1>2. \A x, y \in Nat : x < y => <<x, y>> \in R
  BY DEF OpToRel
<1> HIDE DEF R
<1>3. PICK x \in T : \A y \in T : ~(<<y, x>> \in R)
  BY <1>1, WFMin
<1>4. ASSUME NEW y \in T PROVE x <= y
  <2>1. x \in Nat /\ y \in Nat
    OBVIOUS
  <2>2. ~(y < x)
    BY <1>2, <1>3, <2>1, Zenon
  <2> QED BY <2>1, <2>2
<1> QED BY <1>4

\* A finite set of integers has a greatest element, and Max is that element: there
\* is no smallest set without one.
HasGreatest(S) == \E x \in S : \A y \in S : y <= x

LEMMA FiniteGreatest ==
    ASSUME NEW S, IsFiniteSet(S), S \subseteq Int, S # {}
    PROVE  HasGreatest(S)
<1> DEFINE Bad(s) == s # {} /\ ~HasGreatest(s)
           T == {Cardinality(s) : s \in {u \in SUBSET S : Bad(u)}}
<1>1. SUFFICES ASSUME Bad(S) PROVE FALSE
  OBVIOUS
<1>2. \A u \in SUBSET S : IsFiniteSet(u) /\ Cardinality(u) \in Nat
  BY FS_Subset, FS_CardinalityType
<1>3. T \subseteq Nat /\ T # {}
  BY <1>1, <1>2
<1>4. \A u \in SUBSET S : Bad(u) => Cardinality(u) \in T
  OBVIOUS
<1>5. \A n \in T : \E u \in SUBSET S : Bad(u) /\ n = Cardinality(u)
  OBVIOUS
<1> HIDE DEF T
<1>6. PICK n \in T : \A m \in T : n <= m
  BY <1>3, LeastNatural
<1>7. PICK u \in SUBSET S : Bad(u) /\ n = Cardinality(u)
  BY <1>5
<1>8. PICK x \in u : TRUE
  BY <1>7
<1>9. n \in Nat /\ Cardinality(u \ {x}) = n - 1
  BY <1>2, <1>7, FS_RemoveElement
<1>10. ~Bad(u \ {x})
  <2>1. ~(n <= Cardinality(u \ {x}))
    BY <1>9
  <2> QED BY <1>4, <1>6, <2>1
<1>11. CASE u \ {x} = {}
  <2>1. \A y \in u : y = x
    BY <1>11
  <2>2. x <= x
    OBVIOUS
  <2> QED BY <1>7, <2>1, <2>2 DEF HasGreatest
<1>12. CASE u \ {x} # {}
  <2>1. PICK z \in u \ {x} : \A y \in u \ {x} : y <= z
    BY <1>10, <1>12 DEF HasGreatest
  <2>2. x \in Int /\ z \in Int /\ u \subseteq Int
    OBVIOUS
  <2>3. CASE x <= z
    <3>1. \A y \in u : y <= z
      BY <2>1, <2>3
    <3> QED BY <1>7, <3>1 DEF HasGreatest
  <2>4. CASE ~(x <= z)
    <3>1. \A y \in u : y <= x
      BY <2>1, <2>2, <2>4
    <3> QED BY <1>7, <3>1 DEF HasGreatest
  <2> QED BY <2>3, <2>4
<1> QED BY <1>11, <1>12

LEMMA MaxIsGreatest ==
    ASSUME NEW S, IsFiniteSet(S), S \subseteq Int, S # {}
    PROVE  Max(S) \in S /\ \A y \in S : y <= Max(S)
<1>1. PICK x \in S : \A y \in S : y <= x
  BY FiniteGreatest DEF HasGreatest
<1>2. \A y \in S : x >= y
  BY <1>1
<1>3. Max(S) \in S /\ \A y \in S : Max(S) >= y
  BY <1>2, Zenon DEF Max
<1> QED BY <1>3

-----------------------------------------------------------------------------
(* 2. Merge-on-read.                                                       *)

Contents == UNION {[K -> Value] : K \in SUBSET Key}
DataFiles == [seq : Nat, rows : Contents]
DeleteFiles == [seq : Nat, keys : SUBSET Key]
Snapshots == [seq : Nat, watermark : Nat, data : SUBSET DataFiles, deletes : SUBSET DeleteFiles]

\* What merge-on-read returns of a row.
Shows(data, deletes, k, v) ==
    \E d \in data : /\ k \in DOMAIN d.rows /\ d.rows[k] = v
                   /\ ~\E e \in deletes : e.seq > d.seq /\ k \in e.keys

OneVersion(pairs) == \A x, y \in pairs : x[1] = y[1] => x = y

\* A snapshot of the n-th version: no file is from later.
Published(md, n) ==
    /\ md \in Snapshots /\ md.seq = n
    /\ \A d \in md.data : d.seq \in 1..n
    /\ \A e \in md.deletes : e.seq \in 1..n
    /\ OneVersion(View(md))

Changed == UNION {[K -> Value \cup {Absent}] : K \in SUBSET Key}

LEMMA VisibleIsShown ==
    ASSUME NEW data, NEW deletes, NEW k \in Key, NEW v \in Value
    PROVE  <<k, v>> \in Visible(data, deletes) <=> Shows(data, deletes, k, v)
BY DEF Visible, Shows

LEMMA VisiblePairs ==
    ASSUME NEW data, NEW deletes
    PROVE  Visible(data, deletes) \subseteq Key \X Value
BY DEF Visible

LEMMA SamePairs ==
    ASSUME NEW A, NEW B, A \subseteq Key \X Value, B \subseteq Key \X Value,
           \A k \in Key, v \in Value : <<k, v>> \in A <=> <<k, v>> \in B
    PROVE  A = B
<1>1. ASSUME NEW x \in Key \X Value PROVE x \in A <=> x \in B
  <2>1. x[1] \in Key /\ x[2] \in Value /\ x = <<x[1], x[2]>>
    OBVIOUS
  <2> QED BY <2>1
<1> QED BY <1>1

LEMMA OneVersionShown ==
    ASSUME NEW A, A \subseteq Key \X Value
    PROVE  OneVersion(A) <=> \A k \in Key, v, w \in Value : <<k, v>> \in A /\ <<k, w>> \in A => v = w
<1>1. ASSUME OneVersion(A), NEW k \in Key, NEW v \in Value, NEW w \in Value,
             <<k, v>> \in A, <<k, w>> \in A
      PROVE  v = w
  BY <1>1 DEF OneVersion
<1>2. ASSUME \A k \in Key, v, w \in Value : <<k, v>> \in A /\ <<k, w>> \in A => v = w,
             NEW x \in A, NEW y \in A, x[1] = y[1]
      PROVE  x = y
  <2>1. /\ x[1] \in Key /\ x[2] \in Value /\ x = <<x[1], x[2]>>
        /\ y[2] \in Value /\ y = <<x[1], y[2]>>
    BY <1>2
  <2> QED BY <1>2, <2>1
<1> QED BY <1>1, <1>2 DEF OneVersion

\* The files a seal adds.
LEMMA SealedFiles ==
    ASSUME NEW n \in Nat, NEW md, Published(md, n), NEW ch \in Changed, NEW w \in Nat, NEW s,
           s = Sealed(md, ch, w)
    PROVE  /\ s \in Snapshots /\ s.seq = n + 1 /\ s.watermark = w
           /\ md.data \subseteq s.data /\ md.deletes \subseteq s.deletes
           /\ \A d \in s.data \ md.data :
                 /\ d.seq = n + 1
                 /\ \A k \in DOMAIN d.rows : k \in DOMAIN ch /\ ch[k] # Absent /\ d.rows[k] = ch[k]
           /\ \A e \in s.deletes \ md.deletes : e.seq = n + 1 /\ e.keys = DOMAIN ch
           /\ \A k \in DOMAIN ch :
                 /\ \E e \in s.deletes : e.seq = n + 1 /\ k \in e.keys
                 /\ ch[k] # Absent =>
                      \E d \in s.data : d.seq = n + 1 /\ k \in DOMAIN d.rows /\ d.rows[k] = ch[k]
<1>1. PICK U : U = {k \in DOMAIN ch : ch[k] # Absent}
  OBVIOUS
<1>2. PICK up : up = [k \in U |-> ch[k]]
  OBVIOUS
<1>3. DOMAIN ch \subseteq Key /\ \A k \in DOMAIN ch : ch[k] \in Value \cup {Absent}
  BY DEF Changed
<1>4. up \in Contents /\ DOMAIN up = U /\ \A k \in U : up[k] = ch[k]
  <2>1. up \in [U -> Value] /\ U \in SUBSET Key
    BY <1>1, <1>2, <1>3
  <2> QED BY <1>2, <2>1 DEF Contents
<1>5. PICK D : D = DataFile(n + 1, up)
  OBVIOUS
<1>6. PICK E : E = DeleteFile(n + 1, DOMAIN ch)
  OBVIOUS
<1>7. md.seq = n /\ md.data \subseteq DataFiles /\ md.deletes \subseteq DeleteFiles
  BY DEF Published, Snapshots
<1>8. s = [seq |-> n + 1, watermark |-> w, data |-> md.data \cup D, deletes |-> md.deletes \cup E]
  BY <1>1, <1>2, <1>5, <1>6, <1>7 DEF Sealed, Retired
<1>9. \A d \in D : d = [seq |-> n + 1, rows |-> up]
  BY <1>5 DEF DataFile
<1>10. \A e \in E : e = [seq |-> n + 1, keys |-> DOMAIN ch]
  BY <1>6 DEF DeleteFile
<1>11. U # {} => [seq |-> n + 1, rows |-> up] \in D
  BY <1>4, <1>5 DEF DataFile
<1>12. DOMAIN ch # {} => [seq |-> n + 1, keys |-> DOMAIN ch] \in E
  BY <1>6 DEF DeleteFile
<1>13. D \subseteq DataFiles
  BY <1>4, <1>9 DEF DataFiles
<1>14. E \subseteq DeleteFiles
  BY <1>3, <1>10 DEF DeleteFiles
<1>15. s \in Snapshots
  BY <1>7, <1>8, <1>13, <1>14 DEF Snapshots
<1>16. \A d \in s.data \ md.data :
          /\ d.seq = n + 1
          /\ \A k \in DOMAIN d.rows : k \in DOMAIN ch /\ ch[k] # Absent /\ d.rows[k] = ch[k]
  BY <1>1, <1>4, <1>8, <1>9
<1>17. \A e \in s.deletes \ md.deletes : e.seq = n + 1 /\ e.keys = DOMAIN ch
  BY <1>8, <1>10
<1>18. ASSUME NEW k \in DOMAIN ch
       PROVE  /\ \E e \in s.deletes : e.seq = n + 1 /\ k \in e.keys
              /\ ch[k] # Absent =>
                   \E d \in s.data : d.seq = n + 1 /\ k \in DOMAIN d.rows /\ d.rows[k] = ch[k]
  <2>1. \E e \in s.deletes : e.seq = n + 1 /\ k \in e.keys
    <3>1. PICK e : e = [seq |-> n + 1, keys |-> DOMAIN ch]
      OBVIOUS
    <3>2. e \in s.deletes /\ e.seq = n + 1 /\ k \in e.keys
      BY <1>8, <1>12, <3>1
    <3> QED BY <3>2
  <2>2. ASSUME ch[k] # Absent
        PROVE  \E d \in s.data : d.seq = n + 1 /\ k \in DOMAIN d.rows /\ d.rows[k] = ch[k]
    <3>1. PICK d : d = [seq |-> n + 1, rows |-> up]
      OBVIOUS
    <3>2. k \in U
      BY <1>1, <2>2
    <3>3. d \in s.data /\ d.seq = n + 1 /\ k \in DOMAIN d.rows /\ d.rows[k] = ch[k]
      BY <1>4, <1>8, <1>11, <3>1, <3>2
    <3> QED BY <3>3
  <2> QED BY <2>1, <2>2
<1> QED BY <1>8, <1>15, <1>16, <1>17, <1>18

\* A seal replaces the rows it has changes for and leaves the others alone.
LEMMA SealedShows ==
    ASSUME NEW n \in Nat, NEW md, Published(md, n), NEW ch \in Changed, NEW w \in Nat, NEW s,
           s = Sealed(md, ch, w), NEW k \in Key, NEW v \in Value
    PROVE  <<k, v>> \in View(s) <=> IF k \in DOMAIN ch THEN ch[k] = v ELSE <<k, v>> \in View(md)
<1>1. /\ md.data \subseteq s.data /\ md.deletes \subseteq s.deletes
      /\ \A d \in s.data \ md.data :
            /\ d.seq = n + 1
            /\ \A j \in DOMAIN d.rows : j \in DOMAIN ch /\ ch[j] # Absent /\ d.rows[j] = ch[j]
      /\ \A e \in s.deletes \ md.deletes : e.seq = n + 1 /\ e.keys = DOMAIN ch
      /\ k \in DOMAIN ch =>
            /\ \E e \in s.deletes : e.seq = n + 1 /\ k \in e.keys
            /\ ch[k] # Absent =>
                 \E d \in s.data : d.seq = n + 1 /\ k \in DOMAIN d.rows /\ d.rows[k] = ch[k]
  BY SealedFiles
<1>2. /\ \A d \in md.data : d.seq \in Nat /\ d.seq <= n
      /\ \A e \in md.deletes : e.seq \in Nat /\ e.seq <= n
  BY DEF Published
<1>3. /\ <<k, v>> \in View(s) <=> Shows(s.data, s.deletes, k, v)
      /\ <<k, v>> \in View(md) <=> Shows(md.data, md.deletes, k, v)
  BY VisibleIsShown DEF View
<1>4. v # Absent
  BY MirrorAssumption
<1>5. CASE k \in DOMAIN ch
  <2>1. ASSUME Shows(s.data, s.deletes, k, v) PROVE ch[k] = v
    <3>1. PICK d \in s.data : /\ k \in DOMAIN d.rows /\ d.rows[k] = v
                              /\ ~\E e \in s.deletes : e.seq > d.seq /\ k \in e.keys
      BY <2>1 DEF Shows
    <3>2. d \notin md.data
      <4>1. PICK e \in s.deletes : e.seq = n + 1 /\ k \in e.keys
        BY <1>1, <1>5
      <4>2. d \in md.data => e.seq > d.seq
        BY <1>2, <4>1
      <4> QED BY <3>1, <4>1, <4>2
    <3> QED BY <1>1, <3>1, <3>2
  <2>2. ASSUME ch[k] = v PROVE Shows(s.data, s.deletes, k, v)
    <3>1. PICK d \in s.data : d.seq = n + 1 /\ k \in DOMAIN d.rows /\ d.rows[k] = v
      BY <1>1, <1>4, <1>5, <2>2
    <3>2. \A e \in s.deletes : ~(e.seq > d.seq)
      BY <1>1, <1>2, <3>1
    <3> QED BY <3>1, <3>2 DEF Shows
  <2> QED BY <1>3, <1>5, <2>1, <2>2
<1>6. CASE k \notin DOMAIN ch
  <2>1. ASSUME Shows(s.data, s.deletes, k, v) PROVE Shows(md.data, md.deletes, k, v)
    BY <1>1, <1>6, <2>1 DEF Shows
  <2>2. ASSUME Shows(md.data, md.deletes, k, v) PROVE Shows(s.data, s.deletes, k, v)
    BY <1>1, <1>6, <2>2 DEF Shows
  <2> QED BY <1>3, <1>6, <2>1, <2>2
<1> QED BY <1>5, <1>6

LEMMA SealedIsPublished ==
    ASSUME NEW n \in Nat, NEW md, Published(md, n), NEW ch \in Changed, NEW w \in Nat, NEW s,
           s = Sealed(md, ch, w)
    PROVE  Published(s, n + 1) /\ s.watermark = w
<1>1. /\ s \in Snapshots /\ s.seq = n + 1 /\ s.watermark = w
      /\ \A d \in s.data \ md.data : d.seq = n + 1
      /\ \A e \in s.deletes \ md.deletes : e.seq = n + 1
  BY SealedFiles
<1>2. /\ \A d \in md.data : d.seq \in 1..n
      /\ \A e \in md.deletes : e.seq \in 1..n
      /\ OneVersion(View(md))
  BY DEF Published
<1>3. View(s) \subseteq Key \X Value /\ View(md) \subseteq Key \X Value
  BY VisiblePairs DEF View
<1>4. ASSUME NEW k \in Key, NEW v \in Value, NEW u \in Value, <<k, v>> \in View(s), <<k, u>> \in View(s)
      PROVE  v = u
  <2>1. IF k \in DOMAIN ch THEN ch[k] = v /\ ch[k] = u ELSE <<k, v>> \in View(md) /\ <<k, u>> \in View(md)
    BY <1>4, SealedShows
  <2> QED BY <1>2, <1>3, <2>1, OneVersionShown
<1>5. OneVersion(View(s))
  BY <1>3, <1>4, OneVersionShown
<1>6. \A d \in s.data : d.seq \in 1 .. n + 1
  BY <1>1, <1>2
<1>7. \A e \in s.deletes : e.seq \in 1 .. n + 1
  BY <1>1, <1>2
<1> QED BY <1>1, <1>5, <1>6, <1>7 DEF Published

\* A set of pairs with one version per key, as the content of a file.
LEMMA RowsOfPairs ==
    ASSUME NEW P, P \subseteq Key \X Value, OneVersion(P)
    PROVE  /\ AsRows(P) \in Contents
           /\ \A k \in Key, v \in Value :
                 (k \in DOMAIN AsRows(P) /\ AsRows(P)[k] = v) <=> <<k, v>> \in P
<1>1. PICK K, f : K = {kv[1] : kv \in P} /\ f = AsRows(P)
  OBVIOUS
<1>2. DOMAIN f = K /\ \A k \in K : f[k] = CHOOSE v \in Value : <<k, v>> \in P
  BY <1>1 DEF AsRows
<1>3. ASSUME NEW k \in K PROVE k \in Key /\ \E v \in Value : <<k, v>> \in P
  <2>1. PICK kv \in P : k = kv[1]
    BY <1>1
  <2>2. kv = <<k, kv[2]>> /\ k \in Key /\ kv[2] \in Value
    BY <2>1
  <2> QED BY <2>2
<1>4. \A k \in K : f[k] \in Value /\ <<k, f[k]>> \in P
  BY <1>2, <1>3
<1>5. \A k \in Key, v \in Value : <<k, v>> \in P => k \in K
  BY <1>1
<1>6. \A k \in Key, v, w \in Value : <<k, v>> \in P /\ <<k, w>> \in P => v = w
  BY OneVersionShown
<1>7. f \in [K -> Value] /\ K \in SUBSET Key
  <2>1. f = [k \in K |-> f[k]]
    BY <1>1, <1>2 DEF AsRows
  <2> QED BY <1>3, <1>4, <2>1
<1>8. f \in Contents
  BY <1>7 DEF Contents
<1>9. ASSUME NEW k \in Key, NEW v \in Value
      PROVE  (k \in DOMAIN f /\ f[k] = v) <=> <<k, v>> \in P
  BY <1>2, <1>3, <1>4, <1>5, <1>6
<1> QED BY <1>1, <1>8, <1>9

\* Some files of a snapshot rewritten into one new file.
LEMMA RewrittenShows ==
    ASSUME NEW n \in Nat, NEW P, P \subseteq Key \X Value, OneVersion(P), NEW kept, NEW deletes,
           \A e \in deletes : e.seq \in 1..n, NEW k \in Key, NEW v \in Value
    PROVE  Shows(kept \cup DataFile(n + 1, AsRows(P)), deletes, k, v)
              <=> Shows(kept, deletes, k, v) \/ <<k, v>> \in P
<1>1. PICK D, f : D = DataFile(n + 1, f) /\ f = AsRows(P)
  OBVIOUS
<1>2. (k \in DOMAIN f /\ f[k] = v) <=> <<k, v>> \in P
  BY <1>1, RowsOfPairs
<1>3. \A d \in D : d.seq = n + 1 /\ d.rows = f
  BY <1>1 DEF DataFile
<1>4. k \in DOMAIN f => \E d \in D : d.seq = n + 1 /\ d.rows = f
  <2> SUFFICES ASSUME k \in DOMAIN f PROVE \E d \in D : d.seq = n + 1 /\ d.rows = f
    OBVIOUS
  <2>1. PICK d : d = [seq |-> n + 1, rows |-> f]
    OBVIOUS
  <2>2. d \in D /\ d.seq = n + 1 /\ d.rows = f
    BY <1>1, <2>1 DEF DataFile
  <2> QED BY <2>2
<1>5. \A e \in deletes : ~(e.seq > n + 1)
  OBVIOUS
<1>6. ASSUME Shows(kept \cup D, deletes, k, v) PROVE Shows(kept, deletes, k, v) \/ <<k, v>> \in P
  BY <1>2, <1>3, <1>6 DEF Shows
<1>7. ASSUME Shows(kept, deletes, k, v) PROVE Shows(kept \cup D, deletes, k, v)
  BY <1>7 DEF Shows
<1>8. ASSUME <<k, v>> \in P PROVE Shows(kept \cup D, deletes, k, v)
  BY <1>2, <1>4, <1>5, <1>8 DEF Shows
<1> QED BY <1>1, <1>6, <1>7, <1>8

\* A snapshot whose files were rewritten without a change to what it shows.
LEMMA RewrittenIsPublished ==
    ASSUME NEW n \in Nat, NEW md, Published(md, n), NEW P, P \subseteq Key \X Value, OneVersion(P),
           NEW kept \in SUBSET md.data, NEW deletes \in SUBSET md.deletes, NEW c,
           c = [seq |-> n + 1, watermark |-> md.watermark, deletes |-> deletes,
                data |-> kept \cup DataFile(n + 1, AsRows(P))],
           View(c) = View(md)
    PROVE  Published(c, n + 1)
<1>1. /\ md.watermark \in Nat /\ md.data \subseteq DataFiles /\ md.deletes \subseteq DeleteFiles
      /\ \A d \in md.data : d.seq \in 1..n
      /\ \A e \in md.deletes : e.seq \in 1..n
      /\ OneVersion(View(md))
  BY DEF Published, Snapshots
<1>2. PICK D, f : D = DataFile(n + 1, f) /\ f = AsRows(P)
  OBVIOUS
<1>3. f \in Contents
  BY <1>2, RowsOfPairs
<1>4. D \subseteq DataFiles /\ \A d \in D : d.seq = n + 1
  BY <1>2, <1>3 DEF DataFile, DataFiles
<1>5. c \in Snapshots /\ c.seq = n + 1
  BY <1>1, <1>2, <1>4 DEF Snapshots
<1>6. c.data = kept \cup D /\ c.deletes = deletes
  BY <1>2
<1>7. \A d \in c.data : d.seq \in 1 .. n + 1
  BY <1>1, <1>4, <1>6
<1>8. \A e \in c.deletes : e.seq \in 1 .. n + 1
  BY <1>1, <1>6
<1> QED BY <1>1, <1>5, <1>7, <1>8 DEF Published

LEMMA MajorIsSame ==
    ASSUME NEW n \in Nat, NEW md, Published(md, n), NEW c \in Major(md)
    PROVE  Published(c, n + 1) /\ View(c) = View(md) /\ c.watermark = md.watermark
<1>1. PICK P, f : P = View(md) /\ f = AsRows(P)
  OBVIOUS
<1>2. P \subseteq Key \X Value /\ OneVersion(P)
  BY <1>1, VisiblePairs DEF View, Published
<1>3. md.seq = n
  BY DEF Published
<1>4. c = [seq |-> n + 1, watermark |-> md.watermark, deletes |-> {},
           data |-> {} \cup DataFile(n + 1, AsRows(P))]
  BY <1>1, <1>3 DEF Major
<1>5. PICK D : D = {} \cup DataFile(n + 1, AsRows(P))
  OBVIOUS
<1>6. c.data = D /\ c.deletes = {}
  BY <1>4, <1>5
<1>7. ASSUME NEW k \in Key, NEW v \in Value PROVE <<k, v>> \in View(c) <=> <<k, v>> \in P
  <2>1. <<k, v>> \in View(c) <=> Shows(D, {}, k, v)
    BY <1>6, VisibleIsShown DEF View
  <2>2. Shows(D, {}, k, v) <=> Shows({}, {}, k, v) \/ <<k, v>> \in P
    BY <1>2, <1>5, RewrittenShows
  <2>3. ~Shows({}, {}, k, v)
    BY DEF Shows
  <2> QED BY <2>1, <2>2, <2>3
<1>8. View(c) \subseteq Key \X Value
  BY VisiblePairs DEF View
<1>9. View(c) = View(md)
  BY <1>1, <1>2, <1>7, <1>8, SamePairs
<1>10. {} \in SUBSET md.data /\ {} \in SUBSET md.deletes
  OBVIOUS
<1>11. Published(c, n + 1)
  BY <1>2, <1>4, <1>9, <1>10, RewrittenIsPublished
<1> QED BY <1>4, <1>9, <1>11

LEMMA MinorIsSame ==
    ASSUME NEW n \in Nat, NEW md, Published(md, n), NEW cohort \in SUBSET md.data, NEW c,
           c = Minor(md, cohort)
    PROVE  Published(c, n + 1) /\ View(c) = View(md) /\ c.watermark = md.watermark
<1>1. PICK P, kept : P = CohortRows(md, cohort) /\ kept = md.data \ cohort
  OBVIOUS
<1>2. ASSUME NEW k \in Key, NEW v \in Value
      PROVE  /\ <<k, v>> \in P <=> Shows(cohort, md.deletes, k, v)
             /\ <<k, v>> \in View(md) <=> Shows(md.data, md.deletes, k, v)
             /\ Shows(md.data, md.deletes, k, v)
                  <=> Shows(kept, md.deletes, k, v) \/ Shows(cohort, md.deletes, k, v)
  <2>1. /\ <<k, v>> \in P <=> Shows(cohort, md.deletes, k, v)
        /\ <<k, v>> \in View(md) <=> Shows(md.data, md.deletes, k, v)
    BY <1>1, VisibleIsShown DEF View, CohortRows
  <2>2. Shows(md.data, md.deletes, k, v)
          <=> Shows(kept, md.deletes, k, v) \/ Shows(cohort, md.deletes, k, v)
    BY <1>1 DEF Shows
  <2> QED BY <2>1, <2>2
<1>3. P \subseteq Key \X Value /\ View(md) \subseteq Key \X Value
  BY <1>1, VisiblePairs DEF View, CohortRows
<1>4. OneVersion(P)
  <2>1. \A k \in Key, v, w \in Value : <<k, v>> \in View(md) /\ <<k, w>> \in View(md) => v = w
    BY <1>3, OneVersionShown DEF Published
  <2>2. \A k \in Key, v, w \in Value : <<k, v>> \in P /\ <<k, w>> \in P => v = w
    BY <1>2, <2>1
  <2> QED BY <1>3, <2>2, OneVersionShown
<1>5. md.seq = n /\ \A e \in md.deletes : e.seq \in 1..n
  BY DEF Published
<1>6. c = [seq |-> n + 1, watermark |-> md.watermark, deletes |-> md.deletes,
           data |-> kept \cup DataFile(n + 1, AsRows(P))]
  BY <1>1, <1>5 DEF Minor
<1>7. PICK D : D = kept \cup DataFile(n + 1, AsRows(P))
  OBVIOUS
<1>8. c.data = D /\ c.deletes = md.deletes
  BY <1>6, <1>7
<1>9. ASSUME NEW k \in Key, NEW v \in Value PROVE <<k, v>> \in View(c) <=> <<k, v>> \in View(md)
  <2>1. <<k, v>> \in View(c) <=> Shows(D, md.deletes, k, v)
    BY <1>8, VisibleIsShown DEF View
  <2>2. Shows(D, md.deletes, k, v) <=> Shows(kept, md.deletes, k, v) \/ <<k, v>> \in P
    BY <1>3, <1>4, <1>5, <1>7, RewrittenShows
  <2> QED BY <1>2, <2>1, <2>2
<1>10. View(c) \subseteq Key \X Value
  BY VisiblePairs DEF View
<1>11. View(c) = View(md)
  BY <1>3, <1>9, <1>10, SamePairs
<1>12. kept \in SUBSET md.data /\ md.deletes \in SUBSET md.deletes
  BY <1>1
<1>13. Published(c, n + 1)
  BY <1>3, <1>4, <1>6, <1>11, <1>12, RewrittenIsPublished
<1> QED BY <1>6, <1>11, <1>13

\* A compaction, of whichever kind, changes nothing a reader sees.
LEMMA CompactedIsSame ==
    ASSUME NEW n \in Nat, NEW md, Published(md, n), NEW c \in Compacted(md)
    PROVE  Published(c, n + 1) /\ View(c) = View(md) /\ c.watermark = md.watermark
<1>1. CASE c \in Major(md)
  BY <1>1, MajorIsSame
<1>2. CASE \E cohort \in SUBSET md.data : c = Minor(md, cohort)
  BY <1>2, MinorIsSame
<1> QED BY <1>1, <1>2 DEF Compacted

-----------------------------------------------------------------------------
(* 3. The invariant.                                                       *)

Entries == [table : Table, key : Key, row : Value \cup {Absent}]

\* The sequences of a log that are about row k of t, and what the last of them says.
Seqs(L, t, k) == {s \in DOMAIN L : L[s].table = t /\ L[s].key = k}
Covered(L, t, k) == Seqs(L, t, k) # {}
LastRow(L, t, k) == L[Max(Seqs(L, t, k))].row

LogOK(L) ==
    /\ IsFiniteSet(DOMAIN L) /\ DOMAIN L \subseteq Nat \ {0}
    /\ \A s \in DOMAIN L : L[s] \in Entries

\* A snapshot on its way: to its file, and then to the pointer.  Another task may
\* have written the file of the same version since.
Staged(j) == j.at \in {"metadata", "hint"}
StagedIn(j, files) ==
    /\ j.table \in Table /\ j.version \in 1..MaxVersion
    /\ Published(j.md, j.version)
    /\ j.at = "hint" => Published(files[j.table][j.version], j.version)
StagedOK(j) == StagedIn(j, metadata)

ClientShape == client \in [Client -> {Ready} \cup [at : {"write"}, seq : Nat, entry : Entries]]

SealShape ==
    \/ seal = Asleep
    \/ /\ LogOK(seal.entries) /\ seal.watermark \in Nat /\ seal.todo \subseteq Table
       /\ \/ /\ seal.at \in {"tables", "mark"}
             /\ seal = [at |-> seal.at, entries |-> seal.entries, watermark |-> seal.watermark,
                        todo |-> seal.todo]
          \/ /\ Staged(seal) /\ StagedOK(seal)
             /\ seal = [at |-> seal.at, entries |-> seal.entries, watermark |-> seal.watermark,
                        todo |-> seal.todo, table |-> seal.table, version |-> seal.version,
                        md |-> seal.md]

CompactShape ==
    \/ compact = Asleep
    \/ /\ compact = [at |-> compact.at, table |-> compact.table, version |-> compact.version,
                     md |-> compact.md]
       /\ Staged(compact) /\ StagedOK(compact)

Directives == [kind : {"table"}, table : Table, on : BOOLEAN] \cup [kind : {"default"}, on : BOOLEAN]

PragmaShape ==
    \/ pragma \in {Idle, [at |-> "mark"]}
    \/ /\ pragma.at \in {"apply", "flags", "persist"} /\ pragma.directive \in Directives
       /\ pragma = [at |-> pragma.at, directive |-> pragma.directive]
    \/ /\ pragma.at = "scan" /\ pragma.table \in Table
       /\ pragma = [at |-> "scan", table |-> pragma.table]
    \/ /\ pragma.at = "load" /\ pragma.table \in Table /\ pragma.rows \in Contents
       /\ pragma = [at |-> "load", table |-> pragma.table, rows |-> pragma.rows]
    \/ /\ Staged(pragma) /\ StagedOK(pragma)
       /\ pragma = [at |-> pragma.at, table |-> pragma.table, version |-> pragma.version,
                    md |-> pragma.md, behind |-> pragma.behind]

StoreOK == rows \in [Table -> [Key -> Value \cup {Absent}]] /\ LogOK(log)

CountersOK ==
    /\ cdc_seq \in {Unseeded} \cup Nat /\ commit_seq \in Nat
    /\ seal_signal \in BOOLEAN /\ left \in Allowance

Registries == [default_on : BOOLEAN, tables : [Table -> {"on", "off", "none"}]]
FlagTypes ==
    /\ cdc \in [default : BOOLEAN, overrides : SUBSET Table]
    /\ state \in Registries /\ registry \in Registries

SnapshotsOK ==
    /\ hint \in [Table -> 0..MaxVersion]
    /\ metadata \in [Table -> [0..MaxVersion -> Snapshots]]
    /\ \A t \in Table : Published(Current(t), hint[t])

ShapeInv ==
    /\ StoreOK /\ CountersOK /\ FlagTypes /\ SnapshotsOK
    /\ ClientShape /\ SealShape /\ CompactShape /\ PragmaShape

-----------------------------------------------------------------------------
(* 4. The schedules on which the mirror is complete, and what it knows of  *)
(*    the tables then.                                                     *)

\* The table a PRAGMA is switching on, once its flag is set.
Backfilling == pragma.at \in {"scan", "load", "metadata", "hint"}
Backfilled(t) ==
    \/ Backfilling /\ pragma.table = t
    \/ /\ pragma.at = "persist" /\ pragma.directive.kind = "table"
       /\ pragma.directive.table = t /\ pragma.directive.on

\* A commit under way that has taken a sequence.
Logging(c) == client[c] # Ready /\ client[c].seq > 0

\* The two loops run side by side, with each other and with the commits and the
\* PRAGMAs; what they may not do is to publish the same table at the same time ...
PublishApart == ~(Staged(seal) /\ Staged(compact) /\ seal.table = compact.table)

\* ... nor to be at work while a PRAGMA backfills.
BackfillsAlone == Backfilling => seal = Asleep /\ compact = Asleep

\* A commit that asked for the flag of a table before it was set is through.
FlagSeen ==
    \A c \in Client : client[c] # Ready /\ Backfilled(client[c].entry.table) => client[c].seq > 0

\* Commits run side by side and are written in any order, but none is written with a
\* sequence that a seal or a backfill which scanned the log before it takes for done.
LandInOrder ==
    \A c \in Client : Logging(c) =>
        /\ seal # Asleep => client[c].seq > seal.watermark
        /\ Staged(pragma) => client[c].seq > pragma.md.watermark

Orderly == PublishApart /\ BackfillsAlone /\ FlagSeen /\ LandInOrder

\* What a snapshot that shows V and the log L say of a row of R is true ...
Agrees(V, L, R, t, k) ==
    IF Covered(L, t, k) THEN LastRow(L, t, k) = R[t][k]
    ELSE \A v \in Value : <<k, v>> \in V => R[t][k] = v

\* ... and they say it, if there is a row.
Holds(V, L, R, t, k) == ~Covered(L, t, k) /\ R[t][k] \in Value => <<k, R[t][k]>> \in V

\* Of the tables in M rows may be missing.
Mirrored(V, L, R, M, t) ==
    \A k \in Key : Agrees(V, L, R, t, k) /\ (t \notin M => Holds(V, L, R, t, k))

LogMirrors == \A t \in Table \ diverged : Mirrored(View(Current(t)), log, rows, missing, t)

\* The log up to w, and behind it.
UpTo(L, w) == [s \in {s \in DOMAIN L : s <= w} |-> L[s]]
Tail(L, w) == [s \in {s \in DOMAIN L : s > w} |-> L[s]]

\* The tables a seal is done with no longer need what it will collect.
SealMirrors ==
    seal # Asleep =>
        \A t \in Table \ (diverged \cup seal.todo) :
            Mirrored(View(Current(t)), Tail(log, seal.watermark), rows, missing, t)

\* A sequence in use is new, and above all that were written for its row; no two
\* commits under way share a sequence or a row.
Fresh(c) ==
    LET q == client[c].seq
        e == client[c].entry
    IN  /\ q <= cdc_seq /\ q \notin DOMAIN log
        /\ \A s \in Seqs(log, e.table, e.key) : s < q
Apart(c, d) ==
    /\ client[c].seq > 0 => client[c].seq # client[d].seq
    /\ ~(client[c].entry.table = client[d].entry.table /\ client[c].entry.key = client[d].entry.key)
Sequenced ==
    /\ \A c \in Client : Logging(c) => Fresh(c)
    /\ \A c, d \in Client : c # d /\ client[c] # Ready /\ client[d] # Ready => Apart(c, d)
    /\ cdc_seq # Unseeded => \A s \in DOMAIN log : s <= cdc_seq

\* What a seal scanned is the log up to its watermark, which is still there.
ScanStands ==
    /\ seal # Asleep =>
         /\ seal.watermark \in DOMAIN log
         /\ seal.entries = UpTo(log, seal.watermark)
    /\ Staged(seal) =>
         /\ seal.table \in seal.todo
         /\ seal.md = Sealed(Current(seal.table), collapse_lww(seal.entries, seal.table),
                             seal.watermark)

CompactionKeeps ==
    Staged(compact) =>
        /\ View(compact.md) = View(Current(compact.table))
        /\ compact.md.watermark = Current(compact.table).watermark

\* What is staged is the next version, and its file is what was staged.
NextIn(j, files, hints) ==
    /\ j.version = hints[j.table] + 1
    /\ j.at = "hint" => files[j.table][j.version] = j.md
NextVersion(j) == Staged(j) => NextIn(j, metadata, hint)
NextVersions == NextVersion(seal) /\ NextVersion(compact) /\ NextVersion(pragma)

\* Once a PRAGMA has set a table's flag its commits write to the log, and what the
\* backfill read of a row is true unless the log says more.
BackfillStands ==
    /\ \A t \in Table : Backfilled(t) => is_enabled(t)
    /\ pragma.at = "load" => \A k \in Key : ~Covered(log, pragma.table, k) =>
         /\ k \in DOMAIN pragma.rows <=> rows[pragma.table][k] # Absent
         /\ k \in DOMAIN pragma.rows => pragma.rows[k] = rows[pragma.table][k]
    /\ Staged(pragma) /\ pragma.table \notin diverged =>
         \A k \in Key : ~Covered(log, pragma.table, k) =>
            \A v \in Value : <<k, v>> \in View(pragma.md) <=> rows[pragma.table][k] = v

FlagsOK ==
    /\ "index" \in unsaved \/ indexed \/ registry = NoRegistry
    /\ opened => indexed \/ "index" \in unsaved
    /\ pragma # Idle => opened
    /\ ~opened => ~indexed /\ state = NoRegistry
    /\ opened /\ "flags" \notin unsaved /\ pragma.at \notin {"flags", "persist"} => state = registry
    /\ pragma.at # "flags" => cdc = Restored(state)
    /\ pragma.at = "flags" => pragma.directive.kind = "default"

\* The property in the reading that the code keeps.
AsKept == ~AsDocumented /\ "save" \notin Unguarded

NothingLost ==
    /\ ShapeInv /\ Orderly /\ AsKept
    /\ LogMirrors /\ SealMirrors /\ Sequenced /\ ScanStands
    /\ CompactionKeeps /\ NextVersions /\ BackfillStands /\ FlagsOK

-----------------------------------------------------------------------------
(* 5. The log.                                                             *)

LEMMA LastOfRow ==
    ASSUME NEW L, LogOK(L), NEW t, NEW k, Covered(L, t, k)
    PROVE  /\ Max(Seqs(L, t, k)) \in Seqs(L, t, k)
           /\ \A s \in Seqs(L, t, k) : s <= Max(Seqs(L, t, k))
           /\ LastRow(L, t, k) \in Value \cup {Absent}
<1>1. Seqs(L, t, k) \subseteq DOMAIN L /\ Seqs(L, t, k) # {}
  BY DEF Seqs, Covered
<1>2. IsFiniteSet(Seqs(L, t, k)) /\ Seqs(L, t, k) \subseteq Int
  BY <1>1, FS_Subset DEF LogOK
<1>3. /\ Max(Seqs(L, t, k)) \in Seqs(L, t, k)
      /\ \A s \in Seqs(L, t, k) : s <= Max(Seqs(L, t, k))
  BY <1>1, <1>2, MaxIsGreatest
<1>4. Max(Seqs(L, t, k)) \in DOMAIN L
  BY <1>1, <1>3
<1>5. L[Max(Seqs(L, t, k))] \in Entries
  BY <1>4 DEF LogOK
<1> QED BY <1>3, <1>5 DEF LastRow, Entries

\* The last entry is the one all others are below.
LEMMA LastRowIs ==
    ASSUME NEW L, LogOK(L), NEW t, NEW k, NEW s \in Seqs(L, t, k),
           \A r \in Seqs(L, t, k) : r <= s
    PROVE  Covered(L, t, k) /\ LastRow(L, t, k) = L[s].row
<1>1. Covered(L, t, k)
  BY DEF Covered
<1>2. /\ Max(Seqs(L, t, k)) \in Seqs(L, t, k)
      /\ \A r \in Seqs(L, t, k) : r <= Max(Seqs(L, t, k))
  BY <1>1, LastOfRow
<1>3. Seqs(L, t, k) \subseteq Nat
  BY DEF Seqs, LogOK
<1>4. s <= Max(Seqs(L, t, k)) /\ Max(Seqs(L, t, k)) <= s
  BY <1>2
<1>5. s = Max(Seqs(L, t, k))
  BY <1>2, <1>3, <1>4
<1> QED BY <1>1, <1>5 DEF LastRow

LEMMA CollapsedLog ==
    ASSUME NEW L, LogOK(L), NEW t, NEW ch, ch = collapse_lww(L, t)
    PROVE  /\ ch \in Changed
           /\ \A k \in Key : k \in DOMAIN ch <=> Covered(L, t, k)
           /\ \A k \in DOMAIN ch : k \in Key /\ ch[k] = LastRow(L, t, k)
<1>1. PICK K : K = {k \in Key : Covered(L, t, k)}
  OBVIOUS
<1>2. ch = [k \in K |-> LastRow(L, t, k)]
  BY <1>1 DEF collapse_lww, Covered, LastRow, Seqs
<1>3. \A k \in K : LastRow(L, t, k) \in Value \cup {Absent}
  BY <1>1, LastOfRow
<1>4. ch \in [K -> Value \cup {Absent}] /\ K \in SUBSET Key
  BY <1>1, <1>2, <1>3
<1>5. ch \in Changed
  BY <1>4 DEF Changed
<1> QED BY <1>1, <1>2, <1>5

\* The log with one more entry.
With(L, q, e) == [s \in DOMAIN L \cup {q} |-> IF s = q THEN e ELSE L[s]]

\* An entry above all others of its row is the last of its row.
LEMMA LogGrows ==
    ASSUME NEW L, LogOK(L), NEW q \in Nat \ {0}, q \notin DOMAIN L, NEW e \in Entries,
           \A s \in Seqs(L, e.table, e.key) : s < q, NEW M, M = With(L, q, e)
    PROVE  /\ LogOK(M)
           /\ Covered(M, e.table, e.key) /\ LastRow(M, e.table, e.key) = e.row
           /\ \A t, k : ~(t = e.table /\ k = e.key) =>
                 /\ Seqs(M, t, k) = Seqs(L, t, k)
                 /\ Covered(M, t, k) <=> Covered(L, t, k)
                 /\ Covered(L, t, k) => LastRow(M, t, k) = LastRow(L, t, k)
<1>1. DOMAIN M = DOMAIN L \cup {q} /\ M[q] = e /\ q \notin DOMAIN L
  BY DEF LogOK, With
<1>2. \A s \in DOMAIN L : M[s] = L[s]
  BY <1>1 DEF With
<1>3. LogOK(M)
  <2>1. IsFiniteSet(DOMAIN M)
    BY <1>1, FS_AddElement DEF LogOK
  <2>2. DOMAIN M \subseteq Nat \ {0}
    BY <1>1 DEF LogOK
  <2>3. \A s \in DOMAIN M : M[s] \in Entries
    BY <1>1, <1>2 DEF LogOK
  <2> QED BY <2>1, <2>2, <2>3 DEF LogOK
<1>4. q \in Seqs(M, e.table, e.key) /\ \A s \in Seqs(M, e.table, e.key) : s <= q
  <2>1. q \in Seqs(M, e.table, e.key)
    BY <1>1 DEF Seqs
  <2>2. ASSUME NEW s \in Seqs(M, e.table, e.key) PROVE s <= q
    <3>1. s = q \/ s \in Seqs(L, e.table, e.key)
      BY <1>1, <1>2 DEF Seqs
    <3>2. s \in Nat
      BY <1>3 DEF Seqs, LogOK
    <3> QED BY <3>1, <3>2
  <2> QED BY <2>1, <2>2
<1>5. Covered(M, e.table, e.key) /\ LastRow(M, e.table, e.key) = e.row
  <2>1. PICK t, k : t = e.table /\ k = e.key
    OBVIOUS
  <2>2. q \in Seqs(M, t, k) /\ \A s \in Seqs(M, t, k) : s <= q
    BY <1>4, <2>1
  <2>3. Covered(M, t, k) /\ LastRow(M, t, k) = M[q].row
    BY <1>3, <2>2, LastRowIs
  <2> QED BY <1>1, <2>1, <2>3
<1>6. ASSUME NEW t, NEW k, ~(t = e.table /\ k = e.key)
      PROVE  /\ Seqs(M, t, k) = Seqs(L, t, k)
             /\ Covered(M, t, k) <=> Covered(L, t, k)
             /\ Covered(L, t, k) => LastRow(M, t, k) = LastRow(L, t, k)
  <2>1. ~(e.table = t /\ e.key = k)
    BY <1>6
  <2>2. Seqs(M, t, k) = Seqs(L, t, k)
    BY <1>1, <1>2, <2>1 DEF Seqs
  <2>3. Covered(L, t, k) => Max(Seqs(L, t, k)) \in DOMAIN L
    BY LastOfRow DEF Seqs
  <2> QED BY <1>2, <2>2, <2>3 DEF Covered, LastRow
<1> QED BY <1>3, <1>5, <1>6

\* A log cut at w: the entries up to it and the tail behind it.
LEMMA LogCut ==
    ASSUME NEW L, LogOK(L), NEW w \in Nat, NEW E, NEW T,
           E = UpTo(L, w), T = Tail(L, w)
    PROVE  /\ LogOK(E) /\ LogOK(T)
           /\ \A t, k :
                 /\ Covered(L, t, k) <=> Covered(E, t, k) \/ Covered(T, t, k)
                 /\ Covered(T, t, k) => LastRow(T, t, k) = LastRow(L, t, k)
                 /\ Covered(E, t, k) /\ ~Covered(T, t, k) => LastRow(E, t, k) = LastRow(L, t, k)
<1>1. /\ DOMAIN E = {s \in DOMAIN L : s <= w} /\ DOMAIN T = {s \in DOMAIN L : s > w}
      /\ \A s \in DOMAIN E : E[s] = L[s]
      /\ \A s \in DOMAIN T : T[s] = L[s]
  BY DEF UpTo, Tail
<1>2. LogOK(E)
  <2>1. IsFiniteSet(DOMAIN E)
    BY <1>1, FS_Subset DEF LogOK
  <2> QED BY <1>1, <2>1 DEF LogOK
<1>3. LogOK(T)
  <2>1. IsFiniteSet(DOMAIN T)
    BY <1>1, FS_Subset DEF LogOK
  <2> QED BY <1>1, <2>1 DEF LogOK
<1>4. ASSUME NEW t, NEW k
      PROVE  /\ Covered(L, t, k) <=> Covered(E, t, k) \/ Covered(T, t, k)
             /\ Covered(T, t, k) => LastRow(T, t, k) = LastRow(L, t, k)
             /\ Covered(E, t, k) /\ ~Covered(T, t, k) => LastRow(E, t, k) = LastRow(L, t, k)
  <2>1. Seqs(E, t, k) = {s \in Seqs(L, t, k) : s <= w}
    BY <1>1 DEF Seqs
  <2>2. Seqs(T, t, k) = {s \in Seqs(L, t, k) : s > w}
    BY <1>1 DEF Seqs
  <2>3. Seqs(L, t, k) \subseteq Nat
    BY DEF Seqs, LogOK
  <2>4. Covered(L, t, k) <=> Covered(E, t, k) \/ Covered(T, t, k)
    BY <2>1, <2>2, <2>3 DEF Covered
  <2>5. ASSUME Covered(T, t, k) PROVE LastRow(T, t, k) = LastRow(L, t, k)
    <3>1. PICK s : s = Max(Seqs(T, t, k))
      OBVIOUS
    <3>2. s \in Seqs(T, t, k) /\ \A r \in Seqs(T, t, k) : r <= s
      BY <1>3, <2>5, <3>1, LastOfRow
    <3>3. s \in Seqs(L, t, k) /\ \A r \in Seqs(L, t, k) : r <= s
      BY <2>2, <2>3, <3>2
    <3>4. LastRow(L, t, k) = L[s].row
      BY <3>3, LastRowIs
    <3>5. LastRow(T, t, k) = T[s].row /\ s \in DOMAIN T
      BY <3>1, <3>2 DEF LastRow, Seqs
    <3> QED BY <1>1, <3>4, <3>5
  <2>6. ASSUME Covered(E, t, k), ~Covered(T, t, k) PROVE LastRow(E, t, k) = LastRow(L, t, k)
    <3>1. PICK s : s = Max(Seqs(E, t, k))
      OBVIOUS
    <3>2. s \in Seqs(E, t, k) /\ \A r \in Seqs(E, t, k) : r <= s
      BY <1>2, <2>6, <3>1, LastOfRow
    <3>3. Seqs(L, t, k) = Seqs(E, t, k)
      BY <2>1, <2>2, <2>3, <2>6 DEF Covered
    <3>4. LastRow(L, t, k) = L[s].row
      BY <3>2, <3>3, LastRowIs
    <3>5. LastRow(E, t, k) = E[s].row /\ s \in DOMAIN E
      BY <3>1, <3>2 DEF LastRow, Seqs
    <3> QED BY <1>1, <3>4, <3>5
  <2> QED BY <2>4, <2>5, <2>6
<1> QED BY <1>2, <1>3, <1>4

\* Parts of a log that has grown.
LEMMA TailGrows ==
    ASSUME NEW L, LogOK(L), NEW q \in Nat, q \notin DOMAIN L, NEW e,
           NEW M, M = With(L, q, e), NEW w \in Nat, w < q
    PROVE  Tail(M, w) = With(Tail(L, w), q, e) /\ UpTo(M, w) = UpTo(L, w)
<1>1. DOMAIN L \subseteq Nat
  BY DEF LogOK
<1>2. /\ DOMAIN M = DOMAIN L \cup {q} /\ M[q] = e
      /\ \A s \in DOMAIN L : M[s] = L[s]
  BY <1>1 DEF With
<1>3. {s \in DOMAIN M : s > w} = {s \in DOMAIN L : s > w} \cup {q}
  BY <1>1, <1>2
<1>4. {s \in DOMAIN M : s <= w} = {s \in DOMAIN L : s <= w}
  BY <1>1, <1>2
<1>5. UpTo(M, w) = UpTo(L, w)
  BY <1>2, <1>4 DEF UpTo
<1>6. /\ DOMAIN Tail(L, w) = {s \in DOMAIN L : s > w}
      /\ \A s \in DOMAIN Tail(L, w) : Tail(L, w)[s] = L[s]
  BY DEF Tail
<1>7. \A s \in {s \in DOMAIN L : s > w} \cup {q} : M[s] = IF s = q THEN e ELSE Tail(L, w)[s]
  BY <1>2, <1>6
<1>8. Tail(M, w) = With(Tail(L, w), q, e)
  BY <1>3, <1>6, <1>7 DEF Tail, With
<1> QED BY <1>5, <1>8

-----------------------------------------------------------------------------
(* 6. The shape is kept.                                                   *)

LEMMA ShapeGivesTypes == ShapeInv => TypeOK
<1> SUFFICES ASSUME ShapeInv PROVE TypeOK
  OBVIOUS
<1>1. \A t \in Table : Current(t).seq = hint[t] /\ Current(t).watermark \in Nat
  BY DEF ShapeInv, SnapshotsOK, Published, Snapshots
<1>2. /\ rows \in [Table -> [Key -> Value \cup {Absent}]] /\ DOMAIN log \subseteq Nat \ {0}
      /\ \A s \in DOMAIN log : log[s] \in [table : Table, key : Key, row : Value \cup {Absent}]
  BY DEF ShapeInv, StoreOK, LogOK, Entries
<1>3. {state, registry} \subseteq [default_on : BOOLEAN, tables : [Table -> {"on", "off", "none"}]]
  BY DEF ShapeInv, FlagTypes, Registries
<1> QED BY <1>1, <1>2, <1>3 DEF ShapeInv, CountersOK, FlagTypes, SnapshotsOK, TypeOK

LEMMA NothingPublished == Published(NoSnapshot, 0) /\ View(NoSnapshot) = {}
<1>1. View(NoSnapshot) = {}
  BY DEF View, Visible, NoSnapshot
<1>2. NoSnapshot \in Snapshots
  BY DEF NoSnapshot, Snapshots
<1> QED BY <1>1, <1>2 DEF Published, NoSnapshot, OneVersion

LEMMA RestoredFlags ==
    ASSUME NEW r \in Registries
    PROVE  Restored(r) \in [default : BOOLEAN, overrides : SUBSET Table]
BY DEF Restored, Registries

LEMMA ShapeInit == Init => ShapeInv
<1> SUFFICES ASSUME Init PROVE ShapeInv
  OBVIOUS
<1>1. StoreOK
  <2>1. rows \in [Table -> [Key -> Value \cup {Absent}]]
    BY DEF Init
  <2>2. DOMAIN log = {}
    BY DEF Init
  <2> QED BY <2>1, <2>2, FS_EmptySet DEF StoreOK, LogOK
<1>2. CountersOK
  BY MirrorAssumption DEF Init, CountersOK
<1>3. FlagTypes
  <2>1. registry \in Registries
    <3>1. PICK on \in {TRUE} \cup {left.pragmas = 0} :
             registry = [NoRegistry EXCEPT !.tables = [t \in Table |-> IF on THEN "on" ELSE "none"]]
      BY Zenon DEF Init
    <3>2. PICK f : f = [t \in Table |-> IF on THEN "on" ELSE "none"]
      OBVIOUS
    <3>3. registry = [default_on |-> FALSE, tables |-> f]
      BY <3>1, <3>2 DEF NoRegistry
    <3>4. f \in [Table -> {"on", "off", "none"}]
      BY <3>2
    <3> QED BY <3>3, <3>4 DEF Registries
  <2>2. state = registry /\ cdc = Restored(registry)
    BY DEF Init
  <2> QED BY <2>1, <2>2, RestoredFlags DEF FlagTypes
<1>4. SnapshotsOK
  <2>1. /\ metadata = [t \in Table |-> [v \in 0..MaxVersion |-> NoSnapshot]]
        /\ hint = [t \in Table |-> 0]
    BY DEF Init
  <2>2. 0 \in 0..MaxVersion
    BY MirrorAssumption
  <2>3. NoSnapshot \in Snapshots
    BY NothingPublished DEF Published
  <2> QED BY <2>1, <2>2, <2>3, NothingPublished DEF SnapshotsOK, Current
<1>5. ClientShape /\ SealShape /\ CompactShape /\ PragmaShape
  BY DEF Init, ClientShape, SealShape, CompactShape, PragmaShape
<1> QED BY <1>1, <1>2, <1>3, <1>4, <1>5 DEF ShapeInv

\* A step that publishes nothing.
LEMMA NothingMoves ==
    ASSUME ShapeInv, UNCHANGED iceberg
    PROVE  /\ SnapshotsOK' /\ \A t \in Table : Current(t)' = Current(t)
           /\ seal' = seal => SealShape'
           /\ compact' = compact => CompactShape'
           /\ pragma' = pragma => PragmaShape'
BY DEF ShapeInv, SnapshotsOK, StagedOK, StagedIn, Staged, SealShape, CompactShape, PragmaShape,
       iceberg, Current

\* A task whose snapshot stays good.
LEMMA TasksStand ==
    ASSUME ShapeInv,
           \A j \in {seal, compact, pragma} : Staged(j) /\ StagedIn(j, metadata) => StagedIn(j, metadata')
    PROVE  /\ seal' = seal => SealShape'
           /\ compact' = compact => CompactShape'
           /\ pragma' = pragma => PragmaShape'
<1>1. ASSUME seal' = seal PROVE SealShape'
  BY <1>1 DEF ShapeInv, SealShape, Staged, StagedOK
<1>2. ASSUME compact' = compact PROVE CompactShape'
  BY <1>2 DEF ShapeInv, CompactShape, Staged, StagedOK
<1>3. ASSUME pragma' = pragma PROVE PragmaShape'
  BY <1>3 DEF ShapeInv, PragmaShape, Staged, StagedOK
<1> QED BY <1>1, <1>2, <1>3

\* The versioned file is written, perhaps over the one another task has put there.
LEMMA MetadataPut ==
    ASSUME ShapeInv, NEW j, StagedOK(j),
           metadata' = [metadata EXCEPT ![j.table][j.version] = j.md], hint' = hint
    PROVE  /\ SnapshotsOK' /\ metadata'[j.table][j.version] = j.md
           /\ \A i : StagedIn(i, metadata) => StagedIn(i, metadata')
           /\ hint[j.table] # j.version => \A t \in Table : Current(t)' = Current(t)
           /\ \A t \in Table : t # j.table => metadata'[t] = metadata[t]
<1>1. /\ j.table \in Table /\ j.version \in 1..MaxVersion /\ j.version \in 0..MaxVersion
      /\ j.md \in Snapshots /\ Published(j.md, j.version)
  BY MirrorAssumption DEF StagedOK, StagedIn, Published
<1>2. /\ metadata \in [Table -> [0..MaxVersion -> Snapshots]]
      /\ hint \in [Table -> 0..MaxVersion]
  BY DEF ShapeInv, SnapshotsOK
<1>3. metadata' \in [Table -> [0..MaxVersion -> Snapshots]] /\ metadata'[j.table][j.version] = j.md
  BY <1>1, <1>2
<1>4. ASSUME NEW t \in Table, NEW v \in 0..MaxVersion
      PROVE  metadata'[t][v] = IF t = j.table /\ v = j.version THEN j.md ELSE metadata[t][v]
  BY <1>1, <1>2
<1>5. ASSUME NEW t \in Table, NEW v \in 0..MaxVersion, Published(metadata[t][v], v)
      PROVE  Published(metadata'[t][v], v)
  BY <1>1, <1>4, <1>5
<1>6. \A t \in Table : Published(metadata'[t][hint'[t]], hint'[t])
  BY <1>2, <1>5 DEF ShapeInv, SnapshotsOK, Current
<1>7. SnapshotsOK'
  BY <1>2, <1>3, <1>6 DEF SnapshotsOK, Current
<1>8. ASSUME NEW i, StagedIn(i, metadata) PROVE StagedIn(i, metadata')
  <2>1. i.table \in Table /\ i.version \in 0..MaxVersion
    BY <1>8, MirrorAssumption DEF StagedIn
  <2> QED BY <1>5, <1>8, <2>1 DEF StagedIn
<1>9. ASSUME hint[j.table] # j.version, NEW t \in Table PROVE Current(t)' = Current(t)
  <2>1. hint[t] \in 0..MaxVersion /\ ~(t = j.table /\ hint[t] = j.version)
    BY <1>2, <1>9
  <2> QED BY <1>4, <2>1 DEF Current
<1>10. \A t \in Table : t # j.table => metadata'[t] = metadata[t]
  BY <1>2
<1> QED BY <1>3, <1>7, <1>8, <1>9, <1>10

\* The versions that a task under way will point to.
LEMMA InFlightVersion ==
    ASSUME NEW j \in {seal, compact, pragma}, Staged(j)
    PROVE  j.version \in InFlight(j.table)
BY Zenon DEF InFlight, Staged

\* The pointer is moved: what is in the file is the current snapshot.
LEMMA HintPut ==
    ASSUME ShapeInv, NEW j \in {seal, compact, pragma}, StagedOK(j), PutHint(j)
    PROVE  /\ SnapshotsOK' /\ Current(j.table)' = metadata[j.table][j.version]
           /\ \A t \in Table \ {j.table} : Current(t)' = Current(t) /\ metadata'[t] = metadata[t]
           /\ hint' = [hint EXCEPT ![j.table] = j.version]
           /\ \A i \in {seal, compact, pragma} :
                Staged(i) /\ StagedIn(i, metadata) => StagedIn(i, metadata')
<1>1. /\ j.table \in Table /\ j.version \in 1..MaxVersion /\ j.version \in 0..MaxVersion
      /\ Published(metadata[j.table][j.version], j.version) /\ Staged(j)
  BY MirrorAssumption DEF StagedOK, StagedIn, PutHint, Staged
<1>2. /\ metadata \in [Table -> [0..MaxVersion -> Snapshots]]
      /\ hint \in [Table -> 0..MaxVersion]
  BY DEF ShapeInv, SnapshotsOK
<1>3. PICK W : W = InFlight(j.table)
  OBVIOUS
<1>4. PICK f : f = [v \in 0..MaxVersion |->
                      IF \A w \in W : v < w THEN NoSnapshot ELSE metadata[j.table][v]]
  OBVIOUS
<1>5. metadata' = [metadata EXCEPT ![j.table] = f] /\ hint' = [hint EXCEPT ![j.table] = j.version]
  BY <1>1, <1>2, <1>3, <1>4 DEF PutHint
<1>6. ASSUME NEW v \in W, v \in 0..MaxVersion PROVE f[v] = metadata[j.table][v]
  <2>1. ~(v < v)
    BY <1>6
  <2>2. ~(\A w \in W : v < w)
    BY <1>6, <2>1
  <2> QED BY <1>4, <1>6, <2>2
<1>7. f \in [0..MaxVersion -> Snapshots]
  <2>1. NoSnapshot \in Snapshots
    BY NothingPublished DEF Published
  <2>2. \A v \in 0..MaxVersion : metadata[j.table][v] \in Snapshots
    BY <1>1, <1>2
  <2> QED BY <1>4, <2>1, <2>2
<1>8. f[j.version] = metadata[j.table][j.version]
  BY <1>1, <1>3, <1>6, InFlightVersion
<1>9. /\ metadata' \in [Table -> [0..MaxVersion -> Snapshots]]
      /\ hint' \in [Table -> 0..MaxVersion]
  BY <1>1, <1>2, <1>5, <1>7
<1>10. metadata'[j.table] = f /\ hint'[j.table] = j.version
  BY <1>1, <1>2, <1>5
<1>11. Current(j.table)' = metadata[j.table][j.version]
  BY <1>8, <1>10 DEF Current
<1>12. ASSUME NEW t \in Table \ {j.table}
       PROVE  metadata'[t] = metadata[t] /\ hint'[t] = hint[t] /\ Current(t)' = Current(t)
  BY <1>2, <1>5 DEF Current
<1>13. ASSUME NEW t \in Table PROVE Published(Current(t), hint[t])'
  <2>1. CASE t = j.table
    BY <1>1, <1>10, <1>11, <2>1
  <2>2. CASE t # j.table
    BY <1>12, <2>2 DEF ShapeInv, SnapshotsOK
  <2> QED BY <2>1, <2>2
<1>14. ASSUME NEW i \in {seal, compact, pragma}, Staged(i), StagedIn(i, metadata)
       PROVE  StagedIn(i, metadata')
  <2>1. i.table \in Table /\ i.version \in 0..MaxVersion
    BY <1>14, MirrorAssumption DEF StagedIn
  <2>2. metadata'[i.table][i.version] = metadata[i.table][i.version]
    <3>1. CASE i.table = j.table
      <4>1. i.version \in W
        BY <1>3, <1>14, <3>1, InFlightVersion
      <4> QED BY <1>6, <1>10, <2>1, <3>1, <4>1
    <3>2. CASE i.table # j.table
      BY <1>12, <2>1, <3>2
    <3> QED BY <3>1, <3>2
  <2> QED BY <1>14, <2>2 DEF StagedIn
<1> QED BY <1>5, <1>9, <1>11, <1>12, <1>13, <1>14 DEF SnapshotsOK

\* Commits.
LEMMA NextSequence ==
    ASSUME ShapeInv
    PROVE  /\ next_cdc_seq \in Nat \ {0} /\ max_persisted_cdc_seq \in Nat
           /\ \A s \in DOMAIN log : s <= max_persisted_cdc_seq
           /\ cdc_seq = Unseeded => \A s \in DOMAIN log : s < next_cdc_seq
           /\ cdc_seq # Unseeded => cdc_seq \in Nat /\ next_cdc_seq = cdc_seq + 1
<1>1. IsFiniteSet(DOMAIN log) /\ DOMAIN log \subseteq Nat \ {0}
  BY DEF ShapeInv, StoreOK, LogOK
<1>2. max_persisted_cdc_seq \in Nat /\ \A s \in DOMAIN log : s <= max_persisted_cdc_seq
  <2>1. CASE DOMAIN log = {}
    BY <2>1 DEF max_persisted_cdc_seq, Max0
  <2>2. CASE DOMAIN log # {}
    <3>1. Max(DOMAIN log) \in DOMAIN log /\ \A s \in DOMAIN log : s <= Max(DOMAIN log)
      BY <1>1, <2>2, MaxIsGreatest
    <3> QED BY <1>1, <2>2, <3>1 DEF max_persisted_cdc_seq, Max0
  <2> QED BY <2>1, <2>2
<1>3. cdc_seq \in {Unseeded} \cup Nat
  BY DEF ShapeInv, CountersOK
<1>4. CASE cdc_seq = Unseeded
  <2>1. next_cdc_seq = 1 + max_persisted_cdc_seq
    BY <1>4 DEF next_cdc_seq
  <2> QED BY <1>1, <1>2, <1>4, <2>1
<1>5. CASE cdc_seq # Unseeded
  <2>1. next_cdc_seq = 1 + cdc_seq /\ cdc_seq \in Nat
    BY <1>3, <1>5 DEF next_cdc_seq
  <2> QED BY <1>2, <1>5, <2>1
<1> QED BY <1>4, <1>5

LEMMA LoopsStand ==
    ASSUME ShapeInv, UNCHANGED <<iceberg, loops>>, pragma' = pragma
    PROVE  SnapshotsOK' /\ SealShape' /\ CompactShape' /\ PragmaShape'
BY NothingMoves DEF loops

LEMMA ShapeAllocate ==
    ASSUME ShapeInv, NEW c \in Client, allocate(c)
    PROVE  ShapeInv'
<1>1. SnapshotsOK' /\ SealShape' /\ CompactShape' /\ PragmaShape'
  BY LoopsStand DEF allocate, control
<1>2. StoreOK' /\ FlagTypes'
  BY DEF ShapeInv, StoreOK, FlagTypes, allocate, store, control
<1>3. left \in Allowance /\ left.commits > 0 /\ left' = [left EXCEPT !.commits = @ - 1]
  BY DEF ShapeInv, CountersOK, allocate
<1>4. left' \in Allowance
  BY <1>3 DEF Allowance
<1>5. PICK t \in left.tables \ dropped, k \in left.keys, row \in Value \cup {Absent} :
         /\ client' = [client EXCEPT ![c] =
                [at |-> "write", seq |-> IF is_enabled(t) THEN next_cdc_seq ELSE 0,
                 entry |-> [table |-> t, key |-> k, row |-> row]]]
         /\ cdc_seq' = IF is_enabled(t) THEN next_cdc_seq ELSE cdc_seq
  BY DEF allocate
<1>6. next_cdc_seq \in Nat
  BY NextSequence
<1>7. CountersOK'
  <2>1. cdc_seq' \in {Unseeded} \cup Nat
    BY <1>5, <1>6 DEF ShapeInv, CountersOK
  <2> QED BY <1>4, <2>1 DEF ShapeInv, CountersOK, allocate
<1>8. ClientShape'
  <2>1. t \in Table /\ k \in Key
    BY <1>3, <1>5 DEF Allowance
  <2>2. PICK e : e = [table |-> t, key |-> k, row |-> row]
    OBVIOUS
  <2>3. e \in Entries
    BY <2>1, <2>2 DEF Entries
  <2>4. PICK q : q = IF is_enabled(t) THEN next_cdc_seq ELSE 0
    OBVIOUS
  <2>5. q \in Nat
    BY <1>6, <2>4
  <2>6. [at |-> "write", seq |-> q, entry |-> e] \in [at : {"write"}, seq : Nat, entry : Entries]
    BY <2>3, <2>5
  <2>7. client' = [client EXCEPT ![c] = [at |-> "write", seq |-> q, entry |-> e]]
    BY <1>5, <2>2, <2>4
  <2> QED BY <2>6, <2>7 DEF ShapeInv, ClientShape
<1> QED BY <1>1, <1>2, <1>7, <1>8 DEF ShapeInv

\* What is written is what was built.
LEMMA Writing ==
    ASSUME ShapeInv, NEW c \in Client, client[c] # Ready
    PROVE  /\ client[c].seq \in Nat /\ client[c].entry \in Entries
           /\ client[c].entry.table \in Table /\ client[c].entry.key \in Key
           /\ client[c].entry.row \in Value \cup {Absent}
BY DEF ShapeInv, ClientShape, Entries

LEMMA ShapeWrite ==
    ASSUME ShapeInv, NEW c \in Client, write_batch(c)
    PROVE  ShapeInv'
<1>1. SnapshotsOK' /\ SealShape' /\ CompactShape' /\ PragmaShape'
  BY LoopsStand DEF write_batch, control
<1>2. FlagTypes'
  BY DEF ShapeInv, FlagTypes, write_batch, control
<1>3. CountersOK' /\ ClientShape'
  BY DEF ShapeInv, CountersOK, ClientShape, write_batch
<1>4. client[c] # Ready
  BY DEF write_batch
<1>5. PICK e, q : e = client[c].entry /\ q = client[c].seq
  OBVIOUS
<1>6. /\ q \in Nat /\ e \in Entries /\ e.table \in Table /\ e.key \in Key
      /\ e.row \in Value \cup {Absent}
  BY <1>4, <1>5, Writing
<1>7. rows' = [rows EXCEPT ![e.table][e.key] = e.row]
  BY <1>5 DEF write_batch, WriteRow
<1>8. rows' \in [Table -> [Key -> Value \cup {Absent}]]
  BY <1>6, <1>7 DEF ShapeInv, StoreOK
<1>9. LogOK(log')
  <2>1. CASE q > 0
    <3>1. log' = [s \in DOMAIN log \cup {q} |-> IF s = q THEN e ELSE log[s]]
      BY <1>5, <2>1 DEF write_batch, WriteEntry
    <3>2. IsFiniteSet(DOMAIN log \cup {q})
      BY FS_AddElement DEF ShapeInv, StoreOK, LogOK
    <3> QED BY <1>6, <2>1, <3>1, <3>2 DEF ShapeInv, StoreOK, LogOK
  <2>2. CASE ~(q > 0)
    <3>1. log' = log
      BY <1>5, <2>2 DEF write_batch
    <3> QED BY <3>1 DEF ShapeInv, StoreOK
  <2> QED BY <2>1, <2>2
<1>10. StoreOK'
  BY <1>8, <1>9 DEF StoreOK
<1> QED BY <1>1, <1>2, <1>3, <1>10 DEF ShapeInv

\* Tables that come and go, and reads.
LEMMA ShapeOthers ==
    ASSUME ShapeInv,
           \/ \E t \in Table : delete_schema(t) \/ insert_schema(t)
           \/ read_snapshot \/ read_watermark \/ read_tail
    PROVE  ShapeInv'
<1>1. ASSUME NEW t \in Table, delete_schema(t) PROVE ShapeInv'
  <2>1. SnapshotsOK' /\ SealShape' /\ CompactShape' /\ PragmaShape'
    BY <1>1, LoopsStand DEF delete_schema
  <2>2. rows' = [rows EXCEPT ![t] = [k \in Key |-> Absent]] /\ log' = log
    BY <1>1 DEF delete_schema
  <2>3. StoreOK'
    BY <2>2 DEF ShapeInv, StoreOK
  <2>4. left \in Allowance /\ left.pragmas > 0 /\ left' = [left EXCEPT !.pragmas = @ - 1]
    BY <1>1 DEF ShapeInv, CountersOK, delete_schema, Spend
  <2>5. left' \in Allowance
    BY <2>4 DEF Allowance
  <2>6. CountersOK' /\ FlagTypes' /\ ClientShape'
    BY <1>1, <2>5 DEF ShapeInv, CountersOK, FlagTypes, ClientShape, delete_schema, sequences
  <2> QED BY <2>1, <2>3, <2>6 DEF ShapeInv
<1>2. ASSUME NEW t \in Table, insert_schema(t) PROVE ShapeInv'
  <2>1. SnapshotsOK' /\ SealShape' /\ CompactShape' /\ PragmaShape'
    BY <1>2, LoopsStand DEF insert_schema
  <2>2. StoreOK' /\ CountersOK' /\ FlagTypes' /\ ClientShape'
    BY <1>2 DEF ShapeInv, StoreOK, CountersOK, FlagTypes, ClientShape, insert_schema, sequences, store
  <2> QED BY <2>1, <2>2 DEF ShapeInv
<1>3. ASSUME read_snapshot \/ read_watermark \/ read_tail PROVE ShapeInv'
  <2>1. UNCHANGED <<iceberg, loops, control, store, sequences, seal_signal, client>>
    BY <1>3 DEF read_snapshot, read_watermark, read_tail
  <2>2. SnapshotsOK' /\ SealShape' /\ CompactShape' /\ PragmaShape'
    BY <2>1, LoopsStand DEF control
  <2>3. left' \in Allowance
    <3>1. CASE read_snapshot
      <4>1. left \in Allowance /\ left.reads > 0 /\ left' = [left EXCEPT !.reads = @ - 1]
        BY <3>1 DEF ShapeInv, CountersOK, read_snapshot
      <4> QED BY <4>1 DEF Allowance
    <3>2. CASE read_watermark \/ read_tail
      BY <3>2 DEF ShapeInv, CountersOK, read_watermark, read_tail
    <3> QED BY <1>3, <3>1, <3>2
  <2>4. StoreOK' /\ CountersOK' /\ FlagTypes' /\ ClientShape'
    BY <2>1, <2>3 DEF ShapeInv, StoreOK, CountersOK, FlagTypes, ClientShape, sequences, store, control
  <2> QED BY <2>2, <2>4 DEF ShapeInv
<1> QED BY <1>1, <1>2, <1>3

\* The seal loop: its scan, and the snapshot it stages.
LEMMA SealingRecord ==
    ASSUME ShapeInv, seal.at # "idle"
    PROVE  /\ LogOK(seal.entries) /\ seal.watermark \in Nat /\ seal.todo \subseteq Table
           /\ seal # Asleep
           /\ Staged(seal) => StagedOK(seal)
BY DEF ShapeInv, SealShape, Asleep, Staged

LEMMA ShapeSealScan == ASSUME ShapeInv, seal_scan PROVE ShapeInv'
<1>1. SnapshotsOK' /\ CompactShape' /\ PragmaShape'
  BY NothingMoves DEF seal_scan, control
<1>2. StoreOK' /\ CountersOK' /\ FlagTypes' /\ ClientShape'
  BY DEF ShapeInv, StoreOK, CountersOK, FlagTypes, ClientShape, seal_scan, store, sequences, control
<1>3. SealShape'
  <2>1. CASE DOMAIN log = {}
    BY <2>1 DEF seal_scan, SealShape
  <2>2. CASE DOMAIN log # {}
    <3>1. PICK E, w, T : E = scan_cdc(0) /\ w = Max(DOMAIN log) /\ T = {log[s].table : s \in DOMAIN log}
      OBVIOUS
    <3>2. seal' = [at |-> "tables", entries |-> E, watermark |-> w, todo |-> T]
      BY <2>2, <3>1 DEF seal_scan
    <3>3. LogOK(log)
      BY DEF ShapeInv, StoreOK
    <3>4. LogOK(E)
      BY <3>1, <3>3, LogCut DEF scan_cdc, Tail
    <3>5. w \in Nat
      BY <2>2, <3>1, <3>3, MaxIsGreatest DEF LogOK
    <3>6. T \subseteq Table
      BY <3>1, <3>3 DEF LogOK, Entries
    <3> QED BY <3>2, <3>4, <3>5, <3>6 DEF SealShape
  <2> QED BY <2>1, <2>2
<1> QED BY <1>1, <1>2, <1>3 DEF ShapeInv

LEMMA ShapeSealTable == ASSUME ShapeInv, seal_table PROVE ShapeInv'
<1>1. SnapshotsOK' /\ CompactShape' /\ PragmaShape'
  BY NothingMoves DEF seal_table, control
<1>2. StoreOK' /\ CountersOK' /\ FlagTypes' /\ ClientShape'
  BY DEF ShapeInv, StoreOK, CountersOK, FlagTypes, ClientShape, seal_table, store, sequences, control
<1>3. seal.at = "tables"
  BY DEF seal_table
<1>4. /\ LogOK(seal.entries) /\ seal.watermark \in Nat /\ seal.todo \subseteq Table
  BY <1>3, SealingRecord
<1>5. PICK t \in seal.todo :
         /\ hint[t] < MaxVersion
         /\ seal' = IF t \in dropped THEN Asleep
                    ELSE [at |-> "metadata", entries |-> seal.entries,
                          watermark |-> seal.watermark,
                          todo |-> seal.todo, table |-> t, version |-> hint[t] + 1,
                          md |-> Sealed(Current(t), collapse_lww(seal.entries, t),
                                        seal.watermark)]
  BY DEF seal_table
<1>6. SealShape'
  <2>1. CASE t \in dropped
    BY <1>5, <2>1 DEF SealShape
  <2>2. CASE t \notin dropped
    <3>1. PICK md, ch, n : /\ ch = collapse_lww(seal.entries, t) /\ n = hint[t]
                           /\ md = Sealed(Current(t), ch, seal.watermark)
      OBVIOUS
    <3>2. n \in Nat /\ Published(Current(t), n) /\ t \in Table
      BY <1>4, <1>5, <3>1 DEF ShapeInv, SnapshotsOK
    <3>3. ch \in Changed
      BY <1>4, <3>1, CollapsedLog
    <3>4. Published(md, n + 1)
      BY <1>4, <3>1, <3>2, <3>3, SealedIsPublished
    <3>5. seal' = [at |-> "metadata", entries |-> seal.entries, watermark |-> seal.watermark,
                   todo |-> seal.todo, table |-> t, version |-> n + 1, md |-> md]
      BY <1>5, <2>2, <3>1
    <3>6. hint' = hint /\ metadata' = metadata
      BY DEF seal_table, iceberg
    <3>7. n + 1 \in 1..MaxVersion
      BY <1>5, <3>1, <3>2, MirrorAssumption
    <3>8. Staged(seal') /\ StagedOK(seal)'
      BY <3>2, <3>4, <3>5, <3>7 DEF Staged, StagedOK, StagedIn
    <3> QED BY <1>4, <3>5, <3>8 DEF SealShape
  <2> QED BY <2>1, <2>2
<1> QED BY <1>1, <1>2, <1>6 DEF ShapeInv

LEMMA ShapeSealPutMetadata == ASSUME ShapeInv, seal_put_metadata PROVE ShapeInv'
<1>1. seal.at = "metadata" /\ seal' = [seal EXCEPT !.at = "hint"] /\ hint' = hint
      /\ metadata' = [metadata EXCEPT ![seal.table][seal.version] = seal.md]
  BY DEF seal_put_metadata, PutMetadata
<1>2. /\ LogOK(seal.entries) /\ seal.watermark \in Nat /\ seal.todo \subseteq Table
      /\ seal # Asleep /\ StagedOK(seal)
  BY <1>1, SealingRecord DEF Staged
<1>3. /\ SnapshotsOK' /\ metadata'[seal.table][seal.version] = seal.md
      /\ \A i : StagedIn(i, metadata) => StagedIn(i, metadata')
  BY <1>1, <1>2, MetadataPut
<1>4. compact' = compact /\ pragma' = pragma
  BY DEF seal_put_metadata, control
<1>5. CompactShape' /\ PragmaShape'
  BY <1>3, <1>4, TasksStand
<1>6. StoreOK' /\ CountersOK' /\ FlagTypes' /\ ClientShape'
  BY DEF ShapeInv, StoreOK, CountersOK, FlagTypes, ClientShape, seal_put_metadata, store, sequences,
         control
<1>7. seal' = [at |-> "hint", entries |-> seal.entries, watermark |-> seal.watermark,
               todo |-> seal.todo, table |-> seal.table, version |-> seal.version, md |-> seal.md]
  BY <1>1, <1>2 DEF ShapeInv, SealShape
<1>8. Staged(seal') /\ StagedOK(seal)'
  BY <1>2, <1>3, <1>7 DEF Staged, StagedOK, StagedIn
<1>9. SealShape'
  BY <1>2, <1>7, <1>8 DEF SealShape
<1> QED BY <1>3, <1>5, <1>6, <1>9 DEF ShapeInv

LEMMA ShapeSealPutHint == ASSUME ShapeInv, seal_put_hint PROVE ShapeInv'
<1>1. PICK unnoted \in Unnoted(seal) :
         seal' = [at |-> IF unnoted THEN "mark" ELSE "tables", entries |-> seal.entries,
                  watermark |-> seal.watermark, todo |-> seal.todo \ {seal.table}]
  BY DEF seal_put_hint
<1>2. /\ LogOK(seal.entries) /\ seal.watermark \in Nat /\ seal.todo \subseteq Table
      /\ seal # Asleep /\ StagedOK(seal) /\ PutHint(seal)
  BY SealingRecord DEF Staged, seal_put_hint, PutHint
<1>3. /\ SnapshotsOK'
      /\ \A i \in {seal, compact, pragma} : Staged(i) /\ StagedIn(i, metadata) => StagedIn(i, metadata')
  BY <1>2, HintPut
<1>4. compact' = compact /\ pragma' = pragma
  BY DEF seal_put_hint, control
<1>5. CompactShape' /\ PragmaShape'
  BY <1>3, <1>4, TasksStand
<1>6. StoreOK' /\ CountersOK' /\ ClientShape' /\ FlagTypes'
  BY DEF ShapeInv, StoreOK, CountersOK, ClientShape, FlagTypes, seal_put_hint, store, sequences,
         control
<1>7. SealShape'
  <2>1. PICK T, a : T = seal.todo \ {seal.table} /\ a = IF unnoted THEN "mark" ELSE "tables"
    OBVIOUS
  <2>2. T \subseteq Table /\ a \in {"tables", "mark"}
    BY <1>2, <2>1
  <2>3. seal' = [at |-> a, entries |-> seal.entries, watermark |-> seal.watermark, todo |-> T]
    BY <1>1, <2>1
  <2> QED BY <1>2, <2>2, <2>3 DEF SealShape
<1> QED BY <1>3, <1>5, <1>6, <1>7 DEF ShapeInv

\* The registry is saved.
LEMMA ShapeMarks == ASSUME ShapeInv, seal_mark \/ backfill_mark PROVE ShapeInv'
<1>1. SnapshotsOK' /\ CompactShape'
  BY NothingMoves DEF seal_mark, backfill_mark, loops
<1>2. StoreOK' /\ CountersOK' /\ ClientShape' /\ FlagTypes'
  BY DEF ShapeInv, StoreOK, CountersOK, ClientShape, FlagTypes, seal_mark, backfill_mark, save, store,
         sequences
<1>3. CASE seal_mark
  <2>1. seal.at = "mark" /\ seal' = [seal EXCEPT !.at = "tables"] /\ pragma' = pragma
    BY <1>3 DEF seal_mark
  <2>2. LogOK(seal.entries) /\ seal.watermark \in Nat /\ seal.todo \subseteq Table /\ seal # Asleep
    BY <2>1, SealingRecord
  <2>3. seal' = [at |-> "tables", entries |-> seal.entries, watermark |-> seal.watermark,
                 todo |-> seal.todo]
    BY <2>1, <2>2 DEF ShapeInv, SealShape, Staged
  <2>4. SealShape'
    BY <2>2, <2>3 DEF SealShape
  <2>5. PragmaShape'
    BY <1>3, <2>1, NothingMoves DEF seal_mark
  <2> QED BY <1>1, <1>2, <2>4, <2>5 DEF ShapeInv
<1>4. CASE backfill_mark
  <2>1. pragma' = Idle
    BY <1>4 DEF backfill_mark
  <2>2. PragmaShape'
    BY <2>1 DEF PragmaShape
  <2>3. SealShape'
    BY <1>4, NothingMoves DEF backfill_mark, loops
  <2> QED BY <1>1, <1>2, <2>2, <2>3 DEF ShapeInv
<1> QED BY <1>3, <1>4

LEMMA ShapeSealEnds == ASSUME ShapeInv, gc_cdc \/ seal_fails PROVE ShapeInv'
<1>1. SnapshotsOK' /\ CompactShape' /\ PragmaShape'
  BY NothingMoves DEF gc_cdc, seal_fails, control
<1>2. FlagTypes' /\ ClientShape'
  BY DEF ShapeInv, FlagTypes, ClientShape, gc_cdc, seal_fails, control
<1>3. SealShape'
  BY DEF ShapeInv, SealShape, gc_cdc, seal_fails, control
<1>4. CASE gc_cdc
  <2>1. rows' = rows /\ log' = [s \in DOMAIN log \ Swept(seal.watermark) |-> log[s]]
    BY <1>4 DEF gc_cdc
  <2>2. IsFiniteSet(DOMAIN log \ Swept(seal.watermark))
    BY FS_Subset DEF ShapeInv, StoreOK, LogOK
  <2>3. StoreOK'
    BY <2>1, <2>2 DEF ShapeInv, StoreOK, LogOK
  <2>4. CountersOK'
    BY <1>4 DEF ShapeInv, CountersOK, gc_cdc, sequences
  <2> QED BY <1>1, <1>2, <1>3, <2>3, <2>4 DEF ShapeInv
<1>5. CASE seal_fails
  <2>1. left \in Allowance /\ left.faults > 0 /\ left' = [left EXCEPT !.faults = @ - 1]
    BY <1>5 DEF ShapeInv, CountersOK, seal_fails, Fault
  <2>2. left' \in Allowance
    BY <2>1 DEF Allowance
  <2>3. StoreOK' /\ CountersOK'
    BY <1>5, <2>2 DEF ShapeInv, StoreOK, CountersOK, seal_fails, store, sequences
  <2> QED BY <1>1, <1>2, <1>3, <2>3 DEF ShapeInv
<1> QED BY <1>4, <1>5

\* The compaction loop.
LEMMA ShapeCompactTable == ASSUME ShapeInv, compact_table PROVE ShapeInv'
<1>1. SnapshotsOK' /\ SealShape' /\ PragmaShape'
  BY NothingMoves DEF compact_table, control
<1>2. StoreOK' /\ CountersOK' /\ FlagTypes' /\ ClientShape'
  BY DEF ShapeInv, StoreOK, CountersOK, FlagTypes, ClientShape, compact_table, store, sequences, control
<1>4. PICK t \in mirrored_tables \ dropped :
         /\ hint[t] < MaxVersion
         /\ \E md \in Compacted(Current(t)) :
              compact' = [at |-> "metadata", table |-> t, version |-> hint[t] + 1, md |-> md]
  BY DEF compact_table
<1>5. PICK md \in Compacted(Current(t)) :
         compact' = [at |-> "metadata", table |-> t, version |-> hint[t] + 1, md |-> md]
  BY <1>4
<1>. PICK n : n = hint[t]
  OBVIOUS
<1>6. n \in Nat /\ Published(Current(t), n) /\ t \in Table
  BY <1>4, <1>5 DEF ShapeInv, SnapshotsOK, mirrored_tables
<1>7. Published(md, n + 1)
  BY <1>6, CompactedIsSame
<1>9. n + 1 \in 1..MaxVersion
  BY <1>4, <1>6, MirrorAssumption
<1>10. Staged(compact') /\ StagedOK(compact)'
  BY <1>5, <1>6, <1>7, <1>9 DEF Staged, StagedOK, StagedIn
<1>11. CompactShape'
  BY <1>4, <1>10 DEF CompactShape
<1> QED BY <1>1, <1>2, <1>11 DEF ShapeInv

LEMMA CompactingRecord ==
    ASSUME ShapeInv, compact.at # "idle"
    PROVE  /\ compact # Asleep
           /\ Staged(compact) /\ StagedOK(compact)
BY DEF ShapeInv, CompactShape, Asleep

LEMMA ShapeCompactPuts == ASSUME ShapeInv, compact_put_metadata \/ compact_put_hint PROVE ShapeInv'
<1>1. compact.at # "idle"
  BY DEF compact_put_metadata, compact_put_hint, PutMetadata, PutHint
<1>2. /\ compact # Asleep /\ Staged(compact) /\ StagedOK(compact)
  BY <1>1, CompactingRecord
<1>3. seal' = seal /\ pragma' = pragma
  BY DEF compact_put_metadata, compact_put_hint, control
<1>5. StoreOK' /\ CountersOK' /\ FlagTypes' /\ ClientShape'
  BY DEF ShapeInv, StoreOK, CountersOK, FlagTypes, ClientShape, compact_put_metadata, compact_put_hint,
         store, sequences, control
<1>6. CASE compact_put_metadata
  <2>1. /\ compact.at = "metadata" /\ compact' = [compact EXCEPT !.at = "hint"] /\ hint' = hint
        /\ metadata' = [metadata EXCEPT ![compact.table][compact.version] = compact.md]
    BY <1>6 DEF compact_put_metadata, PutMetadata
  <2>2. /\ SnapshotsOK' /\ metadata'[compact.table][compact.version] = compact.md
        /\ \A i : StagedIn(i, metadata) => StagedIn(i, metadata')
    BY <1>2, <2>1, MetadataPut
  <2>3. compact' = [at |-> "hint", table |-> compact.table, version |-> compact.version,
                    md |-> compact.md]
    BY <1>2, <2>1 DEF ShapeInv, CompactShape
  <2>4. Staged(compact') /\ StagedOK(compact)'
    BY <1>2, <2>2, <2>3 DEF Staged, StagedOK, StagedIn
  <2>5. CompactShape'
    BY <2>3, <2>4 DEF CompactShape
  <2>6. SealShape' /\ PragmaShape'
    BY <1>3, <2>2, TasksStand
  <2> QED BY <1>5, <2>2, <2>5, <2>6 DEF ShapeInv
<1>7. CASE compact_put_hint
  <2>1. PutHint(compact) /\ compact' = Asleep
    BY <1>7 DEF compact_put_hint
  <2>2. /\ SnapshotsOK'
        /\ \A i \in {seal, compact, pragma} :
             Staged(i) /\ StagedIn(i, metadata) => StagedIn(i, metadata')
    BY <1>2, <2>1, HintPut
  <2>3. CompactShape'
    BY <2>1 DEF CompactShape
  <2>4. SealShape' /\ PragmaShape'
    BY <1>3, <2>2, TasksStand
  <2> QED BY <1>5, <2>2, <2>3, <2>4 DEF ShapeInv
<1> QED BY <1>6, <1>7

\* PRAGMAs.
LEMMA PragmaRecord ==
    ASSUME ShapeInv, pragma.at # "idle"
    PROVE  /\ pragma # Idle
           /\ pragma.at \in {"apply", "flags", "persist"} => pragma.directive \in Directives
           /\ pragma.at \in {"scan", "load"} => pragma.table \in Table
           /\ pragma.at = "load" => pragma.rows \in Contents
           /\ Staged(pragma) => StagedOK(pragma)
<1>1. pragma # Idle
  BY DEF Idle
<1> QED BY <1>1 DEF ShapeInv, PragmaShape, Staged

\* A step of a PRAGMA that publishes nothing.
LEMMA PragmaStands ==
    ASSUME ShapeInv, UNCHANGED <<iceberg, loops>>
    PROVE  SnapshotsOK' /\ SealShape' /\ CompactShape'
BY NothingMoves DEF loops

LEMMA ShapeEngineFor == ASSUME ShapeInv, engine_for \/ register_tenant_fails PROVE ShapeInv'
<1>1. SnapshotsOK' /\ SealShape' /\ CompactShape'
  BY PragmaStands DEF engine_for, register_tenant_fails
<1>2. /\ left \in Allowance /\ left.pragmas > 0
      /\ \/ left' = [left EXCEPT !.pragmas = @ - 1]
         \/ left.faults > 0 /\ left' = [left EXCEPT !.pragmas = @ - 1, !.faults = @ - 1]
  BY DEF ShapeInv, CountersOK, engine_for, register_tenant_fails, Spend
<1>3. left' \in Allowance
  <2>1. CASE left' = [left EXCEPT !.pragmas = @ - 1]
    BY <1>2, <2>1 DEF Allowance
  <2>2. CASE left.faults > 0 /\ left' = [left EXCEPT !.pragmas = @ - 1, !.faults = @ - 1]
    <3>1. PICK p, f : p = left.pragmas - 1 /\ f = left.faults - 1
      OBVIOUS
    <3>2. p \in Nat /\ f \in Nat
      BY <1>2, <2>2, <3>1 DEF Allowance
    <3>3. left' = [left EXCEPT !.pragmas = p, !.faults = f]
      BY <2>2, <3>1
    <3> QED BY <1>2, <3>2, <3>3 DEF Allowance
  <2> QED BY <1>2, <2>1, <2>2
<1>4. StoreOK' /\ CountersOK' /\ ClientShape'
  BY <1>3 DEF ShapeInv, StoreOK, CountersOK, ClientShape, engine_for, register_tenant_fails, store,
              sequences
<1>5. FlagTypes'
  <2>1. registry' = registry /\ Reopened /\ registry \in Registries
    BY DEF ShapeInv, FlagTypes, engine_for, register_tenant_fails
  <2>2. CASE opened
    BY <2>1, <2>2 DEF ShapeInv, FlagTypes, Reopened
  <2>3. CASE ~opened
    <3>1. state' = registry /\ cdc' = Restored(registry)
      BY <2>1, <2>3 DEF Reopened
    <3> QED BY <2>1, <3>1, RestoredFlags DEF FlagTypes
  <2> QED BY <2>2, <2>3
<1>6. PragmaShape'
  <2>1. CASE engine_for
    <3>1. PICK d \in Directive : pragma' = [at |-> "apply", directive |-> d]
      BY <2>1 DEF engine_for
    <3>2. d \in Directives
      BY <1>2 DEF Directive, Directives, Allowance
    <3> QED BY <3>1, <3>2 DEF PragmaShape
  <2>2. CASE register_tenant_fails
    BY <2>2, NothingMoves DEF register_tenant_fails
  <2> QED BY <2>1, <2>2
<1> QED BY <1>1, <1>4, <1>5, <1>6 DEF ShapeInv

LEMMA ShapePragmaFails == ASSUME ShapeInv, pragma_fails PROVE ShapeInv'
<1>1. SnapshotsOK' /\ SealShape' /\ CompactShape'
  BY PragmaStands DEF pragma_fails
<1>2. left \in Allowance /\ left.faults > 0 /\ left' = [left EXCEPT !.faults = @ - 1]
  BY DEF ShapeInv, CountersOK, pragma_fails
<1>3. left' \in Allowance
  BY <1>2 DEF Allowance
<1>4. StoreOK' /\ CountersOK' /\ ClientShape' /\ FlagTypes'
  BY <1>3 DEF ShapeInv, StoreOK, CountersOK, ClientShape, FlagTypes, pragma_fails, store, sequences
<1>5. PragmaShape'
  BY DEF PragmaShape, pragma_fails
<1> QED BY <1>1, <1>4, <1>5 DEF ShapeInv

LEMMA ShapeFlags == ASSUME ShapeInv, apply_pragma \/ reapply_flags \/ persist_registry PROVE ShapeInv'
<1>1. pragma.at \in {"apply", "flags", "persist"}
  BY DEF apply_pragma, reapply_flags, persist_registry
<1>2. pragma.directive \in Directives
  BY <1>1, PragmaRecord
<1>3. SnapshotsOK' /\ SealShape' /\ CompactShape'
  BY PragmaStands DEF apply_pragma, reapply_flags, persist_registry
<1>4. StoreOK' /\ CountersOK' /\ ClientShape'
  BY DEF ShapeInv, StoreOK, CountersOK, ClientShape, apply_pragma, reapply_flags, persist_registry,
         store, sequences
<1>5. PICK d : d = pragma.directive
  OBVIOUS
<1>6. CASE apply_pragma
  <2>1. registry' = registry
    BY <1>6 DEF apply_pragma
  <2>2. CASE /\ d.kind = "table"
             /\ cdc' = [cdc EXCEPT !.overrides = SetTable(@, cdc.default, d.table, d.on)]
             /\ state' = [state EXCEPT !.tables[d.table] = IF d.on THEN "on" ELSE "off"]
             /\ pragma' = [at |-> "persist", directive |-> d]
    <3>1. d.table \in Table
      BY <1>2, <1>5, <2>2 DEF Directives
    <3>2. cdc' \in [default : BOOLEAN, overrides : SUBSET Table]
      BY <2>2, <3>1 DEF ShapeInv, FlagTypes, SetTable
    <3>3. state' \in Registries
      BY <2>2, <3>1 DEF ShapeInv, FlagTypes, Registries
    <3>4. FlagTypes' /\ PragmaShape'
      BY <1>2, <1>5, <2>1, <2>2, <3>2, <3>3 DEF ShapeInv, FlagTypes, PragmaShape
    <3> QED BY <1>3, <1>4, <3>4 DEF ShapeInv
  <2>3. CASE /\ d.kind = "default"
             /\ cdc' = [cdc EXCEPT !.default = d.on]
             /\ pragma' = [at |-> "flags", directive |-> d]
             /\ UNCHANGED state
    <3>1. d.on \in BOOLEAN
      BY <1>2, <1>5 DEF Directives
    <3>2. FlagTypes'
      BY <2>1, <2>3, <3>1 DEF ShapeInv, FlagTypes
    <3>3. PragmaShape'
      BY <1>2, <1>5, <2>3 DEF PragmaShape
    <3> QED BY <1>3, <1>4, <3>2, <3>3 DEF ShapeInv
  <2> QED BY <1>5, <1>6, <2>2, <2>3 DEF apply_pragma
<1>7. CASE reapply_flags
  <2>1. /\ state' = [state EXCEPT !.default_on = d.on] /\ cdc' = Restored(state')
        /\ pragma' = [at |-> "persist", directive |-> d] /\ registry' = registry
    BY <1>5, <1>7 DEF reapply_flags
  <2>2. d.on \in BOOLEAN
    BY <1>2, <1>5 DEF Directives
  <2>3. state' \in Registries
    BY <2>1, <2>2 DEF ShapeInv, FlagTypes, Registries
  <2>4. FlagTypes'
    BY <2>1, <2>3, RestoredFlags DEF ShapeInv, FlagTypes
  <2>5. PragmaShape'
    BY <1>2, <1>5, <2>1 DEF PragmaShape
  <2> QED BY <1>3, <1>4, <2>4, <2>5 DEF ShapeInv
<1>8. CASE persist_registry
  <2>1. /\ registry' = state /\ state' = state /\ cdc' = cdc
        /\ pragma' = IF d.kind = "table" /\ d.on THEN [at |-> "scan", table |-> d.table] ELSE Idle
    BY <1>5, <1>8 DEF persist_registry, save
  <2>2. FlagTypes'
    BY <2>1 DEF ShapeInv, FlagTypes
  <2>3. d.kind = "table" => d.table \in Table
    BY <1>2, <1>5 DEF Directives
  <2>4. PragmaShape'
    BY <2>1, <2>3 DEF PragmaShape
  <2> QED BY <1>3, <1>4, <2>2, <2>4 DEF ShapeInv
<1> QED BY <1>6, <1>7, <1>8

LEMMA ContentsAreChanges == Contents \subseteq Changed
<1>1. ASSUME NEW f \in Contents PROVE f \in Changed
  <2>1. PICK K \in SUBSET Key : f \in [K -> Value]
    BY DEF Contents
  <2>2. f \in [K -> Value \cup {Absent}]
    BY <2>1
  <2> QED BY <2>2 DEF Changed
<1> QED BY <1>1

LEMMA ShapeBackfillReads == ASSUME ShapeInv, backfill_scan \/ backfill_load PROVE ShapeInv'
<1>1. pragma.at \in {"scan", "load"}
  BY DEF backfill_scan, backfill_load
<1>2. pragma.table \in Table /\ (pragma.at = "load" => pragma.rows \in Contents)
  BY <1>1, PragmaRecord
<1>3. SnapshotsOK' /\ SealShape' /\ CompactShape'
  BY PragmaStands DEF backfill_scan, backfill_load
<1>4. StoreOK' /\ CountersOK' /\ ClientShape' /\ FlagTypes'
  BY DEF ShapeInv, StoreOK, CountersOK, ClientShape, FlagTypes, backfill_scan, backfill_load,
         store, sequences
<1>5. PICK t : t = pragma.table
  OBVIOUS
<1>6. CASE backfill_scan
  <2>1. PICK found : found = {k \in Key : rows[t][k] # Absent}
    OBVIOUS
  <2>2. CASE found = {}
    <3>1. pragma' = Idle
      BY <1>5, <1>6, <2>1, <2>2 DEF backfill_scan
    <3> QED BY <1>3, <1>4, <3>1 DEF ShapeInv, PragmaShape
  <2>3. CASE found # {}
    <3>1. PICK f : f = [k \in found |-> rows[t][k]]
      OBVIOUS
    <3>2. pragma' = [at |-> "load", table |-> t, rows |-> f]
      BY <1>5, <1>6, <2>1, <2>3, <3>1 DEF backfill_scan
    <3>3. f \in [found -> Value] /\ found \in SUBSET Key
      BY <1>2, <1>5, <2>1, <3>1 DEF ShapeInv, StoreOK
    <3>4. f \in Contents
      BY <3>3 DEF Contents
    <3>5. PragmaShape'
      BY <1>2, <1>5, <3>2, <3>4 DEF PragmaShape
    <3> QED BY <1>3, <1>4, <3>5 DEF ShapeInv
  <2> QED BY <2>2, <2>3
<1>7. CASE backfill_load
  <2>1. PICK md, n, w : /\ n = hint[t] /\ w = max_persisted_cdc_seq
                        /\ md = Sealed(Current(t), pragma.rows, w)
    OBVIOUS
  <2>2. PICK B : pragma' = [at |-> "metadata", table |-> t, version |-> n + 1, md |-> md, behind |-> B]
    BY <1>5, <1>7, <2>1 DEF backfill_load
  <2>3. /\ n \in Nat /\ Published(Current(t), n) /\ t \in Table /\ n < MaxVersion
        /\ pragma.at = "load"
    BY <1>2, <1>5, <1>7, <2>1 DEF ShapeInv, SnapshotsOK, backfill_load
  <2>4. pragma.rows \in Changed
    BY <1>2, <2>3, ContentsAreChanges
  <2>5. w \in Nat
    BY <2>1, NextSequence
  <2>6. Published(md, n + 1)
    BY <2>1, <2>3, <2>4, <2>5, SealedIsPublished
  <2>7. n + 1 \in 1..MaxVersion
    BY <2>3, MirrorAssumption
  <2>8. Staged(pragma') /\ StagedOK(pragma)'
    BY <2>2, <2>3, <2>6, <2>7 DEF Staged, StagedOK, StagedIn
  <2>9. PragmaShape'
    BY <2>2, <2>8 DEF PragmaShape
  <2> QED BY <1>3, <1>4, <2>9 DEF ShapeInv
<1> QED BY <1>6, <1>7

LEMMA ShapeBackfillPuts ==
    ASSUME ShapeInv, backfill_put_metadata \/ backfill_put_hint PROVE ShapeInv'
<1>1. pragma.at # "idle" /\ Staged(pragma)
  BY DEF backfill_put_metadata, backfill_put_hint, PutMetadata, PutHint, Staged
<1>2. StagedOK(pragma) /\ pragma # Idle
  BY <1>1, PragmaRecord
<1>3. seal' = seal /\ compact' = compact
  BY DEF backfill_put_metadata, backfill_put_hint, loops
<1>4. StoreOK' /\ CountersOK' /\ ClientShape' /\ FlagTypes'
  BY DEF ShapeInv, StoreOK, CountersOK, FlagTypes, ClientShape, backfill_put_metadata, backfill_put_hint,
         store, sequences
<1>5. CASE backfill_put_metadata
  <2>1. /\ pragma.at = "metadata" /\ pragma' = [pragma EXCEPT !.at = "hint"] /\ hint' = hint
        /\ metadata' = [metadata EXCEPT ![pragma.table][pragma.version] = pragma.md]
    BY <1>5 DEF backfill_put_metadata, PutMetadata
  <2>2. /\ SnapshotsOK' /\ metadata'[pragma.table][pragma.version] = pragma.md
        /\ \A i : StagedIn(i, metadata) => StagedIn(i, metadata')
    BY <1>2, <2>1, MetadataPut
  <2>3. pragma' = [at |-> "hint", table |-> pragma.table, version |-> pragma.version,
                   md |-> pragma.md, behind |-> pragma.behind]
    BY <1>2, <2>1 DEF ShapeInv, PragmaShape
  <2>4. Staged(pragma') /\ StagedOK(pragma)'
    BY <1>2, <2>2, <2>3 DEF Staged, StagedOK, StagedIn
  <2>5. PragmaShape'
    BY <2>3, <2>4 DEF PragmaShape
  <2>6. SealShape' /\ CompactShape'
    BY <1>3, <2>2, TasksStand
  <2> QED BY <1>4, <2>2, <2>5, <2>6 DEF ShapeInv
<1>6. CASE backfill_put_hint
  <2>1. PutHint(pragma) /\ pragma' \in {Idle, [at |-> "mark"]}
    BY <1>6 DEF backfill_put_hint
  <2>2. /\ SnapshotsOK'
        /\ \A i \in {seal, compact, pragma} :
             Staged(i) /\ StagedIn(i, metadata) => StagedIn(i, metadata')
    BY <1>2, <2>1, HintPut
  <2>3. PragmaShape'
    BY <2>1 DEF PragmaShape
  <2>4. SealShape' /\ CompactShape'
    BY <1>3, <2>2, TasksStand
  <2> QED BY <1>4, <2>2, <2>3, <2>4 DEF ShapeInv
<1> QED BY <1>5, <1>6

LEMMA ShapeRestart == ASSUME ShapeInv, restart PROVE ShapeInv'
<1>1. SnapshotsOK'
  BY NothingMoves DEF restart
<1>2. left \in Allowance /\ left.faults > 0 /\ left' = [left EXCEPT !.faults = @ - 1]
  BY DEF ShapeInv, CountersOK, restart, Fault
<1>3. left' \in Allowance
  BY <1>2 DEF Allowance
<1>4. StoreOK' /\ CountersOK' /\ ClientShape'
  BY <1>3 DEF ShapeInv, StoreOK, CountersOK, ClientShape, restart, store
<1>5. NoRegistry \in Registries
  BY DEF NoRegistry, Registries
<1>6. /\ registry' = registry /\ state' = IF indexed THEN registry ELSE NoRegistry
      /\ cdc' = Restored(state')
  BY DEF restart
<1>7. registry' \in Registries /\ state' \in Registries
  BY <1>5, <1>6 DEF ShapeInv, FlagTypes
<1>8. FlagTypes'
  BY <1>6, <1>7, RestoredFlags DEF FlagTypes
<1>9. SealShape' /\ CompactShape' /\ PragmaShape'
  BY DEF ShapeInv, SealShape, CompactShape, PragmaShape, restart
<1> QED BY <1>1, <1>4, <1>8, <1>9 DEF ShapeInv

LEMMA ShapeStutter == ASSUME ShapeInv, UNCHANGED vars PROVE ShapeInv'
<1>1. UNCHANGED <<iceberg, loops, control, store, sequences, seal_signal, client, left>>
  BY DEF vars
<1>2. SnapshotsOK' /\ SealShape' /\ CompactShape' /\ PragmaShape'
  BY <1>1, LoopsStand DEF control
<1>3. StoreOK' /\ CountersOK' /\ FlagTypes' /\ ClientShape'
  BY <1>1 DEF ShapeInv, StoreOK, CountersOK, FlagTypes, ClientShape, sequences, store, control
<1> QED BY <1>2, <1>3 DEF ShapeInv

LEMMA ShapeNext == ShapeInv /\ [Next]_vars => ShapeInv'
<1> SUFFICES ASSUME ShapeInv, [Next]_vars PROVE ShapeInv'
  OBVIOUS
<1>1. CASE \E c \in Client : allocate(c) \/ write_batch(c)
  BY <1>1, ShapeAllocate, ShapeWrite
<1>2. CASE Sealing \/ seal_fails
  BY <1>2, ShapeSealScan, ShapeSealTable, ShapeSealPutMetadata, ShapeSealPutHint, ShapeMarks,
     ShapeSealEnds DEF Sealing
<1>3. CASE compact_table \/ compact_put_metadata \/ compact_put_hint
  BY <1>3, ShapeCompactTable, ShapeCompactPuts
<1>4. CASE engine_for \/ register_tenant_fails \/ Applying \/ pragma_fails
  BY <1>4, ShapeEngineFor, ShapePragmaFails, ShapeMarks, ShapeFlags, ShapeBackfillReads,
     ShapeBackfillPuts DEF Applying
<1>5. CASE (\E t \in Table : delete_schema(t) \/ insert_schema(t)) \/ read_snapshot \/ Reading
  BY <1>5, ShapeOthers DEF Reading
<1>6. CASE restart
  BY <1>6, ShapeRestart
<1>7. CASE UNCHANGED vars
  BY <1>7, ShapeStutter
<1> QED BY <1>1, <1>2, <1>3, <1>4, <1>5, <1>6, <1>7 DEF Next

\* For every number of tables, keys, clients and versions, and for every schedule of
\* the commits, the two loops and the PRAGMAs: the log, the flags and the Iceberg
\* metadata are well-formed; in particular the pointer of every table names a
\* complete snapshot, the one of that version, also when two tasks write the same
\* version, and when one fails or the process restarts between the two PUTs.
THEOREM MirrorTypeCorrect == Spec => []TypeOK
<1>1. Init => ShapeInv
  BY ShapeInit
<1>2. ShapeInv /\ [Next]_vars => ShapeInv'
  BY ShapeNext
<1>3. ShapeInv => TypeOK
  BY ShapeGivesTypes
<1> QED BY <1>1, <1>2, <1>3, PTL DEF Spec

\* Merge-on-read shows one version of every row, with any number of clients,
\* through seals that fail and are repeated, restarts, backfills of rows that are
\* mirrored already, and compactions of either kind, also when these race for the
\* pointer of a table.
THEOREM OneVersionOfARow == Spec => []OneRowPerKey
<1>1. Init => ShapeInv
  BY ShapeInit
<1>2. ShapeInv /\ [Next]_vars => ShapeInv'
  BY ShapeNext
<1>3. ShapeInv => OneRowPerKey
  BY DEF ShapeInv, SnapshotsOK, Published, OneVersion, OneRowPerKey
<1> QED BY <1>1, <1>2, <1>3, PTL DEF Spec

-----------------------------------------------------------------------------
(* 7. Nothing is lost.                                                     *)

LEMMA MirrorKept ==
    ASSUME NEW V, NEW L, NEW R, NEW M, NEW t, Mirrored(V, L, R, M, t),
           NEW Q, Q[t] = R[t], NEW N, t \in M => t \in N
    PROVE  Mirrored(V, L, Q, N, t)
BY DEF Mirrored, Agrees, Holds

\* A mirror without files or entries says nothing that is wrong.
LEMMA MirrorOfNothing ==
    ASSUME NEW L, NEW R, NEW M, NEW t, \A k : ~Covered(L, t, k),
           t \in M \/ \A k \in Key : R[t][k] \notin Value
    PROVE  Mirrored({}, L, R, M, t)
BY DEF Mirrored, Agrees, Holds

Put(R, e) == [R EXCEPT ![e.table][e.key] = e.row]

\* A row and its entry are written together.
LEMMA MirrorWritten ==
    ASSUME NEW L, LogOK(L), NEW q \in Nat \ {0}, q \notin DOMAIN L, NEW e \in Entries,
           \A s \in Seqs(L, e.table, e.key) : s < q,
           NEW L2, L2 = With(L, q, e),
           NEW R \in [Table -> [Key -> Value \cup {Absent}]], NEW R2, R2 = Put(R, e),
           NEW V, NEW M, NEW t \in Table, Mirrored(V, L, R, M, t)
    PROVE  Mirrored(V, L2, R2, M, t)
<1>1. e.table \in Table /\ e.key \in Key
  BY DEF Entries
<1>2. /\ Covered(L2, e.table, e.key) /\ LastRow(L2, e.table, e.key) = e.row
      /\ \A j, k : ~(j = e.table /\ k = e.key) =>
            /\ Seqs(L2, j, k) = Seqs(L, j, k)
            /\ Covered(L2, j, k) <=> Covered(L, j, k)
            /\ Covered(L, j, k) => LastRow(L2, j, k) = LastRow(L, j, k)
  BY LogGrows
<1>3. SUFFICES ASSUME NEW k \in Key
               PROVE  Agrees(V, L2, R2, t, k) /\ (t \notin M => Holds(V, L2, R2, t, k))
  BY DEF Mirrored
<1>4. CASE t = e.table /\ k = e.key
  <2>1. R2[t][k] = e.row
    BY <1>1, <1>4 DEF Put
  <2> QED BY <1>2, <1>4, <2>1 DEF Agrees, Holds
<1>5. CASE ~(t = e.table /\ k = e.key)
  <2>1. R2[t][k] = R[t][k]
    BY <1>1, <1>5 DEF Put
  <2>3. /\ Covered(L2, t, k) <=> Covered(L, t, k)
        /\ Covered(L, t, k) => LastRow(L2, t, k) = LastRow(L, t, k)
    BY <1>2, <1>5
  <2>4. Agrees(V, L, R, t, k) /\ (t \notin M => Holds(V, L, R, t, k))
    BY DEF Mirrored
  <2> QED BY <2>1, <2>3, <2>4 DEF Agrees, Holds
<1> QED BY <1>4, <1>5

\* A seal of the log up to w: with the whole log and with the tail alone, the new
\* snapshot says what the log did.
LEMMA MirrorSealed ==
    ASSUME NEW L, LogOK(L), NEW w \in Nat, NEW E, E = UpTo(L, w),
           NEW n \in Nat, NEW old, Published(old, n), NEW t \in Table, NEW md,
           md = Sealed(old, collapse_lww(E, t), w),
           NEW R \in [Table -> [Key -> Value \cup {Absent}]], NEW M,
           Mirrored(View(old), L, R, M, t)
    PROVE  Mirrored(View(md), L, R, M, t) /\ Mirrored(View(md), Tail(L, w), R, M, t)
<1>1. PICK T, ch : T = Tail(L, w) /\ ch = collapse_lww(E, t)
  OBVIOUS
<1>3. /\ LogOK(E) /\ LogOK(T)
      /\ \A k : /\ Covered(L, t, k) <=> Covered(E, t, k) \/ Covered(T, t, k)
                /\ Covered(T, t, k) => LastRow(T, t, k) = LastRow(L, t, k)
                /\ Covered(E, t, k) /\ ~Covered(T, t, k) => LastRow(E, t, k) = LastRow(L, t, k)
  BY <1>1, LogCut
<1>4. /\ ch \in Changed
      /\ \A k \in Key : k \in DOMAIN ch <=> Covered(E, t, k)
      /\ \A k \in DOMAIN ch : ch[k] = LastRow(E, t, k)
  BY <1>1, <1>3, CollapsedLog
<1>5. \A k \in Key, v \in Value :
         <<k, v>> \in View(md) <=> IF k \in DOMAIN ch THEN ch[k] = v ELSE <<k, v>> \in View(old)
  <2>1. md = Sealed(old, ch, w) /\ ch \in Changed
    BY <1>1, <1>4
  <2> QED BY <2>1, SealedShows
<1>6. ASSUME NEW k \in Key
      PROVE  /\ Agrees(View(md), L, R, t, k) /\ (t \notin M => Holds(View(md), L, R, t, k))
             /\ Agrees(View(md), T, R, t, k) /\ (t \notin M => Holds(View(md), T, R, t, k))
  <2>1. Agrees(View(old), L, R, t, k) /\ (t \notin M => Holds(View(old), L, R, t, k))
    BY DEF Mirrored
  <2>2. CASE Covered(T, t, k)
    <3>1. Covered(L, t, k) /\ LastRow(T, t, k) = LastRow(L, t, k)
      BY <1>3, <2>2
    <3> QED BY <2>1, <2>2, <3>1 DEF Agrees, Holds
  <2>3. CASE ~Covered(T, t, k) /\ Covered(E, t, k)
    <3>1. Covered(L, t, k) /\ LastRow(E, t, k) = LastRow(L, t, k)
      BY <1>3, <2>3
    <3>2. \A v \in Value : <<k, v>> \in View(md) <=> R[t][k] = v
      BY <1>4, <1>5, <2>1, <2>3, <3>1 DEF Agrees
    <3> QED BY <2>1, <2>3, <3>1, <3>2 DEF Agrees, Holds
  <2>4. CASE ~Covered(T, t, k) /\ ~Covered(E, t, k)
    <3>1. ~Covered(L, t, k) /\ k \notin DOMAIN ch
      BY <1>3, <1>4, <2>4
    <3>2. \A v \in Value : <<k, v>> \in View(md) <=> <<k, v>> \in View(old)
      BY <1>5, <3>1
    <3> QED BY <2>1, <2>4, <3>1, <3>2 DEF Agrees, Holds
  <2> QED BY <2>2, <2>3, <2>4
<1> QED BY <1>1, <1>6 DEF Mirrored

LEMMA OutOfMirror ==
    ASSUME ShapeInv, NEW t \in Table, ~InMirror(t)
    PROVE  View(Current(t)) = {} /\ \A k : ~Covered(log, t, k)
<1>1. hint[t] \in Nat /\ ~(hint[t] > 0) /\ Published(Current(t), hint[t])
  BY DEF ShapeInv, SnapshotsOK, InMirror
<1>2. hint[t] = 0
  BY <1>1
<1>3. Current(t).data = {}
  BY <1>1, <1>2 DEF Published
<1>4. View(Current(t)) = {}
  BY <1>3 DEF View, Visible
<1>5. \A k : ~Covered(log, t, k)
  BY DEF InMirror, Covered, Seqs
<1> QED BY <1>4, <1>5

\* Steps that commit nothing and publish nothing.
LEMMA MirrorStands ==
    ASSUME NothingLost, UNCHANGED <<store, missing, diverged>>,
           \A t \in Table : Current(t)' = Current(t)
    PROVE  /\ LogMirrors'
           /\ seal' = Asleep => SealMirrors'
           /\ seal' # Asleep /\ seal # Asleep /\ seal'.todo = seal.todo /\ seal'.watermark = seal.watermark
                => SealMirrors'
<1>1. log' = log /\ rows' = rows /\ missing' = missing /\ diverged' = diverged
  BY DEF store
<1>2. \A t \in Table : View(Current(t))' = View(Current(t))
  BY DEF View
<1>3. LogMirrors'
  BY <1>1, <1>2 DEF NothingLost, LogMirrors
<1>4. seal' # Asleep /\ seal # Asleep /\ seal'.todo = seal.todo /\ seal'.watermark = seal.watermark
        => SealMirrors'
  BY <1>1, <1>2 DEF NothingLost, SealMirrors
<1> QED BY <1>3, <1>4 DEF SealMirrors

LEMMA SameSnapshots ==
    ASSUME UNCHANGED iceberg
    PROVE  \A t \in Table : Current(t)' = Current(t)
BY DEF iceberg, Current

\* The parts of the invariant that a step does not touch.
LEMMA PartsStand ==
    ASSUME NothingLost, \A t \in Table : Current(t)' = Current(t)
    PROVE  /\ UNCHANGED <<log, cdc_seq, client>> => Sequenced'
           /\ UNCHANGED <<log, seal>> => ScanStands'
           /\ seal' = Asleep => ScanStands'
           /\ compact' = compact => CompactionKeeps'
           /\ UNCHANGED <<store, cdc, diverged, pragma>> => BackfillStands'
           /\ pragma' = Idle => BackfillStands'
           /\ UNCHANGED <<cdc, state, registry, indexed, opened, unsaved, pragma>> => FlagsOK'
<1>1. UNCHANGED <<log, cdc_seq, client>> => Sequenced'
  BY DEF NothingLost, Sequenced, Logging, Fresh, Apart
<1>2. ASSUME UNCHANGED <<log, seal>> PROVE ScanStands'
  <2>1. Staged(seal) => seal.table \in Table
    BY DEF NothingLost, ShapeInv, SealShape, Staged, StagedOK, StagedIn, Asleep
  <2> QED BY <1>2, <2>1 DEF NothingLost, ScanStands, Staged
<1>3. seal' = Asleep => ScanStands'
  BY DEF ScanStands, Staged, Asleep
<1>4. ASSUME compact' = compact PROVE CompactionKeeps'
  <2>1. Staged(compact) => compact.table \in Table
    BY DEF NothingLost, ShapeInv, CompactShape, Staged, StagedOK, StagedIn, Asleep
  <2> QED BY <1>4, <2>1 DEF NothingLost, CompactionKeeps, Staged
<1>5. UNCHANGED <<store, cdc, diverged, pragma>> => BackfillStands'
  BY DEF NothingLost, BackfillStands, Backfilled, Backfilling, is_enabled, Staged, store
<1>6. pragma' = Idle => BackfillStands'
  BY DEF BackfillStands, Backfilled, Backfilling, Staged, Idle
<1>7. UNCHANGED <<cdc, state, registry, indexed, opened, unsaved, pragma>> => FlagsOK'
  BY DEF NothingLost, FlagsOK
<1> QED BY <1>1, <1>2, <1>3, <1>4, <1>5, <1>6, <1>7

\* A task that is not staging, or that stands where nothing was published.
LEMMA NextStands ==
    ASSUME NothingLost,
           \/ UNCHANGED iceberg
           \/ \A j \in {seal, compact, pragma} : Staged(j) =>
                 hint'[j.table] = hint[j.table] /\ metadata'[j.table] = metadata[j.table]
    PROVE  /\ seal' = seal \/ ~Staged(seal') => NextVersion(seal)'
           /\ compact' = compact \/ ~Staged(compact') => NextVersion(compact)'
           /\ pragma' = pragma \/ ~Staged(pragma') => NextVersion(pragma)'
<1>1. ASSUME NEW j \in {seal, compact, pragma}, Staged(j) PROVE NextIn(j, metadata', hint')
  <2>1. NextIn(j, metadata, hint)
    BY <1>1 DEF NothingLost, NextVersions, NextVersion
  <2> QED BY <1>1, <2>1 DEF NextIn, iceberg
<1> QED BY <1>1 DEF NextVersion, Staged

\* While a loop is at work no PRAGMA backfills.
LEMMA NoBackfill ==
    ASSUME NothingLost, seal # Asleep \/ compact # Asleep
    PROVE  ~Staged(pragma) /\ pragma.at # "load" /\ ~Backfilling
BY DEF NothingLost, Orderly, BackfillsAlone, Backfilling, Staged

\* The file of the next version is written: nothing is published yet.
LEMMA StagedPut ==
    ASSUME NothingLost, NEW j \in {seal, compact, pragma}, Staged(j), StagedOK(j),
           metadata' = [metadata EXCEPT ![j.table][j.version] = j.md], hint' = hint
    PROVE  /\ \A t \in Table : Current(t)' = Current(t)
           /\ \A t \in Table : t # j.table => metadata'[t] = metadata[t]
           /\ metadata'[j.table][j.version] = j.md
<1>1. ShapeInv /\ NextIn(j, metadata, hint)
  BY DEF NothingLost, NextVersions, NextVersion
<1>2. j.table \in Table /\ hint[j.table] \in Nat
  BY <1>1 DEF StagedOK, StagedIn, ShapeInv, SnapshotsOK
<1>3. hint[j.table] # j.version
  BY <1>1, <1>2 DEF NextIn
<1> QED BY <1>1, <1>3, MetadataPut

\* The pointer is moved: what was staged is the current snapshot.
LEMMA StagedPublished ==
    ASSUME NothingLost, NEW j \in {seal, compact, pragma}, StagedOK(j), PutHint(j)
    PROVE  /\ j.table \in Table /\ Current(j.table)' = j.md
           /\ \A t \in Table \ {j.table} :
                 Current(t)' = Current(t) /\ metadata'[t] = metadata[t] /\ hint'[t] = hint[t]
           /\ hint'[j.table] = j.version /\ j.version = hint[j.table] + 1
<1>1. ShapeInv /\ Staged(j) /\ j.at = "hint"
  BY DEF NothingLost, PutHint, Staged
<1>2. NextIn(j, metadata, hint)
  BY <1>1 DEF NothingLost, NextVersions, NextVersion
<1>3. /\ Current(j.table)' = metadata[j.table][j.version]
      /\ \A t \in Table \ {j.table} : Current(t)' = Current(t) /\ metadata'[t] = metadata[t]
      /\ hint' = [hint EXCEPT ![j.table] = j.version]
  BY <1>1, HintPut
<1>4. j.table \in Table /\ hint \in [Table -> 0..MaxVersion]
  BY <1>1 DEF StagedOK, StagedIn, ShapeInv, SnapshotsOK
<1> QED BY <1>1, <1>2, <1>3, <1>4 DEF NextIn

\* A change without an entry puts the table out of the mirror's care.
LEMMA UncapturedStands ==
    ASSUME NothingLost, NEW t \in Table, Uncaptured(t), UNCHANGED <<log, iceberg, seal>>,
           \A u \in Table \ {t} : rows'[u] = rows[u]
    PROVE  LogMirrors' /\ SealMirrors' /\ diverged \subseteq diverged'
<1>1. \A u \in Table : View(Current(u))' = View(Current(u))
  BY SameSnapshots DEF View
<1>2. LogOK(log) /\ (seal # Asleep => seal.watermark \in Nat)
  BY DEF NothingLost, ShapeInv, StoreOK, SealShape
<1>3. log' = log /\ seal' = seal
  OBVIOUS
<1>4. ASSUME NEW u \in Table \ {t}, NEW V, NEW L, Mirrored(V, L, rows, missing, u)
      PROVE  Mirrored(V, L, rows', missing', u)
  <2>1. rows'[u] = rows[u] /\ (u \in missing => u \in missing')
    BY DEF Uncaptured
  <2> QED BY <1>4, <2>1, MirrorKept
<1>5. CASE InMirror(t)
  <2>1. diverged' = diverged \cup {t}
    BY <1>5 DEF Uncaptured
  <2>2. LogMirrors'
    BY <1>1, <1>3, <1>4, <2>1 DEF NothingLost, LogMirrors
  <2>3. SealMirrors'
    BY <1>1, <1>3, <1>4, <2>1 DEF NothingLost, SealMirrors
  <2> QED BY <2>1, <2>2, <2>3
<1>6. CASE ~InMirror(t)
  <2>1. diverged' = diverged /\ t \in missing'
    BY <1>6 DEF Uncaptured
  <2>2. View(Current(t)) = {} /\ \A k : ~Covered(log, t, k)
    BY <1>6, OutOfMirror DEF NothingLost
  <2>3. Mirrored({}, log, rows', missing', t)
    BY <2>1, <2>2, MirrorOfNothing
  <2>4. LogMirrors'
    BY <1>1, <1>3, <1>4, <2>1, <2>2, <2>3 DEF NothingLost, LogMirrors
  <2>5. ASSUME seal # Asleep PROVE Mirrored({}, Tail(log, seal.watermark), rows', missing', t)
    <3>1. \A k : ~Covered(Tail(log, seal.watermark), t, k)
      BY <1>2, <2>2, <2>5, LogCut
    <3> QED BY <2>1, <3>1, MirrorOfNothing
  <2>6. SealMirrors'
    BY <1>1, <1>3, <1>4, <2>1, <2>2, <2>5 DEF NothingLost, SealMirrors
  <2> QED BY <2>1, <2>4, <2>6
<1> QED BY <1>5, <1>6

LEMMA LostAllocate == ASSUME NothingLost, Orderly', NEW c \in Client, allocate(c) PROVE NothingLost'
<1>1. ShapeInv /\ ShapeInv' /\ Orderly /\ AsKept
  BY ShapeAllocate DEF NothingLost
<1>2. UNCHANGED <<store, commit_seq, seal_signal, iceberg, loops, control, reader, history>>
  BY DEF allocate
<1>3. \A t \in Table : Current(t)' = Current(t)
  BY <1>2, SameSnapshots
<1>4. LogMirrors' /\ ScanStands' /\ CompactionKeeps' /\ FlagsOK' /\ BackfillStands'
  BY <1>2, <1>3, MirrorStands, PartsStand DEF store, loops, control, history
<1>5. SealMirrors' /\ NextVersions'
  BY <1>2, <1>3, MirrorStands, NextStands DEF loops, control, history, NextVersions
<1>6. PICK t, k, row :
         /\ \A d \in Client : Compatible(d, t, k)
         /\ client' = [client EXCEPT ![c] =
                [at |-> "write", seq |-> IF is_enabled(t) THEN next_cdc_seq ELSE 0,
                 entry |-> [table |-> t, key |-> k, row |-> row]]]
         /\ cdc_seq' = IF is_enabled(t) THEN next_cdc_seq ELSE cdc_seq
  BY DEF allocate
<1>7. PICK q : q = IF is_enabled(t) THEN next_cdc_seq ELSE 0
  OBVIOUS
<1>8. /\ client'[c].seq = q /\ client'[c].entry.table = t /\ client'[c].entry.key = k
      /\ \A d \in Client \ {c} : client'[d] = client[d]
  BY <1>1, <1>6, <1>7 DEF ShapeInv, ClientShape
<1>9. /\ log' = log /\ DOMAIN log \subseteq Nat /\ q \in Nat
      /\ cdc_seq \in Nat \cup {Unseeded}
      /\ \A d \in Client : client[d] # Ready => client[d].seq \in Nat
  <2>1. next_cdc_seq \in Nat
    BY <1>1, NextSequence
  <2> QED BY <1>1, <1>2, <1>7, <2>1, Writing DEF store, ShapeInv, StoreOK, LogOK, CountersOK
<1>10. ASSUME NEW d \in Client, Logging(d) PROVE client[d].seq <= cdc_seq /\ cdc_seq # Unseeded
  <2>1. client[d].seq <= cdc_seq /\ client[d].seq > 0
    BY <1>10 DEF NothingLost, Sequenced, Fresh, Logging
  <2> QED BY <1>9, <1>10, <2>1 DEF Unseeded, Logging
<1>11. q > 0 =>
         /\ cdc_seq' = q
         /\ \A s \in DOMAIN log : s < q
         /\ cdc_seq # Unseeded => cdc_seq < q
  <2>1. CASE is_enabled(t)
    <3>1. q = next_cdc_seq /\ cdc_seq' = q
      BY <1>6, <1>7, <2>1
    <3>2. CASE cdc_seq = Unseeded
      BY <1>1, <3>1, <3>2, NextSequence
    <3>3. CASE cdc_seq # Unseeded
      <4>1. cdc_seq \in Nat /\ q = cdc_seq + 1
        BY <1>1, <3>1, <3>3, NextSequence
      <4>2. \A s \in DOMAIN log : s <= cdc_seq
        BY <3>3 DEF NothingLost, Sequenced
      <4> QED BY <1>9, <3>1, <4>1, <4>2
    <3> QED BY <3>2, <3>3
  <2>2. CASE ~is_enabled(t)
    BY <1>7, <2>2
  <2> QED BY <2>1, <2>2
<1>12. ~(q > 0) => cdc_seq' = cdc_seq
  <2>1. next_cdc_seq > 0
    BY <1>1, NextSequence
  <2> QED BY <1>6, <1>7, <2>1
<1>13. cdc_seq' # Unseeded => \A s \in DOMAIN log' : s <= cdc_seq'
  <2>1. CASE q > 0
    BY <1>9, <1>11, <2>1
  <2>2. CASE ~(q > 0)
    BY <1>9, <1>12, <2>2 DEF NothingLost, Sequenced
  <2> QED BY <2>1, <2>2
<1>14. ASSUME NEW d \in Client, Logging(d)' PROVE Fresh(d)'
  <2>1. CASE d = c
    <3>1. q > 0
      BY <1>8, <1>14, <2>1 DEF Logging
    <3>2. q <= cdc_seq' /\ q \notin DOMAIN log /\ \A s \in DOMAIN log : s < q
      BY <1>9, <1>11, <3>1
    <3>3. \A x, y : Seqs(log, x, y) \subseteq DOMAIN log
      BY DEF Seqs
    <3> QED BY <1>8, <1>9, <2>1, <3>2, <3>3 DEF Fresh
  <2>2. CASE d # c
    <3>1. client'[d] = client[d] /\ Logging(d)
      BY <1>8, <1>14, <2>2 DEF Logging
    <3>2. Fresh(d) /\ client[d].seq <= cdc_seq /\ cdc_seq # Unseeded /\ client[d].seq \in Nat
      BY <1>9, <1>10, <3>1 DEF NothingLost, Sequenced, Logging
    <3>3. cdc_seq <= cdc_seq' /\ cdc_seq \in Nat /\ cdc_seq' \in Nat
      BY <1>9, <1>11, <1>12, <3>2
    <3>4. client[d].seq <= cdc_seq'
      BY <3>2, <3>3
    <3> QED BY <1>9, <3>1, <3>2, <3>4 DEF Fresh
  <2> QED BY <2>1, <2>2
<1>15. ASSUME NEW d \in Client \ {c}, client'[d] # Ready
       PROVE  /\ client[d].seq = q => q = 0
              /\ ~(client[d].entry.table = t /\ client[d].entry.key = k)
  <2>1. client[d] # Ready /\ Compatible(d, t, k) /\ client[d].seq \in Nat
    BY <1>6, <1>8, <1>9, <1>15
  <2>2. ~(client[d].entry.table = t /\ client[d].entry.key = k)
    BY <2>1 DEF Compatible
  <2>3. ASSUME client[d].seq = q, q # 0 PROVE FALSE
    <3>1. q > 0 /\ Logging(d)
      BY <1>9, <2>1, <2>3 DEF Logging
    <3>2. q <= cdc_seq /\ cdc_seq < q /\ cdc_seq \in Nat
      BY <1>9, <1>10, <1>11, <2>3, <3>1
    <3> QED BY <1>9, <3>2
  <2> QED BY <2>2, <2>3
<1>16. ASSUME NEW d \in Client, NEW f \in Client, d # f, client'[d] # Ready, client'[f] # Ready
       PROVE  Apart(d, f)'
  <2>1. CASE d = c
    BY <1>8, <1>15, <1>16, <2>1 DEF Apart
  <2>2. CASE f = c
    BY <1>8, <1>15, <1>16, <2>2 DEF Apart
  <2>3. CASE d # c /\ f # c
    BY <1>8, <1>16, <2>3 DEF NothingLost, Sequenced, Apart
  <2> QED BY <2>1, <2>2, <2>3
<1>17. Sequenced'
  BY <1>13, <1>14, <1>16 DEF Sequenced
<1> QED BY <1>1, <1>4, <1>5, <1>17 DEF NothingLost, AsKept

\* A commit that writes its entry.
LEMMA LostLogged ==
    ASSUME NothingLost, Orderly', NEW c \in Client, write_batch(c), client[c].seq > 0
    PROVE  NothingLost'
<1>1. ShapeInv /\ ShapeInv' /\ Orderly /\ AsKept
  BY ShapeWrite DEF NothingLost
<1>2. PICK e, q : e = client[c].entry /\ q = client[c].seq
  OBVIOUS
<1>3. client[c] # Ready /\ Logging(c)
  BY DEF write_batch, Logging
<1>4. /\ q \in Nat \ {0} /\ e \in Entries /\ e.table \in Table /\ e.key \in Key
      /\ e.row \in Value \cup {Absent}
  BY <1>1, <1>2, <1>3, Writing
<1>5. rows' = Put(rows, e) /\ log' = With(log, q, e)
  BY <1>2 DEF write_batch, WriteRow, WriteEntry, With, Put
<1>6. /\ UNCHANGED <<cdc_seq, iceberg, loops, control, missing, diverged, unsaved>>
      /\ client' = [client EXCEPT ![c] = Ready]
  BY DEF write_batch
<1>7. q <= cdc_seq /\ q \notin DOMAIN log /\ \A s \in Seqs(log, e.table, e.key) : s < q
  BY <1>2, <1>3 DEF NothingLost, Sequenced, Fresh
<1>8. LogOK(log) /\ rows \in [Table -> [Key -> Value \cup {Absent}]]
  BY <1>1 DEF ShapeInv, StoreOK
<1>9. \A t \in Table : Current(t)' = Current(t) /\ View(Current(t))' = View(Current(t))
  BY <1>6, SameSnapshots DEF View
<1>10. ASSUME NEW L, LogOK(L), q \notin DOMAIN L, \A s \in Seqs(L, e.table, e.key) : s < q,
              NEW V, NEW t \in Table, Mirrored(V, L, rows, missing, t)
       PROVE  Mirrored(V, With(L, q, e), rows', missing, t)
  <2>1. PICK L2 : L2 = With(L, q, e)
    OBVIOUS
  <2>2. Mirrored(V, L2, rows', missing, t)
    BY <1>4, <1>5, <1>8, <1>10, <2>1, MirrorWritten
  <2> QED BY <2>1, <2>2
<1>11. LogMirrors'
  BY <1>5, <1>6, <1>7, <1>8, <1>9, <1>10 DEF NothingLost, LogMirrors
<1>12. ASSUME seal # Asleep
       PROVE  /\ seal.watermark \in DOMAIN log /\ seal.watermark \in Nat /\ seal.watermark < q
              /\ seal.entries = UpTo(log, seal.watermark)
  <2>1. seal.watermark \in DOMAIN log /\ seal.entries = UpTo(log, seal.watermark)
    BY <1>12 DEF NothingLost, ScanStands
  <2>2. q > seal.watermark
    BY <1>1, <1>2, <1>3, <1>12 DEF Orderly, LandInOrder
  <2> QED BY <1>4, <1>8, <2>1, <2>2 DEF LogOK
<1>13. ASSUME NEW w \in Nat, w < q
       PROVE  Tail(log', w) = With(Tail(log, w), q, e) /\ UpTo(log', w) = UpTo(log, w)
  <2>1. PICK M : M = With(log, q, e)
    OBVIOUS
  <2>2. q \in Nat /\ q \notin DOMAIN log
    BY <1>4, <1>7
  <2>3. Tail(M, w) = With(Tail(log, w), q, e) /\ UpTo(M, w) = UpTo(log, w)
    BY <1>8, <1>13, <2>1, <2>2, TailGrows
  <2> QED BY <1>5, <2>1, <2>3
<1>14. SealMirrors'
  <2>1. SUFFICES ASSUME seal # Asleep, NEW t \in Table \ (diverged \cup seal.todo)
                 PROVE  Mirrored(View(Current(t)), Tail(log', seal.watermark), rows', missing, t)
    BY <1>6, <1>9 DEF SealMirrors, loops
  <2>2. PICK L : L = Tail(log, seal.watermark)
    OBVIOUS
  <2>3. LogOK(L)
    BY <1>8, <1>12, <2>1, <2>2, LogCut
  <2>4. q \notin DOMAIN L /\ \A s \in Seqs(L, e.table, e.key) : s < q
    BY <1>7, <2>2 DEF Tail, Seqs
  <2>5. Mirrored(View(Current(t)), L, rows, missing, t)
    BY <2>1, <2>2 DEF NothingLost, SealMirrors
  <2>6. Mirrored(View(Current(t)), With(L, q, e), rows', missing, t)
    BY <1>10, <2>3, <2>4, <2>5
  <2> QED BY <1>12, <1>13, <2>1, <2>2, <2>6
<1>15. ScanStands'
  <2>1. seal' = seal
    BY <1>6 DEF loops
  <2>2. seal # Asleep => seal.watermark \in DOMAIN log' /\ seal.entries = UpTo(log', seal.watermark)
    BY <1>5, <1>12, <1>13 DEF With
  <2>3. Staged(seal) => seal.table \in Table
    BY <1>1 DEF ShapeInv, SealShape, Staged, StagedOK, StagedIn, Asleep
  <2> QED BY <1>9, <2>1, <2>2, <2>3 DEF NothingLost, ScanStands, Staged
<1>16. Sequenced'
  <2>1. client'[c] = Ready /\ \A d \in Client \ {c} : client'[d] = client[d]
    BY <1>1, <1>6 DEF ShapeInv, ClientShape
  <2>2. /\ \A s \in DOMAIN log' : s = q \/ s \in DOMAIN log
        /\ \A t, k : ~(t = e.table /\ k = e.key) => Seqs(log', t, k) = Seqs(log, t, k)
    <3>1. PICK L2 : L2 = With(log, q, e)
      OBVIOUS
    <3>2. \A t, k : ~(t = e.table /\ k = e.key) => Seqs(L2, t, k) = Seqs(log, t, k)
      BY <1>4, <1>7, <1>8, <3>1, LogGrows
    <3> QED BY <1>5, <3>1, <3>2 DEF With
  <2>3. cdc_seq # Unseeded => \A s \in DOMAIN log' : s <= cdc_seq
    BY <1>7, <2>2 DEF NothingLost, Sequenced
  <2>4. ASSUME NEW d \in Client, Logging(d)' PROVE Fresh(d)'
    <3>1. d # c /\ client'[d] = client[d] /\ Logging(d)
      BY <2>1, <2>4 DEF Logging
    <3>2. Fresh(d) /\ Apart(d, c)
      BY <1>3, <3>1 DEF NothingLost, Sequenced, Logging
    <3>3. client[d].seq # q /\ ~(client[d].entry.table = e.table /\ client[d].entry.key = e.key)
      BY <1>2, <3>1, <3>2 DEF Apart, Logging
    <3> QED BY <1>6, <2>2, <3>1, <3>2, <3>3 DEF Fresh
  <2>5. ASSUME NEW d \in Client, NEW f \in Client, d # f, client'[d] # Ready, client'[f] # Ready
        PROVE  Apart(d, f)'
    <3>1. client'[d] = client[d] /\ client'[f] = client[f]
      BY <2>1, <2>5
    <3> QED BY <2>5, <3>1 DEF NothingLost, Sequenced, Apart
  <2> QED BY <1>6, <2>3, <2>4, <2>5 DEF Sequenced
<1>17. CompactionKeeps' /\ FlagsOK' /\ NextVersions'
  BY <1>6, <1>9, PartsStand, NextStands DEF loops, control, NextVersions
<1>18. BackfillStands'
  <2>1. cdc' = cdc /\ pragma' = pragma /\ diverged' = diverged
    BY <1>6 DEF control
  <2>3. ASSUME NEW t \in Table, NEW k \in Key, ~Covered(log', t, k)
        PROVE  ~Covered(log, t, k) /\ rows'[t][k] = rows[t][k]
    <3>1. PICK L2 : L2 = With(log, q, e)
      OBVIOUS
    <3>2. /\ Covered(L2, e.table, e.key)
          /\ \A u, j : ~(u = e.table /\ j = e.key) => (Covered(L2, u, j) <=> Covered(log, u, j))
      BY <1>4, <1>7, <1>8, <3>1, LogGrows
    <3>3. ~(t = e.table /\ k = e.key)
      BY <1>5, <2>3, <3>1, <3>2
    <3> QED BY <1>4, <1>5, <1>8, <2>3, <3>1, <3>2, <3>3 DEF Put
  <2>4. pragma.at = "load" \/ Staged(pragma) => pragma.table \in Table
    BY <1>1, PragmaRecord DEF Staged, StagedOK, StagedIn
  <2>5. \A t \in Table : Backfilled(t)' => is_enabled(t)'
    BY <2>1 DEF NothingLost, BackfillStands, Backfilled, Backfilling, is_enabled
  <2>6. pragma.at = "load" => \A k \in Key : ~Covered(log', pragma.table, k) =>
         /\ k \in DOMAIN pragma.rows <=> rows'[pragma.table][k] # Absent
         /\ k \in DOMAIN pragma.rows => pragma.rows[k] = rows'[pragma.table][k]
    BY <2>3, <2>4 DEF NothingLost, BackfillStands
  <2>7. Staged(pragma) /\ pragma.table \notin diverged =>
         \A k \in Key : ~Covered(log', pragma.table, k) =>
            \A v \in Value : <<k, v>> \in View(pragma.md) <=> rows'[pragma.table][k] = v
    BY <2>3, <2>4 DEF NothingLost, BackfillStands
  <2> QED BY <2>1, <2>5, <2>6, <2>7 DEF BackfillStands, Staged
<1> QED BY <1>1, <1>11, <1>14, <1>15, <1>16, <1>17, <1>18 DEF NothingLost, AsKept

\* A commit on a table that is not mirrored.
LEMMA LostUnlogged ==
    ASSUME NothingLost, Orderly', NEW c \in Client, write_batch(c), ~(client[c].seq > 0)
    PROVE  NothingLost'
<1>1. ShapeInv /\ ShapeInv' /\ Orderly /\ AsKept
  BY ShapeWrite DEF NothingLost
<1>2. PICK e : e = client[c].entry
  OBVIOUS
<1>3. client[c] # Ready
  BY DEF write_batch
<1>4. e \in Entries /\ e.table \in Table /\ e.key \in Key
  BY <1>1, <1>2, <1>3, Writing
<1>5. rows' = Put(rows, e) /\ log' = log /\ Uncaptured(e.table)
  BY <1>2 DEF write_batch, WriteRow, Put
<1>6. /\ UNCHANGED <<cdc_seq, iceberg, loops, control, unsaved>>
      /\ client' = [client EXCEPT ![c] = Ready]
  BY DEF write_batch
<1>7. \A u \in Table \ {e.table} : rows'[u] = rows[u]
  BY <1>1, <1>4, <1>5 DEF Put, ShapeInv, StoreOK
<1>8. LogMirrors' /\ SealMirrors' /\ diverged \subseteq diverged'
  BY <1>4, <1>5, <1>6, <1>7, UncapturedStands DEF loops
<1>9. \A t \in Table : Current(t)' = Current(t)
  BY <1>6, SameSnapshots
<1>10. ScanStands' /\ CompactionKeeps' /\ FlagsOK' /\ NextVersions'
  BY <1>5, <1>6, <1>9, PartsStand, NextStands DEF loops, control, NextVersions
<1>11. client'[c] = Ready /\ \A d \in Client \ {c} : client'[d] = client[d]
  BY <1>1, <1>6 DEF ShapeInv, ClientShape
<1>12. Sequenced'
  <2>1. ASSUME NEW d \in Client, client'[d] # Ready PROVE client'[d] = client[d]
    BY <1>11, <2>1
  <2>2. \A d \in Client : Logging(d)' => Fresh(d)'
    BY <1>5, <1>6, <2>1 DEF NothingLost, Sequenced, Logging, Fresh
  <2>3. ASSUME NEW d \in Client, NEW f \in Client, d # f, client'[d] # Ready, client'[f] # Ready
        PROVE  Apart(d, f)'
    BY <2>1, <2>3 DEF NothingLost, Sequenced, Apart
  <2> QED BY <1>5, <1>6, <2>2, <2>3 DEF NothingLost, Sequenced
<1>13. BackfillStands'
  <2>1. cdc' = cdc /\ pragma' = pragma
    BY <1>6 DEF control
  <2>2. \A t \in Table : Backfilled(t)' => Backfilled(t) /\ is_enabled(t)'
    BY <2>1 DEF NothingLost, BackfillStands, Backfilled, Backfilling, is_enabled
  <2>3. \A t \in Table : Backfilled(t) => t # e.table
    BY <1>1, <1>2, <1>3 DEF Orderly, FlagSeen
  <2>4. pragma.at = "load" \/ Staged(pragma) => pragma.table \in Table /\ Backfilled(pragma.table)
    BY <1>1, PragmaRecord DEF Staged, StagedOK, StagedIn, Backfilled, Backfilling
  <2>5. pragma.at = "load" \/ Staged(pragma) => rows'[pragma.table] = rows[pragma.table]
    BY <1>7, <2>3, <2>4
  <2> QED BY <1>5, <1>8, <2>1, <2>2, <2>5 DEF NothingLost, BackfillStands, Staged
<1> QED BY <1>1, <1>8, <1>10, <1>12, <1>13 DEF NothingLost, AsKept

LEMMA LostWrite == ASSUME NothingLost, Orderly', NEW c \in Client, write_batch(c) PROVE NothingLost'
BY LostLogged, LostUnlogged

LEMMA LostSealScan == ASSUME NothingLost, Orderly', seal_scan PROVE NothingLost'
<1>1. ShapeInv /\ ShapeInv' /\ Orderly /\ AsKept
  BY ShapeSealScan DEF NothingLost
<1>2. UNCHANGED <<store, sequences, client, iceberg, compact, control, history>>
  BY DEF seal_scan
<1>3. \A t \in Table : Current(t)' = Current(t)
  BY <1>2, SameSnapshots
<1>4. LogMirrors' /\ (seal' = Asleep => SealMirrors')
  BY <1>2, <1>3, MirrorStands DEF history
<1>5. Sequenced' /\ CompactionKeeps' /\ BackfillStands' /\ FlagsOK'
  BY <1>2, <1>3, PartsStand DEF store, sequences, control, history
<1>8. ~Staged(seal') => NextVersions'
  BY <1>2, NextStands DEF NextVersions, control
<1>6. CASE DOMAIN log = {}
  <2>1. seal' = Asleep
    BY <1>6 DEF seal_scan
  <2>2. ScanStands'
    BY <1>3, <2>1, PartsStand
  <2>3. ~Staged(seal')
    BY <2>1 DEF Staged, Asleep
  <2> QED BY <1>1, <1>4, <1>5, <1>8, <2>1, <2>2, <2>3 DEF NothingLost, AsKept
<1>7. CASE DOMAIN log # {}
  <2>1. PICK w, E, T : w = Max(DOMAIN log) /\ E = scan_cdc(0) /\ T = {log[s].table : s \in DOMAIN log}
    OBVIOUS
  <2>2. seal' = [at |-> "tables", entries |-> E, watermark |-> w, todo |-> T]
    BY <1>7, <2>1 DEF seal_scan
  <2>3. LogOK(log)
    BY <1>1 DEF ShapeInv, StoreOK
  <2>4. w \in DOMAIN log /\ \A s \in DOMAIN log : s <= w
    BY <1>7, <2>1, <2>3, MaxIsGreatest DEF LogOK
  <2>5. \A s \in DOMAIN log : s \in Nat /\ s > 0 /\ s <= w
    BY <2>3, <2>4 DEF LogOK
  <2>6. {s \in DOMAIN log : s > 0} = {s \in DOMAIN log : s <= w}
    BY <2>5
  <2>7. E = UpTo(log, w)
    BY <2>1, <2>6 DEF UpTo, scan_cdc
  <2>8. log' = log /\ rows' = rows /\ missing' = missing /\ diverged' = diverged
    BY <1>2 DEF store, history
  <2>9. ScanStands'
    BY <2>2, <2>4, <2>7, <2>8 DEF ScanStands, Staged
  <2>10. SealMirrors'
    <3>1. SUFFICES ASSUME NEW t \in Table \ (diverged \cup T)
                   PROVE  Mirrored(View(Current(t)), Tail(log, w), rows, missing, t)
      BY <1>3, <2>2, <2>8 DEF SealMirrors, View
    <3>2. \A k : ~Covered(log, t, k)
      BY <2>1, <3>1 DEF Covered, Seqs
    <3>3. w \in Nat
      BY <2>4, <2>5
    <3>4. \A k : ~Covered(Tail(log, w), t, k)
      BY <2>3, <3>2, <3>3, LogCut
    <3>5. Mirrored(View(Current(t)), log, rows, missing, t)
      BY <3>1 DEF NothingLost, LogMirrors
    <3> QED BY <3>2, <3>4, <3>5 DEF Mirrored, Agrees, Holds
  <2>11. ~Staged(seal')
    BY <2>2 DEF Staged
  <2> QED BY <1>1, <1>4, <1>5, <1>8, <2>9, <2>10, <2>11 DEF NothingLost, AsKept
<1> QED BY <1>6, <1>7

LEMMA LostSealTable == ASSUME NothingLost, Orderly', seal_table PROVE NothingLost'
<1>1. ShapeInv /\ ShapeInv' /\ Orderly /\ AsKept
  BY ShapeSealTable DEF NothingLost
<1>2. UNCHANGED <<store, sequences, client, iceberg, compact, control, history>>
  BY DEF seal_table
<1>3. \A t \in Table : Current(t)' = Current(t)
  BY <1>2, SameSnapshots
<1>4. /\ LogMirrors' /\ (seal' = Asleep => SealMirrors')
      /\ seal' # Asleep /\ seal # Asleep /\ seal'.todo = seal.todo /\ seal'.watermark = seal.watermark
            => SealMirrors'
  BY <1>2, <1>3, MirrorStands DEF history
<1>5. Sequenced' /\ CompactionKeeps' /\ BackfillStands' /\ FlagsOK'
  BY <1>2, <1>3, PartsStand DEF store, sequences, control, history
<1>6. PICK t \in seal.todo :
         seal' = IF t \in dropped THEN Asleep
                 ELSE [at |-> "metadata", entries |-> seal.entries, watermark |-> seal.watermark,
                       todo |-> seal.todo, table |-> t, version |-> hint[t] + 1,
                       md |-> Sealed(Current(t), collapse_lww(seal.entries, t), seal.watermark)]
  BY DEF seal_table
<1>7. seal # Asleep /\ t \in Table
  <2>1. seal.at # "idle"
    BY DEF seal_table
  <2> QED BY <1>1, <2>1, SealingRecord
<1>10. NextVersion(compact)' /\ NextVersion(pragma)' /\ (~Staged(seal') => NextVersion(seal)')
  BY <1>2, NextStands DEF control
<1>8. CASE t \in dropped
  <2>1. seal' = Asleep
    BY <1>6, <1>8
  <2>2. ScanStands'
    BY <1>3, <2>1, PartsStand
  <2>3. ~Staged(seal')
    BY <2>1 DEF Staged, Asleep
  <2> QED BY <1>1, <1>4, <1>5, <1>10, <2>1, <2>2, <2>3 DEF NothingLost, AsKept, NextVersions
<1>9. CASE t \notin dropped
  <2>1. PICK md : md = Sealed(Current(t), collapse_lww(seal.entries, t), seal.watermark)
    OBVIOUS
  <2>2. seal' = [at |-> "metadata", entries |-> seal.entries, watermark |-> seal.watermark,
                 todo |-> seal.todo, table |-> t, version |-> hint[t] + 1, md |-> md]
    BY <1>6, <1>9, <2>1
  <2>3. seal' # Asleep
    BY <2>2 DEF Asleep
  <2>4. SealMirrors'
    BY <1>4, <1>7, <2>2, <2>3
  <2>5. md = Sealed(Current(t)', collapse_lww(seal.entries, t), seal.watermark)
    BY <1>3, <1>7, <2>1
  <2>6. log' = log
    BY <1>2 DEF store
  <2>7. ScanStands'
    BY <1>7, <2>2, <2>5, <2>6 DEF NothingLost, ScanStands, Staged
  <2>8. NextVersion(seal)'
    <3>1. seal'.at = "metadata" /\ seal'.table = t /\ seal'.version = hint'[t] + 1
      BY <1>2, <2>2 DEF iceberg
    <3> QED BY <3>1 DEF NextVersion, NextIn
  <2> QED BY <1>1, <1>4, <1>5, <1>10, <2>4, <2>7, <2>8 DEF NothingLost, AsKept, NextVersions
<1> QED BY <1>8, <1>9

LEMMA LostSealPutMetadata == ASSUME NothingLost, Orderly', seal_put_metadata PROVE NothingLost'
<1>1. ShapeInv /\ ShapeInv' /\ Orderly /\ AsKept
  BY ShapeSealPutMetadata DEF NothingLost
<1>2. UNCHANGED <<store, sequences, client, compact, control, history>>
  BY DEF seal_put_metadata
<1>3. /\ seal.at = "metadata" /\ seal' = [seal EXCEPT !.at = "hint"] /\ hint' = hint
      /\ metadata' = [metadata EXCEPT ![seal.table][seal.version] = seal.md]
  BY DEF seal_put_metadata, PutMetadata
<1>4. seal # Asleep /\ Staged(seal) /\ StagedOK(seal)
  BY <1>1, <1>3, SealingRecord DEF Staged
<1>5. /\ \A t \in Table : Current(t)' = Current(t)
      /\ \A t \in Table : t # seal.table => metadata'[t] = metadata[t]
      /\ metadata'[seal.table][seal.version] = seal.md
  BY <1>1, <1>3, <1>4, StagedPut
<1>6. seal' = [at |-> "hint", entries |-> seal.entries, watermark |-> seal.watermark,
               todo |-> seal.todo, table |-> seal.table, version |-> seal.version, md |-> seal.md]
  BY <1>1, <1>3, <1>4 DEF ShapeInv, SealShape
<1>7. seal' # Asleep
  BY <1>6 DEF Asleep
<1>8. LogMirrors' /\ SealMirrors'
  BY <1>2, <1>4, <1>5, <1>6, <1>7, MirrorStands DEF history
<1>9. Sequenced' /\ CompactionKeeps' /\ BackfillStands' /\ FlagsOK'
  BY <1>2, <1>5, PartsStand DEF store, sequences, control, history
<1>10. ScanStands'
  <2>1. seal.table \in Table /\ log' = log
    BY <1>2, <1>4 DEF StagedOK, StagedIn, store
  <2> QED BY <1>4, <1>5, <1>6, <1>7, <2>1 DEF NothingLost, ScanStands, Staged
<1>11. NextVersions'
  <2>1. NextVersion(compact)'
    <3>1. Staged(compact) => compact.table \in Table /\ compact.table # seal.table
      BY <1>1, <1>4, CompactingRecord DEF Orderly, PublishApart, StagedOK, StagedIn, Staged
    <3>2. Staged(compact) => metadata'[compact.table] = metadata[compact.table]
      BY <1>5, <3>1
    <3> QED BY <1>2, <1>3, <3>2 DEF NothingLost, NextVersions, NextVersion, NextIn, Staged
  <2>2. NextVersion(pragma)'
    BY <1>2, <1>4, NoBackfill DEF NextVersion, Staged, control
  <2>3. NextVersion(seal)'
    BY <1>3, <1>4, <1>5, <1>6 DEF NothingLost, NextVersions, NextVersion, NextIn
  <2> QED BY <2>1, <2>2, <2>3 DEF NextVersions
<1> QED BY <1>1, <1>8, <1>9, <1>10, <1>11 DEF NothingLost, AsKept

LEMMA LostSealPutHint == ASSUME NothingLost, Orderly', seal_put_hint PROVE NothingLost'
<1>1. ShapeInv /\ ShapeInv' /\ Orderly /\ AsKept
  BY ShapeSealPutHint DEF NothingLost
<1>2. /\ UNCHANGED <<store, sequences, client, compact, control, missing, diverged, unsaved>>
      /\ seal.at = "hint" /\ PutHint(seal)
  BY DEF seal_put_hint, PutHint
<1>14. PICK at \in {"mark", "tables"} :
          seal' = [at |-> at, entries |-> seal.entries, watermark |-> seal.watermark,
                   todo |-> seal.todo \ {seal.table}]
  BY DEF seal_put_hint
<1>15. seal' # Asleep /\ ~Staged(seal')
  BY <1>14 DEF Asleep, Staged
<1>3. seal # Asleep /\ Staged(seal) /\ StagedOK(seal) /\ ~Staged(pragma) /\ pragma.at # "load"
  BY <1>1, <1>2, SealingRecord, NoBackfill DEF Staged
<1>4. PICK j, u, w, E, new : /\ j = seal /\ u = seal.table /\ w = seal.watermark /\ E = seal.entries
                             /\ new = seal.md
  OBVIOUS
<1>5. /\ Current(u)' = new
      /\ \A t \in Table \ {u} :
            Current(t)' = Current(t) /\ metadata'[t] = metadata[t] /\ hint'[t] = hint[t]
  <2>1. StagedOK(j) /\ PutHint(j) /\ u = j.table /\ new = j.md /\ j \in {seal, compact, pragma}
    BY <1>2, <1>3, <1>4
  <2> QED BY <2>1, StagedPublished
<1>6. /\ u \in Table /\ w \in Nat /\ E = UpTo(log, w) /\ w \in DOMAIN log
      /\ new = Sealed(Current(u), collapse_lww(E, u), w)
  BY <1>1, <1>3, <1>4, SealingRecord DEF NothingLost, ScanStands, StagedOK, StagedIn, ShapeInv, SealShape
<1>7. /\ log' = log /\ rows' = rows /\ missing' = missing /\ diverged' = diverged
      /\ LogOK(log) /\ rows \in [Table -> [Key -> Value \cup {Absent}]]
      /\ hint[u] \in Nat /\ Published(Current(u), hint[u])
  BY <1>1, <1>2, <1>6 DEF store, ShapeInv, StoreOK, SnapshotsOK
<1>8. ASSUME u \notin diverged
      PROVE  Mirrored(View(new), log, rows, missing, u) /\ Mirrored(View(new), Tail(log, w), rows, missing, u)
  <2>1. Mirrored(View(Current(u)), log, rows, missing, u)
    BY <1>6, <1>8 DEF NothingLost, LogMirrors
  <2>2. PICK old, n : old = Current(u) /\ n = hint[u]
    OBVIOUS
  <2> QED BY <1>6, <1>7, <2>1, <2>2, MirrorSealed
<1>9. LogMirrors'
  <2>1. SUFFICES ASSUME NEW t \in Table \ diverged
                 PROVE  Mirrored(View(Current(t)'), log, rows, missing, t)
    BY <1>7 DEF LogMirrors, View
  <2>2. CASE t = u
    BY <1>5, <1>8, <2>1, <2>2
  <2>3. CASE t # u
    BY <1>5, <2>1, <2>3 DEF NothingLost, LogMirrors
  <2> QED BY <2>2, <2>3
<1>10. SealMirrors'
  <2>1. SUFFICES ASSUME NEW t \in Table \ (diverged \cup (seal.todo \ {u}))
                 PROVE  Mirrored(View(Current(t)'), Tail(log, w), rows, missing, t)
    BY <1>4, <1>7, <1>14 DEF SealMirrors, View
  <2>2. CASE t = u
    BY <1>5, <1>8, <2>1, <2>2
  <2>3. CASE t # u
    <3>1. Current(t)' = Current(t)
      BY <1>5, <2>1, <2>3
    <3>2. Mirrored(View(Current(t)), Tail(log, w), rows, missing, t)
      BY <1>3, <1>4, <2>1, <2>3 DEF NothingLost, SealMirrors
    <3> QED BY <3>1, <3>2
  <2> QED BY <2>2, <2>3
<1>11. ScanStands'
  BY <1>3, <1>7, <1>14, <1>15 DEF NothingLost, ScanStands
<1>12. Sequenced' /\ BackfillStands' /\ FlagsOK'
  <2>1. Sequenced'
    BY <1>2, <1>7 DEF NothingLost, Sequenced, Logging, Fresh, Apart, sequences
  <2>2. BackfillStands'
    BY <1>2, <1>3 DEF NothingLost, BackfillStands, Backfilled, Backfilling, Staged, is_enabled, control
  <2>3. FlagsOK'
    BY <1>2 DEF NothingLost, FlagsOK, control
  <2> QED BY <2>1, <2>2, <2>3
<1>13. CompactionKeeps' /\ NextVersions'
  <2>1. Staged(compact) => compact.table \in Table \ {u}
    BY <1>1, <1>3, <1>4, CompactingRecord DEF Orderly, PublishApart, StagedOK, StagedIn, Staged
  <2>2. compact' = compact /\ pragma' = pragma
    BY <1>2 DEF control
  <2>3. CompactionKeeps'
    BY <1>5, <2>1, <2>2 DEF NothingLost, CompactionKeeps, Staged
  <2>4. NextVersion(compact)'
    BY <1>5, <2>1, <2>2 DEF NothingLost, NextVersions, NextVersion, NextIn, Staged
  <2> QED BY <1>3, <1>15, <2>2, <2>3, <2>4 DEF NextVersions, NextVersion, Staged
<1> QED BY <1>1, <1>9, <1>10, <1>11, <1>12, <1>13 DEF NothingLost, AsKept

\* The entries collected are the ones every table of the seal was published with.
LEMMA LostCollected == ASSUME NothingLost, Orderly', gc_cdc PROVE NothingLost'
<1>1. ShapeInv /\ ShapeInv' /\ Orderly /\ AsKept
  BY ShapeSealEnds DEF NothingLost
<1>2. /\ UNCHANGED <<rows, sequences, client, iceberg, compact, control, history>>
      /\ seal.at = "tables" /\ seal.todo = {} /\ seal' = Asleep
      /\ log' = [s \in DOMAIN log \ Swept(seal.watermark) |-> log[s]]
  BY DEF gc_cdc
<1>3. seal # Asleep /\ ~Staged(pragma) /\ pragma.at # "load" /\ seal.watermark \in Nat
  BY <1>1, <1>2, SealingRecord, NoBackfill
<1>4. \A t \in Table : Current(t)' = Current(t)
  BY <1>2, SameSnapshots
<1>5. DOMAIN log \ Swept(seal.watermark) = {s \in DOMAIN log : s > seal.watermark}
  BY <1>1, <1>3 DEF Swept, ShapeInv, StoreOK, LogOK
<1>6. log' = Tail(log, seal.watermark)
  BY <1>2, <1>5 DEF Tail
<1>7. LogMirrors'
  BY <1>2, <1>3, <1>4, <1>6 DEF NothingLost, SealMirrors, LogMirrors, View, history
<1>8. SealMirrors' /\ ScanStands'
  BY <1>2 DEF SealMirrors, ScanStands, Staged, Asleep
<1>9. Sequenced'
  <2>1. DOMAIN log' \subseteq DOMAIN log
    BY <1>2
  <2>2. \A t, k : Seqs(log', t, k) \subseteq Seqs(log, t, k)
    BY <1>2 DEF Seqs
  <2>3. \A c \in Client : Logging(c)' => Fresh(c)'
    BY <1>2, <2>1, <2>2 DEF NothingLost, Sequenced, Logging, Fresh, sequences
  <2>4. \A c, d \in Client : c # d /\ client'[c] # Ready /\ client'[d] # Ready => Apart(c, d)'
    BY <1>2 DEF NothingLost, Sequenced, Apart
  <2> QED BY <1>2, <2>1, <2>3, <2>4 DEF NothingLost, Sequenced, sequences
<1>10. CompactionKeeps' /\ FlagsOK' /\ NextVersions'
  <2>1. ~Staged(seal')
    BY <1>2 DEF Staged, Asleep
  <2> QED BY <1>2, <1>4, <2>1, PartsStand, NextStands DEF control, history, NextVersions
<1>11. BackfillStands'
  BY <1>2, <1>3 DEF NothingLost, BackfillStands, Backfilled, Backfilling, Staged, is_enabled, control
<1> QED BY <1>1, <1>7, <1>8, <1>9, <1>10, <1>11 DEF NothingLost, AsKept

LEMMA LostSealFails == ASSUME NothingLost, Orderly', seal_fails PROVE NothingLost'
<1>1. ShapeInv /\ ShapeInv' /\ Orderly /\ AsKept
  BY ShapeSealEnds DEF NothingLost
<1>2. /\ UNCHANGED <<store, sequences, client, iceberg, compact, control, missing, diverged, unsaved>>
      /\ seal' = Asleep
  BY DEF seal_fails
<1>3. \A t \in Table : Current(t)' = Current(t)
  BY <1>2, SameSnapshots
<1>4. LogMirrors' /\ SealMirrors'
  BY <1>2, <1>3, MirrorStands
<1>5. Sequenced' /\ ScanStands' /\ CompactionKeeps' /\ BackfillStands' /\ FlagsOK'
  BY <1>2, <1>3, PartsStand DEF store, sequences, control
<1>6. NextVersions'
  BY <1>2, NextStands DEF NextVersions, Staged, Asleep, control
<1> QED BY <1>1, <1>4, <1>5, <1>6 DEF NothingLost, AsKept

LEMMA LostCompactTable == ASSUME NothingLost, Orderly', compact_table PROVE NothingLost'
<1>1. ShapeInv /\ ShapeInv' /\ Orderly /\ AsKept
  BY ShapeCompactTable DEF NothingLost
<1>2. UNCHANGED <<store, sequences, client, iceberg, seal, control, history>>
  BY DEF compact_table
<1>3. \A t \in Table : Current(t)' = Current(t)
  BY <1>2, SameSnapshots
<1>5. LogMirrors' /\ SealMirrors'
  BY <1>2, <1>3, MirrorStands DEF history
<1>6. Sequenced' /\ ScanStands' /\ BackfillStands' /\ FlagsOK'
  BY <1>2, <1>3, PartsStand DEF store, sequences, control, history
<1>7. CompactionKeeps' /\ NextVersions'
  <2>1. PICK t \in mirrored_tables \ dropped : \E md \in Compacted(Current(t)) :
           compact' = [at |-> "metadata", table |-> t, version |-> hint[t] + 1, md |-> md]
    BY DEF compact_table
  <2>2. PICK md \in Compacted(Current(t)) :
           compact' = [at |-> "metadata", table |-> t, version |-> hint[t] + 1, md |-> md]
    BY <2>1
  <2>3. t \in Table /\ hint[t] \in Nat /\ Published(Current(t), hint[t])
    BY <1>1 DEF ShapeInv, SnapshotsOK, mirrored_tables
  <2>4. View(md) = View(Current(t)) /\ md.watermark = Current(t).watermark
    BY <2>3, CompactedIsSame
  <2>5. compact'.md = md /\ compact'.table = t
    BY <2>2
  <2>6. Current(t)' = Current(t)
    BY <1>3, <2>3
  <2>7. View(compact'.md) = View(Current(t)') /\ compact'.md.watermark = Current(t)'.watermark
    BY <2>4, <2>5, <2>6
  <2>8. CompactionKeeps'
    BY <2>5, <2>7 DEF CompactionKeeps, View, Current
  <2>9. compact'.at = "metadata" /\ compact'.version = hint'[compact'.table] + 1
    BY <1>2, <2>2, <2>5 DEF iceberg
  <2>10. NextVersion(compact)'
    BY <2>9 DEF NextVersion, NextIn
  <2> QED BY <1>2, <2>8, <2>10, NextStands DEF NextVersions, control
<1> QED BY <1>1, <1>5, <1>6, <1>7 DEF NothingLost, AsKept

LEMMA LostCompactPutMetadata == ASSUME NothingLost, Orderly', compact_put_metadata PROVE NothingLost'
<1>1. ShapeInv /\ ShapeInv' /\ Orderly /\ AsKept
  BY ShapeCompactPuts DEF NothingLost
<1>2. UNCHANGED <<store, sequences, client, seal, control, history>>
  BY DEF compact_put_metadata
<1>3. PICK j : j = compact
  OBVIOUS
<1>4. /\ j.at = "metadata" /\ compact' = [j EXCEPT !.at = "hint"] /\ hint' = hint
      /\ metadata' = [metadata EXCEPT ![j.table][j.version] = j.md]
  BY <1>3 DEF compact_put_metadata, PutMetadata
<1>5. Staged(j) /\ StagedOK(j) /\ compact # Asleep
  BY <1>1, <1>3, <1>4, CompactingRecord DEF Staged, Asleep
<1>6. /\ \A t \in Table : Current(t)' = Current(t)
      /\ \A t \in Table : t # j.table => metadata'[t] = metadata[t]
      /\ metadata'[j.table][j.version] = j.md
  <2>1. j \in {seal, compact, pragma}
    BY <1>3
  <2> QED BY <1>4, <1>5, <2>1, StagedPut
<1>7. LogMirrors' /\ SealMirrors'
  BY <1>2, <1>6, MirrorStands DEF history
<1>8. Sequenced' /\ ScanStands' /\ BackfillStands' /\ FlagsOK'
  BY <1>2, <1>6, PartsStand DEF store, sequences, control, history
<1>9. CompactionKeeps'
  <2>1. compact'.md = j.md /\ compact'.table = j.table /\ j.table \in Table
    BY <1>1, <1>3, <1>4, <1>5 DEF ShapeInv, CompactShape, StagedOK, StagedIn
  <2>2. View(j.md) = View(Current(j.table)) /\ j.md.watermark = Current(j.table).watermark
    BY <1>3, <1>5 DEF NothingLost, CompactionKeeps
  <2>3. Current(j.table)' = Current(j.table)
    BY <1>6, <2>1
  <2>4. View(compact'.md) = View(Current(j.table)') /\ compact'.md.watermark = Current(j.table)'.watermark
    BY <2>1, <2>2, <2>3
  <2> QED BY <2>1, <2>4 DEF CompactionKeeps, View, Current
<1>10. NextVersions'
  <2>1. NextVersion(seal)'
    <3>1. Staged(seal) => seal.table \in Table /\ seal.table # j.table
      BY <1>1, <1>3, <1>5, SealingRecord DEF Orderly, PublishApart, StagedOK, StagedIn, Staged
    <3>2. Staged(seal) => metadata'[seal.table] = metadata[seal.table]
      BY <1>6, <3>1
    <3> QED BY <1>2, <1>4, <3>2 DEF NothingLost, NextVersions, NextVersion, NextIn, Staged
  <2>2. NextVersion(pragma)'
    BY <1>2, <1>5, NoBackfill DEF NextVersion, Staged, control
  <2>3. NextVersion(compact)'
    <3>1. /\ compact'.table = j.table /\ compact'.version = j.version /\ compact'.md = j.md
      BY <1>1, <1>3, <1>4, <1>5 DEF ShapeInv, CompactShape
    <3> QED BY <1>3, <1>4, <1>5, <1>6, <3>1 DEF NothingLost, NextVersions, NextVersion, NextIn
  <2> QED BY <2>1, <2>2, <2>3 DEF NextVersions
<1> QED BY <1>1, <1>7, <1>8, <1>9, <1>10 DEF NothingLost, AsKept

LEMMA LostCompactPutHint == ASSUME NothingLost, Orderly', compact_put_hint PROVE NothingLost'
<1>1. ShapeInv /\ ShapeInv' /\ Orderly /\ AsKept
  BY ShapeCompactPuts DEF NothingLost
<1>2. UNCHANGED <<store, sequences, client, seal, control, history>> /\ compact' = Asleep
  BY DEF compact_put_hint
<1>3. PICK j : j = compact
  OBVIOUS
<1>4. j.at = "hint" /\ PutHint(j) /\ j \in {seal, compact, pragma}
  BY <1>3 DEF compact_put_hint, PutHint
<1>5. Staged(j) /\ StagedOK(j) /\ compact # Asleep
  BY <1>1, <1>3, <1>4, CompactingRecord DEF Staged, Asleep
<1>6. /\ j.table \in Table /\ Current(j.table)' = j.md
      /\ \A t \in Table \ {j.table} :
            Current(t)' = Current(t) /\ metadata'[t] = metadata[t] /\ hint'[t] = hint[t]
  BY <1>4, <1>5, StagedPublished
<1>7. View(j.md) = View(Current(j.table))
  BY <1>3, <1>5 DEF NothingLost, CompactionKeeps
<1>8. \A t \in Table : View(Current(t)') = View(Current(t))
  BY <1>6, <1>7
<1>9. LogMirrors' /\ SealMirrors'
  <2>1. /\ log' = log /\ rows' = rows /\ missing' = missing /\ diverged' = diverged /\ seal' = seal
    BY <1>2 DEF store, history
  <2> QED BY <1>8, <2>1 DEF NothingLost, LogMirrors, SealMirrors, View
<1>10. ~Staged(pragma) /\ pragma.at # "load" /\ pragma' = pragma
  BY <1>2, <1>5, NoBackfill DEF control
<1>11. Staged(seal) => seal.table \in Table \ {j.table}
  BY <1>1, <1>3, <1>5, SealingRecord DEF Orderly, PublishApart, StagedOK, StagedIn, Staged
<1>12. ScanStands' /\ NextVersions'
  <2>1. seal' = seal /\ log' = log /\ ~Staged(compact')
    BY <1>2 DEF store, Staged, Asleep
  <2>2. ScanStands'
    BY <1>6, <1>11, <2>1 DEF NothingLost, ScanStands, Staged
  <2>3. NextVersion(seal)'
    BY <1>6, <1>11, <2>1 DEF NothingLost, NextVersions, NextVersion, NextIn, Staged
  <2> QED BY <1>10, <2>1, <2>2, <2>3 DEF NextVersions, NextVersion, Staged
<1>13. CompactionKeeps' /\ Sequenced' /\ FlagsOK' /\ BackfillStands'
  <2>1. CompactionKeeps'
    BY <1>2 DEF CompactionKeeps, Staged, Asleep
  <2>2. Sequenced'
    BY <1>2 DEF NothingLost, Sequenced, Logging, Fresh, Apart, sequences, store
  <2>3. FlagsOK'
    BY <1>2 DEF NothingLost, FlagsOK, control, history
  <2>4. BackfillStands'
    BY <1>2, <1>10 DEF NothingLost, BackfillStands, Backfilled, Backfilling, Staged, is_enabled, control
  <2> QED BY <2>1, <2>2, <2>3, <2>4
<1> QED BY <1>1, <1>9, <1>12, <1>13 DEF NothingLost, AsKept

\* The flags of a PRAGMA: what is saved, what commits go by.
LEMMA FlagApplied ==
    ASSUME NEW r \in Registries, NEW t \in Table, NEW on \in BOOLEAN, NEW f, NEW q, f = Restored(r),
           q = [r EXCEPT !.tables[t] = IF on THEN "on" ELSE "off"]
    PROVE  /\ [f EXCEPT !.overrides = SetTable(@, f.default, t, on)] = Restored(q)
           /\ on => Restored(q).default # (t \in Restored(q).overrides)
<1>1. PICK g, d : g = r.tables /\ d = r.default_on
  OBVIOUS
<1>2. r = [default_on |-> d, tables |-> g] /\ d \in BOOLEAN /\ g \in [Table -> {"on", "off", "none"}]
  BY <1>1 DEF Registries
<1>3. PICK h : h = [g EXCEPT ![t] = IF on THEN "on" ELSE "off"]
  OBVIOUS
<1>4. q = [default_on |-> d, tables |-> h]
  BY <1>2, <1>3
<1>5. PICK O, P : /\ O = {u \in Table : g[u] = IF d THEN "off" ELSE "on"}
                  /\ P = {u \in Table : h[u] = IF d THEN "off" ELSE "on"}
  OBVIOUS
<1>6. f = [default |-> d, overrides |-> O] /\ Restored(q) = [default |-> d, overrides |-> P]
  BY <1>2, <1>4, <1>5 DEF Restored
<1>7. h[t] = IF on THEN "on" ELSE "off"
  BY <1>2, <1>3
<1>8. \A u \in Table \ {t} : h[u] = g[u]
  BY <1>2, <1>3
<1>9. CASE on = d
  <2>1. t \notin P
    BY <1>2, <1>5, <1>7, <1>9
  <2>2. P = O \ {t}
    BY <1>5, <1>8, <2>1
  <2>3. SetTable(O, d, t, on) = P
    BY <1>9, <2>2 DEF SetTable
  <2>4. [f EXCEPT !.overrides = SetTable(@, f.default, t, on)] = [default |-> d, overrides |-> P]
    BY <1>6, <2>3
  <2>5. on => d # (t \in P)
    BY <1>9, <2>1
  <2> QED BY <1>6, <2>4, <2>5
<1>10. CASE on # d
  <2>1. t \in P
    BY <1>2, <1>5, <1>7, <1>10
  <2>2. P = O \cup {t}
    BY <1>5, <1>8, <2>1
  <2>3. SetTable(O, d, t, on) = P
    BY <1>10, <2>2 DEF SetTable
  <2>4. [f EXCEPT !.overrides = SetTable(@, f.default, t, on)] = [default |-> d, overrides |-> P]
    BY <1>6, <2>3
  <2>5. on => d # (t \in P)
    BY <1>2, <1>10, <2>1
  <2> QED BY <1>6, <2>4, <2>5
<1> QED BY <1>9, <1>10

\* A step of a PRAGMA that leaves the store and the snapshots alone.
LEMMA PragmaMoves ==
    ASSUME NothingLost, UNCHANGED <<store, sequences, client, iceberg, loops, missing, diverged>>
    PROVE  /\ LogMirrors' /\ SealMirrors' /\ Sequenced' /\ ScanStands' /\ CompactionKeeps'
           /\ NextVersion(seal)' /\ NextVersion(compact)'
           /\ pragma' = pragma \/ ~Staged(pragma') => NextVersions'
<1>1. \A t \in Table : Current(t)' = Current(t)
  BY SameSnapshots
<1>2. LogMirrors' /\ SealMirrors'
  BY <1>1, MirrorStands DEF loops
<1>3. Sequenced' /\ ScanStands' /\ CompactionKeeps'
  BY <1>1, PartsStand DEF store, sequences, loops
<1> QED BY <1>2, <1>3, NextStands DEF loops, NextVersions

LEMMA LostEngineFor ==
    ASSUME NothingLost, Orderly', engine_for \/ register_tenant_fails
    PROVE  NothingLost'
<1>1. ShapeInv /\ ShapeInv' /\ Orderly /\ AsKept
  BY ShapeEngineFor DEF NothingLost
<1>2. UNCHANGED <<store, sequences, client, iceberg, loops, missing, diverged, registry>>
  BY DEF engine_for, register_tenant_fails
<1>3. pragma = Idle /\ Reopened /\ opened' = TRUE
  BY DEF engine_for, register_tenant_fails, MayApply
<1>4. pragma' = Idle \/ \E d : pragma' = [at |-> "apply", directive |-> d]
  BY <1>3 DEF engine_for, register_tenant_fails
<1>5. ~Staged(pragma') /\ pragma'.at \notin {"flags", "persist"}
  BY <1>4 DEF Staged, Idle
<1>6. LogMirrors' /\ SealMirrors' /\ Sequenced' /\ ScanStands' /\ CompactionKeeps' /\ NextVersions'
  BY <1>2, <1>5, PragmaMoves
<1>7. BackfillStands'
  BY <1>4 DEF BackfillStands, Backfilled, Backfilling, Staged, Idle
<1>8. FlagsOK'
  <2>1. /\ "index" \in unsaved \/ indexed \/ registry = NoRegistry
        /\ opened => indexed \/ "index" \in unsaved
        /\ opened /\ "flags" \notin unsaved => state = registry
        /\ cdc = Restored(state)
    BY <1>3 DEF NothingLost, FlagsOK, Idle
  <2>2. "index" \in unsaved' \/ indexed'
    <3>1. CASE engine_for
      BY <2>1, <3>1 DEF engine_for
    <3>2. CASE register_tenant_fails
      BY <3>2 DEF register_tenant_fails
    <3> QED BY <3>1, <3>2
  <2>3. "flags" \in unsaved => "flags" \in unsaved'
    BY DEF engine_for, register_tenant_fails
  <2>4. cdc' = Restored(state') /\ ("flags" \notin unsaved' => state' = registry')
    BY <1>2, <1>3, <2>1, <2>3 DEF Reopened
  <2> QED BY <1>3, <1>5, <2>2, <2>4 DEF FlagsOK
<1> QED BY <1>1, <1>6, <1>7, <1>8 DEF NothingLost, AsKept

LEMMA LostApply == ASSUME NothingLost, Orderly', apply_pragma PROVE NothingLost'
<1>1. ShapeInv /\ ShapeInv' /\ Orderly /\ AsKept
  BY ShapeFlags DEF NothingLost
<1>2. pragma.at = "apply" /\ UNCHANGED <<client, registry, indexed, opened, unsaved>>
  BY DEF apply_pragma, history
<1>3. ~Staged(pragma')
  BY DEF apply_pragma, Staged
<1>4. LogMirrors' /\ SealMirrors' /\ Sequenced' /\ ScanStands' /\ CompactionKeeps' /\ NextVersions'
  BY <1>3, PragmaMoves DEF apply_pragma, history
<1>5. PICK d : d = pragma.directive
  OBVIOUS
<1>6. pragma # Idle /\ d \in Directives
  BY <1>1, <1>2, <1>5, PragmaRecord
<1>7. /\ "index" \in unsaved \/ indexed \/ registry = NoRegistry
      /\ opened /\ (indexed \/ "index" \in unsaved)
      /\ "flags" \notin unsaved => state = registry
      /\ cdc = Restored(state)
  BY <1>2, <1>6 DEF NothingLost, FlagsOK
<1>8. CASE /\ d.kind = "table"
           /\ cdc' = [cdc EXCEPT !.overrides = SetTable(@, cdc.default, d.table, d.on)]
           /\ state' = [state EXCEPT !.tables[d.table] = IF d.on THEN "on" ELSE "off"]
           /\ pragma' = [at |-> "persist", directive |-> d]
  <2>1. d.table \in Table /\ d.on \in BOOLEAN
    BY <1>6, <1>8 DEF Directives
  <2>2. PICK r, f, q, t, on : r = state /\ f = cdc /\ q = state' /\ t = d.table /\ on = d.on
    OBVIOUS
  <2>3. /\ r \in Registries /\ t \in Table /\ on \in BOOLEAN /\ f = Restored(r)
        /\ q = [r EXCEPT !.tables[t] = IF on THEN "on" ELSE "off"]
        /\ cdc' = [f EXCEPT !.overrides = SetTable(@, f.default, t, on)]
    BY <1>1, <1>7, <1>8, <2>1, <2>2 DEF ShapeInv, FlagTypes
  <2>4. cdc' = Restored(q) /\ (on => Restored(q).default # (t \in Restored(q).overrides))
    BY <2>3, FlagApplied
  <2>5. FlagsOK'
    BY <1>2, <1>7, <1>8, <2>2, <2>4 DEF FlagsOK
  <2>6. on => is_enabled(t)'
    BY <2>4 DEF is_enabled
  <2>7. \A u \in Table : Backfilled(u)' => u = t /\ on
    BY <1>8, <2>2 DEF Backfilled, Backfilling
  <2>8. BackfillStands'
    BY <1>8, <2>6, <2>7 DEF BackfillStands, Staged
  <2> QED BY <1>1, <1>4, <2>5, <2>8 DEF NothingLost, AsKept
<1>9. CASE /\ d.kind = "default"
           /\ cdc' = [cdc EXCEPT !.default = d.on]
           /\ pragma' = [at |-> "flags", directive |-> d]
           /\ UNCHANGED state
  <2>1. FlagsOK'
    BY <1>2, <1>7, <1>9 DEF FlagsOK
  <2>2. BackfillStands'
    BY <1>9 DEF BackfillStands, Backfilled, Backfilling, Staged
  <2> QED BY <1>1, <1>4, <2>1, <2>2 DEF NothingLost, AsKept
<1> QED BY <1>5, <1>8, <1>9 DEF apply_pragma

LEMMA LostReapply == ASSUME NothingLost, Orderly', reapply_flags PROVE NothingLost'
<1>1. ShapeInv /\ ShapeInv' /\ Orderly /\ AsKept
  BY ShapeFlags DEF NothingLost
<1>2. /\ pragma.at = "flags" /\ UNCHANGED <<registry, indexed, opened, unsaved>>
      /\ cdc' = Restored(state')
      /\ pragma' = [at |-> "persist", directive |-> pragma.directive]
  BY DEF reapply_flags, history
<1>3. LogMirrors' /\ SealMirrors' /\ Sequenced' /\ ScanStands' /\ CompactionKeeps' /\ NextVersions'
  BY PragmaMoves DEF reapply_flags, history, Staged
<1>4. /\ pragma # Idle /\ opened /\ pragma.directive.kind = "default"
      /\ indexed \/ "index" \in unsaved
  BY <1>1, <1>2, PragmaRecord DEF NothingLost, FlagsOK
<1>5. FlagsOK'
  BY <1>2, <1>4 DEF FlagsOK
<1>6. BackfillStands'
  BY <1>2, <1>4 DEF BackfillStands, Backfilled, Backfilling, Staged
<1> QED BY <1>1, <1>3, <1>5, <1>6 DEF NothingLost, AsKept

LEMMA LostPersist == ASSUME NothingLost, Orderly', persist_registry PROVE NothingLost'
<1>1. ShapeInv /\ ShapeInv' /\ Orderly /\ AsKept
  BY ShapeFlags DEF NothingLost
<1>2. PICK d : d = pragma.directive
  OBVIOUS
<1>3. /\ pragma.at = "persist" /\ UNCHANGED <<client, cdc, state, indexed, opened>>
      /\ registry' = state /\ unsaved' = unsaved \ {"flags"}
      /\ pragma' = IF d.kind = "table" /\ d.on THEN [at |-> "scan", table |-> d.table] ELSE Idle
  BY <1>2 DEF persist_registry, save
<1>4. ~Staged(pragma') /\ pragma'.at \in {"scan", "idle"}
  BY <1>3 DEF Staged, Idle
<1>5. LogMirrors' /\ SealMirrors' /\ Sequenced' /\ ScanStands' /\ CompactionKeeps' /\ NextVersions'
  BY <1>4, PragmaMoves DEF persist_registry
<1>6. pragma # Idle /\ opened /\ (indexed \/ "index" \in unsaved) /\ cdc = Restored(state)
  BY <1>1, <1>3, PragmaRecord DEF NothingLost, FlagsOK
<1>7. FlagsOK'
  BY <1>3, <1>4, <1>6 DEF FlagsOK
<1>8. \A t \in Table : Backfilled(t)' => Backfilled(t)
  BY <1>2, <1>3 DEF Backfilled, Backfilling, Idle
<1>9. BackfillStands'
  BY <1>3, <1>4, <1>8 DEF NothingLost, BackfillStands, Staged, is_enabled
<1> QED BY <1>1, <1>5, <1>7, <1>9 DEF NothingLost, AsKept

\* A table's first snapshot is noted in the registry, and perhaps a later one.
LEMMA LostMarks == ASSUME NothingLost, Orderly', seal_mark \/ backfill_mark PROVE NothingLost'
<1>1. ShapeInv /\ ShapeInv' /\ Orderly /\ AsKept
  BY ShapeMarks DEF NothingLost
<1>2. /\ UNCHANGED <<store, sequences, client, iceberg, compact, cdc, state, indexed, opened,
                     missing, diverged>>
      /\ registry' = state /\ unsaved' = unsaved \ {"flags"}
  BY DEF seal_mark, backfill_mark, save, loops
<1>3. \/ /\ seal.at = "mark" /\ seal' = [seal EXCEPT !.at = "tables"] /\ pragma' = pragma
      \/ /\ pragma.at = "mark" /\ seal' = seal /\ pragma' = Idle
  BY DEF seal_mark, backfill_mark, loops
<1>4. \A t \in Table : Current(t)' = Current(t)
  BY <1>2, SameSnapshots
<1>5. \/ seal' = seal
      \/ /\ seal # Asleep /\ seal' # Asleep /\ ~Staged(seal) /\ ~Staged(seal')
         /\ seal'.watermark = seal.watermark /\ seal'.entries = seal.entries
         /\ seal'.todo = seal.todo
  <2>1. CASE seal.at = "mark" /\ seal' = [seal EXCEPT !.at = "tables"]
    <3>1. seal = [at |-> seal.at, entries |-> seal.entries, watermark |-> seal.watermark,
                  todo |-> seal.todo]
      BY <1>1, <2>1 DEF ShapeInv, SealShape, Staged, Asleep
    <3>2. seal' = [at |-> "tables", entries |-> seal.entries, watermark |-> seal.watermark,
                   todo |-> seal.todo]
      BY <2>1, <3>1
    <3> QED BY <2>1, <3>2 DEF Staged, Asleep
  <2> QED BY <1>3, <2>1
<1>6. LogMirrors' /\ SealMirrors'
  BY <1>2, <1>4, <1>5, MirrorStands
<1>7. Sequenced' /\ CompactionKeeps'
  BY <1>2, <1>4, PartsStand DEF store, sequences
<1>8. ScanStands'
  <2>1. CASE seal' = seal
    BY <1>2, <1>4, <2>1, PartsStand DEF store
  <2>2. CASE seal' # seal
    BY <1>2, <1>5, <2>2 DEF NothingLost, ScanStands, store
  <2> QED BY <2>1, <2>2
<1>9. BackfillStands' /\ NextVersions'
  <2>1. pragma' = pragma \/ pragma' = Idle
    BY <1>3
  <2>2. ~Staged(Idle)
    BY DEF Staged, Idle
  <2> QED BY <1>2, <1>4, <1>5, <2>1, <2>2, PartsStand, NextStands DEF NextVersions
<1>10. FlagsOK'
  <2>1. /\ "index" \in unsaved \/ indexed \/ registry = NoRegistry
        /\ opened => indexed \/ "index" \in unsaved
        /\ pragma # Idle => opened
        /\ ~opened => ~indexed /\ state = NoRegistry
        /\ pragma.at # "flags" => cdc = Restored(state)
        /\ pragma.at = "flags" => pragma.directive.kind = "default"
    BY DEF NothingLost, FlagsOK
  <2>2. pragma' = pragma \/ (pragma.at = "mark" /\ pragma' = Idle)
    BY <1>3
  <2>3. pragma'.at = "flags" => pragma' = pragma
    BY <2>2 DEF Idle
  <2>4. pragma'.at # "flags" => pragma.at # "flags"
    BY <2>2
  <2> QED BY <1>2, <2>1, <2>2, <2>3, <2>4 DEF FlagsOK
<1> QED BY <1>1, <1>6, <1>7, <1>8, <1>9, <1>10 DEF NothingLost, AsKept

LEMMA LostPragmaFails == ASSUME NothingLost, Orderly', pragma_fails PROVE NothingLost'
<1>1. ShapeInv /\ ShapeInv' /\ Orderly /\ AsKept
  BY ShapePragmaFails DEF NothingLost
<1>2. /\ UNCHANGED <<store, sequences, client, iceberg, loops, cdc, state, registry, indexed, opened,
                     missing, diverged>>
      /\ pragma.at \notin {"flags", "idle"} /\ pragma' = Idle
      /\ unsaved' = unsaved \cup {what \in {"flags"} : pragma.at = "persist"}
  BY DEF pragma_fails
<1>3. ~Staged(pragma')
  BY <1>2 DEF Staged, Idle
<1>4. LogMirrors' /\ SealMirrors' /\ Sequenced' /\ ScanStands' /\ CompactionKeeps' /\ NextVersions'
  BY <1>2, <1>3, PragmaMoves
<1>5. \A t \in Table : Current(t)' = Current(t)
  BY <1>2, SameSnapshots
<1>6. BackfillStands'
  BY <1>2, <1>5, PartsStand
<1>7. FlagsOK'
  <2>1. unsaved \subseteq unsaved' /\ (pragma.at = "persist" => "flags" \in unsaved')
    BY <1>2
  <2>2. pragma'.at = "idle"
    BY <1>2 DEF Idle
  <2> QED BY <1>2, <2>1, <2>2 DEF NothingLost, FlagsOK
<1> QED BY <1>1, <1>4, <1>6, <1>7 DEF NothingLost, AsKept

LEMMA LostBackfillScan == ASSUME NothingLost, Orderly', backfill_scan PROVE NothingLost'
<1>1. ShapeInv /\ ShapeInv' /\ Orderly /\ AsKept
  BY ShapeBackfillReads DEF NothingLost
<1>2. /\ pragma.at = "scan"
      /\ UNCHANGED <<store, sequences, client, iceberg, loops, cdc, state, registry, indexed, opened, diverged,
                     unsaved>>
  BY DEF backfill_scan
<1>3. PICK t, found : t = pragma.table /\ found = {k \in Key : rows[t][k] # Absent}
  OBVIOUS
<1>4. t \in Table /\ pragma # Idle /\ seal = Asleep
  BY <1>1, <1>2, <1>3, PragmaRecord DEF Orderly, BackfillsAlone, Backfilling
<1>5. \A u \in Table : Current(u)' = Current(u)
  BY <1>2, SameSnapshots
<1>6. Sequenced' /\ ScanStands' /\ CompactionKeeps' /\ SealMirrors'
  BY <1>2, <1>4, <1>5, PartsStand DEF store, sequences, loops, SealMirrors
<1>7. Backfilled(t)
  BY <1>2, <1>3 DEF Backfilled, Backfilling
<1>8. pragma'.at \in {"idle", "load"} => FlagsOK'
  BY <1>2, <1>4 DEF NothingLost, FlagsOK, Idle
<1>11. ~Staged(pragma') => NextVersions'
  BY <1>2, NextStands DEF NextVersions, loops
<1>9. CASE found = {}
  <2>1. pragma' = Idle /\ missing' = missing \ {t}
    BY <1>3, <1>9 DEF backfill_scan
  <2>2. BackfillStands'
    BY <1>5, <2>1, PartsStand
  <2>3. FlagsOK'
    BY <1>8, <2>1 DEF Idle
  <2>4. \A k \in Key : rows[t][k] \notin Value
    BY <1>3, <1>9, MirrorAssumption
  <2>5. LogMirrors'
    <3>1. SUFFICES ASSUME NEW u \in Table \ diverged
                   PROVE  Mirrored(View(Current(u)), log, rows, missing', u)
      BY <1>2, <1>5 DEF LogMirrors, View, store
    <3>2. Mirrored(View(Current(u)), log, rows, missing, u)
      BY <3>1 DEF NothingLost, LogMirrors
    <3>3. CASE u = t
      BY <2>4, <3>2, <3>3 DEF Mirrored, Holds
    <3>4. CASE u # t
      BY <2>1, <3>2, <3>4 DEF Mirrored
    <3> QED BY <3>3, <3>4
  <2>6. NextVersions'
    BY <1>11, <2>1 DEF Staged, Idle
  <2> QED BY <1>1, <1>6, <2>2, <2>3, <2>5, <2>6 DEF NothingLost, AsKept
<1>10. CASE found # {}
  <2>1. PICK f : f = [k \in found |-> rows[t][k]]
    OBVIOUS
  <2>2. pragma' = [at |-> "load", table |-> t, rows |-> f] /\ missing' = missing
    BY <1>3, <1>10, <2>1 DEF backfill_scan
  <2>3. LogMirrors'
    BY <1>2, <1>5, <2>2, MirrorStands
  <2>4. FlagsOK'
    BY <1>8, <2>2
  <2>5. DOMAIN f = found /\ \A k \in found : f[k] = rows[t][k]
    BY <2>1
  <2>6. \A u \in Table : Backfilled(u)' => u = t
    BY <2>2 DEF Backfilled, Backfilling
  <2>7. rows' = rows /\ cdc' = cdc
    BY <1>2 DEF store
  <2>8. \A k \in Key : /\ k \in DOMAIN f <=> rows[t][k] # Absent
                       /\ k \in DOMAIN f => f[k] = rows[t][k]
    BY <1>3, <2>5
  <2>9. BackfillStands'
    BY <1>4, <1>7, <2>2, <2>6, <2>7, <2>8 DEF NothingLost, BackfillStands, is_enabled, Staged
  <2>10. NextVersions'
    BY <1>11, <2>2 DEF Staged
  <2> QED BY <1>1, <1>6, <2>3, <2>4, <2>9, <2>10 DEF NothingLost, AsKept
<1> QED BY <1>9, <1>10

LEMMA LostBackfillLoad == ASSUME NothingLost, Orderly', backfill_load PROVE NothingLost'
<1>1. ShapeInv /\ ShapeInv' /\ Orderly /\ AsKept
  BY ShapeBackfillReads DEF NothingLost
<1>2. /\ LogMirrors' /\ SealMirrors' /\ Sequenced' /\ ScanStands' /\ CompactionKeeps'
      /\ NextVersion(seal)' /\ NextVersion(compact)'
  BY PragmaMoves DEF backfill_load, history
<1>3. /\ pragma.at = "load"
      /\ UNCHANGED <<store, hint, cdc, state, registry, indexed, opened, diverged, unsaved>>
  BY DEF backfill_load, history, iceberg
<1>4. PICK t, f, w, n, old, new :
         /\ t = pragma.table /\ f = pragma.rows /\ w = max_persisted_cdc_seq /\ n = hint[t]
         /\ old = Current(t) /\ new = Sealed(old, f, w)
  OBVIOUS
<1>5. PICK B : pragma' = [at |-> "metadata", table |-> t, version |-> n + 1, md |-> new, behind |-> B]
  BY <1>4 DEF backfill_load
<1>6. t \in Table /\ pragma # Idle /\ f \in Changed
  BY <1>1, <1>3, <1>4, PragmaRecord, ContentsAreChanges
<1>7. w \in Nat /\ n \in Nat /\ Published(old, n)
  BY <1>1, <1>4, <1>6, NextSequence DEF ShapeInv, SnapshotsOK
<1>8. FlagsOK'
  BY <1>3, <1>5, <1>6 DEF NothingLost, FlagsOK
<1>9. ASSUME t \notin diverged, NEW k \in Key, ~Covered(log, t, k), NEW v \in Value
      PROVE  <<k, v>> \in View(new) <=> rows[t][k] = v
  <2>1. <<k, v>> \in View(new) <=> IF k \in DOMAIN f THEN f[k] = v ELSE <<k, v>> \in View(old)
    BY <1>4, <1>6, <1>7, SealedShows
  <2>2. /\ k \in DOMAIN f <=> rows[t][k] # Absent
        /\ k \in DOMAIN f => f[k] = rows[t][k]
    BY <1>3, <1>4, <1>9 DEF NothingLost, BackfillStands
  <2>3. <<k, v>> \in View(old) => rows[t][k] = v
    BY <1>4, <1>6, <1>9 DEF NothingLost, LogMirrors, Mirrored, Agrees
  <2> QED BY <2>1, <2>2, <2>3, MirrorAssumption
<1>10. \A u \in Table : Backfilled(u)' => Backfilled(u)
  BY <1>3, <1>4, <1>5 DEF Backfilled, Backfilling
<1>11. BackfillStands'
  <2>1. rows' = rows /\ log' = log /\ cdc' = cdc /\ diverged' = diverged
    BY <1>3 DEF store
  <2>2. View(pragma.md)' = View(new)
    BY <1>5 DEF View
  <2>3. \A u \in Table : Backfilled(u)' => is_enabled(u)'
    BY <1>10, <2>1 DEF NothingLost, BackfillStands, is_enabled
  <2> QED BY <1>5, <1>9, <2>1, <2>2, <2>3 DEF BackfillStands
<1>12. NextVersion(pragma)'
  BY <1>3, <1>4, <1>5 DEF NextVersion, NextIn
<1> QED BY <1>1, <1>2, <1>8, <1>11, <1>12 DEF NothingLost, AsKept, NextVersions

LEMMA LostBackfillPutMetadata == ASSUME NothingLost, Orderly', backfill_put_metadata PROVE NothingLost'
<1>1. ShapeInv /\ ShapeInv' /\ Orderly /\ AsKept
  BY ShapeBackfillPuts DEF NothingLost
<1>2. UNCHANGED <<store, sequences, client, loops, cdc, state, registry, indexed, opened, history>>
  BY DEF backfill_put_metadata
<1>3. PICK j : j = pragma
  OBVIOUS
<1>4. /\ j.at = "metadata" /\ pragma' = [j EXCEPT !.at = "hint"] /\ hint' = hint
      /\ metadata' = [metadata EXCEPT ![j.table][j.version] = j.md]
  BY <1>3 DEF backfill_put_metadata, PutMetadata
<1>5. seal = Asleep /\ compact = Asleep /\ Staged(j) /\ StagedOK(j) /\ pragma # Idle
  BY <1>1, <1>3, <1>4, PragmaRecord DEF Staged, Orderly, BackfillsAlone, Backfilling
<1>6. /\ \A t \in Table : Current(t)' = Current(t)
      /\ metadata'[j.table][j.version] = j.md
  <2>1. j \in {seal, compact, pragma}
    BY <1>3
  <2> QED BY <1>4, <1>5, <2>1, StagedPut
<1>7. LogMirrors' /\ SealMirrors'
  BY <1>2, <1>5, <1>6, MirrorStands DEF history, loops
<1>8. Sequenced' /\ ScanStands' /\ CompactionKeeps'
  BY <1>2, <1>6, PartsStand DEF store, sequences, loops
<1>9. pragma' = [at |-> "hint", table |-> j.table, version |-> j.version, md |-> j.md, behind |-> j.behind]
  BY <1>1, <1>3, <1>4, <1>5 DEF ShapeInv, PragmaShape
<1>10. FlagsOK'
  BY <1>2, <1>3, <1>4, <1>5, <1>9 DEF NothingLost, FlagsOK, history
<1>11. BackfillStands'
  <2>1. rows' = rows /\ log' = log /\ cdc' = cdc /\ diverged' = diverged
    BY <1>2 DEF store, history
  <2>2. \A t \in Table : Backfilled(t)' => Backfilled(t)
    BY <1>3, <1>4, <1>9 DEF Backfilled, Backfilling
  <2>3. View(pragma.md)' = View(j.md)
    BY <1>9 DEF View
  <2> QED BY <1>3, <1>5, <1>9, <2>1, <2>2, <2>3 DEF NothingLost, BackfillStands, is_enabled
<1>12. NextVersions'
  <2>1. NextVersion(pragma)'
    BY <1>3, <1>4, <1>5, <1>6, <1>9 DEF NothingLost, NextVersions, NextVersion, NextIn
  <2>2. ~Staged(seal') /\ ~Staged(compact')
    BY <1>2, <1>5 DEF loops, Staged, Asleep
  <2> QED BY <2>1, <2>2 DEF NextVersions, NextVersion
<1> QED BY <1>1, <1>7, <1>8, <1>10, <1>11, <1>12 DEF NothingLost, AsKept

LEMMA LostBackfillPutHint == ASSUME NothingLost, Orderly', backfill_put_hint PROVE NothingLost'
<1>1. ShapeInv /\ ShapeInv' /\ Orderly /\ AsKept
  BY ShapeBackfillPuts DEF NothingLost
<1>2. PICK j, t : j = pragma /\ t = j.table
  OBVIOUS
<1>3. /\ UNCHANGED <<store, sequences, client, loops, cdc, state, registry, indexed, opened, diverged,
                     unsaved>>
      /\ j.at = "hint" /\ PutHint(j) /\ j \in {seal, compact, pragma}
      /\ pragma' \in {Idle, [at |-> "mark"]} /\ missing' = missing \ {t}
  BY <1>2 DEF backfill_put_hint, PutHint
<1>4. /\ seal = Asleep /\ compact = Asleep /\ Staged(j) /\ StagedOK(j) /\ pragma # Idle
      /\ t \in Table
  BY <1>1, <1>2, <1>3, PragmaRecord DEF Staged, StagedOK, StagedIn, Orderly, BackfillsAlone, Backfilling
<1>5. Current(t)' = j.md /\ \A u \in Table \ {t} : Current(u)' = Current(u)
  BY <1>2, <1>3, <1>4, StagedPublished
<1>6. log' = log /\ rows' = rows /\ seal' = Asleep /\ compact' = Asleep
  BY <1>3, <1>4 DEF store, loops
<1>7. LogMirrors'
  <2>1. SUFFICES ASSUME NEW u \in Table \ diverged
                 PROVE  Mirrored(View(Current(u)'), log, rows, missing', u)
    BY <1>3, <1>6 DEF LogMirrors, View
  <2>2. Mirrored(View(Current(u)), log, rows, missing, u)
    BY <2>1 DEF NothingLost, LogMirrors
  <2>3. CASE u = t
    <3>1. \A k \in Key : ~Covered(log, t, k) =>
             \A v \in Value : <<k, v>> \in View(j.md) <=> rows[t][k] = v
      BY <1>2, <1>4, <2>1, <2>3 DEF NothingLost, BackfillStands
    <3> QED BY <1>5, <2>2, <2>3, <3>1 DEF Mirrored, Agrees, Holds
  <2>4. CASE u # t
    BY <1>3, <1>5, <2>1, <2>2, <2>4 DEF Mirrored
  <2> QED BY <2>3, <2>4
<1>8. SealMirrors' /\ ScanStands' /\ CompactionKeeps' /\ BackfillStands' /\ NextVersions'
  <2>1. pragma'.at \in {"idle", "mark"} /\ ~Staged(pragma')
    BY <1>3 DEF Idle, Staged
  <2>2. BackfillStands'
    BY <2>1 DEF BackfillStands, Backfilled, Backfilling
  <2>3. ~Staged(seal') /\ ~Staged(compact')
    BY <1>6 DEF Staged, Asleep
  <2> QED BY <1>6, <2>1, <2>2, <2>3 DEF SealMirrors, ScanStands, CompactionKeeps, NextVersions, NextVersion
<1>9. Sequenced'
  BY <1>3, <1>6 DEF NothingLost, Sequenced, Logging, Fresh, Apart, sequences
<1>10. FlagsOK'
  <2>1. pragma'.at \in {"idle", "mark"}
    BY <1>3 DEF Idle
  <2> QED BY <1>2, <1>3, <1>4, <2>1 DEF NothingLost, FlagsOK
<1> QED BY <1>1, <1>7, <1>8, <1>9, <1>10 DEF NothingLost, AsKept

LEMMA LostDrop == ASSUME NothingLost, Orderly', NEW t \in Table, delete_schema(t) PROVE NothingLost'
<1>1. ShapeInv /\ ShapeInv' /\ Orderly /\ AsKept
  BY ShapeOthers DEF NothingLost
<1>2. /\ UNCHANGED <<log, sequences, client, iceberg, loops, cdc, state, registry, indexed, opened,
                     pragma, unsaved>>
      /\ rows' = [rows EXCEPT ![t] = [k \in Key |-> Absent]] /\ pragma = Idle
  BY DEF delete_schema
<1>3. \A u \in Table : Current(u)' = Current(u)
  BY <1>2, SameSnapshots
<1>4. Sequenced' /\ ScanStands' /\ CompactionKeeps' /\ BackfillStands' /\ FlagsOK' /\ NextVersions'
  BY <1>2, <1>3, PartsStand, NextStands DEF loops, sequences, NextVersions
<1>5. rows \in [Table -> [Key -> Value \cup {Absent}]]
  BY <1>1 DEF ShapeInv, StoreOK
<1>6. CASE \A k \in Key : rows[t][k] = Absent
  <2>1. rows[t] = [k \in Key |-> Absent]
    BY <1>5, <1>6
  <2>2. rows' = rows
    BY <1>2, <1>5, <2>1
  <2>3. UNCHANGED <<missing, diverged>>
    BY <1>6 DEF delete_schema
  <2>4. LogMirrors' /\ SealMirrors'
    BY <1>2, <1>3, <2>2, <2>3, MirrorStands DEF store, loops
  <2> QED BY <1>1, <1>4, <2>4 DEF NothingLost, AsKept
<1>7. CASE ~\A k \in Key : rows[t][k] = Absent
  <2>1. Uncaptured(t)
    BY <1>7 DEF delete_schema
  <2>2. \A u \in Table \ {t} : rows'[u] = rows[u]
    BY <1>2, <1>5
  <2>3. LogMirrors' /\ SealMirrors'
    BY <1>2, <2>1, <2>2, UncapturedStands DEF loops
  <2> QED BY <1>1, <1>4, <2>3 DEF NothingLost, AsKept
<1> QED BY <1>6, <1>7

\* Steps that touch nothing the invariant is about.
LEMMA LostNowhere ==
    ASSUME NothingLost, Orderly', ShapeInv',
           UNCHANGED <<store, sequences, client, iceberg, loops, cdc, state, registry, indexed, opened,
                       pragma, missing, diverged, unsaved>>
    PROVE  NothingLost'
<1>1. LogMirrors' /\ SealMirrors' /\ Sequenced' /\ ScanStands' /\ CompactionKeeps' /\ NextVersions'
  BY PragmaMoves
<1>2. \A t \in Table : Current(t)' = Current(t)
  BY SameSnapshots
<1>3. BackfillStands' /\ FlagsOK'
  BY <1>2, PartsStand
<1> QED BY <1>1, <1>3 DEF NothingLost, AsKept

LEMMA LostRestart == ASSUME NothingLost, Orderly', restart PROVE NothingLost'
<1>1. ShapeInv /\ ShapeInv' /\ Orderly /\ AsKept
  BY ShapeRestart DEF NothingLost
<1>2. /\ UNCHANGED <<store, iceberg, registry, indexed, missing, diverged>>
      /\ cdc_seq' = Unseeded /\ client' = [c \in Client |-> Ready]
      /\ seal' = Asleep /\ compact' = Asleep /\ pragma' = Idle
      /\ state' = IF indexed THEN registry ELSE NoRegistry
      /\ cdc' = Restored(state') /\ opened' = indexed /\ unsaved' = unsaved \ {"flags"}
  BY DEF restart
<1>3. \A t \in Table : Current(t)' = Current(t)
  BY <1>2, SameSnapshots
<1>4. LogMirrors' /\ SealMirrors'
  BY <1>2, <1>3, MirrorStands
<1>5. ScanStands' /\ BackfillStands'
  BY <1>2, <1>3, PartsStand
<1>6. CompactionKeeps' /\ Sequenced' /\ NextVersions'
  <2>1. ~Staged(Asleep) /\ ~Staged(Idle)
    BY DEF Staged, Asleep, Idle
  <2>2. \A c \in Client : client'[c] = Ready
    BY <1>2
  <2>3. Sequenced'
    BY <1>2, <2>2 DEF Sequenced, Logging
  <2> QED BY <1>2, <2>1, <2>3 DEF CompactionKeeps, NextVersions, NextVersion
<1>7. FlagsOK'
  <2>1. "index" \in unsaved' \/ indexed' \/ registry' = NoRegistry
    BY <1>2 DEF NothingLost, FlagsOK
  <2>2. pragma' = Idle /\ pragma'.at = "idle"
    BY <1>2 DEF Idle
  <2>3. opened' => state' = registry' /\ indexed'
    BY <1>2
  <2>4. ~opened' => ~indexed' /\ state' = NoRegistry
    BY <1>2
  <2> QED BY <1>2, <2>1, <2>2, <2>3, <2>4 DEF FlagsOK
<1> QED BY <1>1, <1>4, <1>5, <1>6, <1>7 DEF NothingLost, AsKept

LEMMA LostNext == NothingLost /\ Orderly' /\ [Next]_vars => NothingLost'
<1> SUFFICES ASSUME NothingLost, Orderly', [Next]_vars PROVE NothingLost'
  OBVIOUS
<1>1. CASE \E c \in Client : allocate(c) \/ write_batch(c)
  BY <1>1, LostAllocate, LostWrite
<1>2. CASE Sealing \/ seal_fails
  BY <1>2, LostSealScan, LostSealTable, LostSealPutMetadata, LostSealPutHint, LostMarks, LostCollected,
     LostSealFails DEF Sealing
<1>3. CASE compact_table \/ compact_put_metadata \/ compact_put_hint
  BY <1>3, LostCompactTable, LostCompactPutMetadata, LostCompactPutHint
<1>4. CASE engine_for \/ register_tenant_fails \/ Applying \/ pragma_fails
  BY <1>4, LostEngineFor, LostApply, LostReapply, LostPersist, LostBackfillScan, LostBackfillLoad,
     LostBackfillPutMetadata, LostBackfillPutHint, LostMarks, LostPragmaFails DEF Applying
<1>5. CASE \E t \in Table : delete_schema(t)
  BY <1>5, LostDrop
<1>6. CASE (\E t \in Table : insert_schema(t)) \/ read_snapshot \/ Reading \/ UNCHANGED vars
  <2>1. ShapeInv'
    BY ShapeNext DEF NothingLost
  <2>2. UNCHANGED <<store, sequences, client, iceberg, loops, cdc, state, registry, indexed, opened,
                    pragma, missing, diverged, unsaved>>
    BY <1>6 DEF insert_schema, read_snapshot, Reading, read_watermark, read_tail, vars, control, history
  <2> QED BY <2>1, <2>2, LostNowhere
<1>7. CASE restart
  BY <1>7, LostRestart
<1> QED BY <1>1, <1>2, <1>3, <1>4, <1>5, <1>6, <1>7 DEF Next

LEMMA LostInit == AsKept /\ Orderly /\ Init => NothingLost
<1> SUFFICES ASSUME AsKept, Orderly, Init PROVE NothingLost
  OBVIOUS
<1>1. ShapeInv
  BY ShapeInit
<1>2. /\ log = [s \in {} |-> Absent] /\ hint = [t \in Table |-> 0]
      /\ metadata = [t \in Table |-> [v \in 0..MaxVersion |-> NoSnapshot]]
      /\ seal = Asleep /\ compact = Asleep /\ pragma = Idle
      /\ client = [c \in Client |-> Ready] /\ cdc_seq = Unseeded
      /\ missing = {t \in Table : \E k \in Key : rows[t][k] # Absent}
  BY DEF Init
<1>3. LogMirrors
  <2>1. SUFFICES ASSUME NEW t \in Table PROVE Mirrored(View(Current(t)), log, rows, missing, t)
    BY DEF LogMirrors
  <2>2. Current(t) = NoSnapshot
    BY <1>2, MirrorAssumption DEF Current
  <2>3. View(Current(t)) = {}
    BY <2>2, NothingPublished
  <2>4. \A k : ~Covered(log, t, k)
    BY <1>2 DEF Covered, Seqs
  <2>5. t \in missing \/ \A k \in Key : rows[t][k] \notin Value
    BY <1>2, MirrorAssumption
  <2> QED BY <2>3, <2>4, <2>5, MirrorOfNothing
<1>4. SealMirrors /\ ScanStands /\ CompactionKeeps /\ Sequenced /\ NextVersions
  BY <1>2 DEF SealMirrors, ScanStands, CompactionKeeps, Sequenced, Logging, NextVersions, NextVersion,
              Staged, Asleep, Idle
<1>5. BackfillStands
  BY <1>2 DEF BackfillStands, Backfilled, Backfilling, Staged, Idle
<1>6. FlagsOK
  <2>1. PICK on \in {TRUE} \cup {left.pragmas = 0} :
           /\ registry = [NoRegistry EXCEPT !.tables = [t \in Table |-> IF on THEN "on" ELSE "none"]]
           /\ indexed = on /\ opened = on
    BY Zenon DEF Init
  <2>2. (indexed <=> opened) /\ (~indexed => registry = NoRegistry)
    <3>1. CASE on
      BY <2>1, <3>1
    <3>2. CASE ~on
      <4>1. [t \in Table |-> IF on THEN "on" ELSE "none"] = [t \in Table |-> "none"]
        BY <3>2
      <4> QED BY <2>1, <4>1 DEF NoRegistry
    <3> QED BY <3>1, <3>2
  <2>3. state = registry /\ cdc = Restored(registry)
    BY DEF Init
  <2> QED BY <1>2, <2>2, <2>3 DEF FlagsOK, Idle
<1> QED BY <1>1, <1>3, <1>4, <1>5, <1>6 DEF NothingLost

\* What the mirror and the log say of a table is what a reader merges of them.
LEMMA MergedIsTheTable ==
    ASSUME NEW md, NEW L, LogOK(L), NEW t \in Table, NEW M, t \notin M,
           rows \in [Table -> [Key -> Value \cup {Absent}]], Mirrored(View(md), L, rows, M, t)
    PROVE  Merged(t, md, L) = Rows(t)
<1>1. PICK ch : ch = collapse_lww(L, t)
  OBVIOUS
<1>2. /\ ch \in Changed
      /\ \A k \in Key : k \in DOMAIN ch <=> Covered(L, t, k)
      /\ \A k \in DOMAIN ch : k \in Key /\ ch[k] = LastRow(L, t, k)
  BY <1>1, CollapsedLog
<1>3. PICK A, B : /\ A = {kv \in View(md) : kv[1] \notin DOMAIN ch}
                  /\ B = {<<k, ch[k]>> : k \in {k \in DOMAIN ch : ch[k] # Absent}}
  OBVIOUS
<1>4. Merged(t, md, L) = A \cup B
  BY <1>1, <1>3 DEF Merged
<1>5. View(md) \subseteq Key \X Value
  BY VisiblePairs DEF View
<1>6. \A k \in DOMAIN ch : ch[k] \in Value \cup {Absent}
  BY <1>2 DEF Changed
<1>7. A \cup B \subseteq Key \X Value
  BY <1>2, <1>3, <1>5, <1>6
<1>8. Rows(t) \subseteq Key \X Value
  BY DEF Rows
<1>9. ASSUME NEW k \in Key, NEW v \in Value PROVE <<k, v>> \in A \cup B <=> <<k, v>> \in Rows(t)
  <2>1. v # Absent
    BY MirrorAssumption
  <2>2. <<k, v>> \in Rows(t) <=> rows[t][k] = v
    BY <2>1 DEF Rows
  <2>3. <<k, v>> \in A <=> <<k, v>> \in View(md) /\ k \notin DOMAIN ch
    BY <1>3
  <2>4. <<k, v>> \in B <=> k \in DOMAIN ch /\ ch[k] = v
    BY <1>3, <2>1
  <2>5. Agrees(View(md), L, rows, t, k) /\ Holds(View(md), L, rows, t, k)
    BY DEF Mirrored
  <2>6. CASE Covered(L, t, k)
    <3>1. LastRow(L, t, k) = rows[t][k] /\ k \in DOMAIN ch /\ ch[k] = LastRow(L, t, k)
      BY <1>2, <2>5, <2>6 DEF Agrees
    <3> QED BY <2>2, <2>3, <2>4, <3>1
  <2>7. CASE ~Covered(L, t, k)
    <3>1. k \notin DOMAIN ch
      BY <1>2, <2>7
    <3>2. <<k, v>> \in View(md) <=> rows[t][k] = v
      BY <2>5, <2>7 DEF Agrees, Holds
    <3> QED BY <2>2, <2>3, <2>4, <3>1, <3>2
  <2> QED BY <2>6, <2>7
<1> QED BY <1>4, <1>7, <1>8, <1>9, SamePairs

LEMMA NothingIsLost == NothingLost => NoChangeLost
<1> SUFFICES ASSUME NothingLost PROVE NoChangeLost
  OBVIOUS
<1>1. ASSUME NEW t \in Captured PROVE Merged(t, Current(t), log) = Rows(t)
  <2>1. t \in Table /\ t \notin missing /\ t \notin diverged
    BY DEF Captured, NothingLost, AsKept
  <2>2. LogOK(log) /\ rows \in [Table -> [Key -> Value \cup {Absent}]]
    BY DEF NothingLost, ShapeInv, StoreOK
  <2>3. Mirrored(View(Current(t)), log, rows, missing, t)
    BY <2>1 DEF NothingLost, LogMirrors
  <2> QED BY <2>1, <2>2, <2>3, MergedIsTheTable
<1>2. FlagsSaved
  <2>1. SUFFICES ASSUME pragma = Idle PROVE FlagsSaved
    BY DEF FlagsSaved
  <2>2. /\ "index" \in unsaved \/ indexed \/ registry = NoRegistry
        /\ ~opened => ~indexed /\ state = NoRegistry
        /\ opened /\ "flags" \notin unsaved => state = registry
        /\ cdc = Restored(state)
    BY <2>1 DEF NothingLost, FlagsOK, Idle
  <2>3. "save" \notin Unguarded
    BY DEF NothingLost, AsKept
  <2> QED BY <2>2, <2>3 DEF FlagsSaved
<1> QED BY <1>1, <1>2 DEF NoChangeLost

\* Nothing that is committed is lost to the mirror, for every number of tables, keys,
\* values, versions and writers, with the two loops running side by side and every
\* order of commits, faults, failed saves, PRAGMAs and drops: at every step of a seal,
\* also of one that fails, crashes or is repeated, of a compaction and of a backfill,
\* the published snapshot with the log applied over it is the table, and a restart
\* finds the flags that were saved.  It is so as long as the schedule is orderly: the
\* code does not keep the four things that Orderly names, and the runs pointer_race
\* and late_entry and the switch "busy" show a change lost to each of them.
THEOREM CommitsReachTheMirror ==
    AsKept /\ Spec /\ []Orderly => []NoChangeLost
<1>1. AsKept /\ Orderly /\ Init => NothingLost
  BY LostInit
<1>2. NothingLost /\ Orderly' /\ [Next]_vars => NothingLost'
  BY LostNext
<1>3. NothingLost => NoChangeLost
  BY NothingIsLost
<1> QED BY <1>1, <1>2, <1>3, PTL DEF Spec

-----------------------------------------------------------------------------
(* 8. What an analytical read returns, and the watermark it starts from.   *)

\* Without a restart a snapshot's watermark is one the counter has passed and no
\* commit under way is at or below it; the log reaches up to it or starts behind it.
Watermarks ==
    ~restarted =>
        /\ \A t \in Table :
             LET w == Current(t).watermark
             IN  /\ w > 0 => w <= cdc_seq
                 /\ \A c \in Client : client[c] # Ready /\ client[c].seq > 0 => w < client[c].seq
                 /\ DOMAIN log # {} => \E s \in DOMAIN log : w <= s
                 /\ seal # Asleep => w <= seal.watermark
        /\ \A s \in DOMAIN log : s <= cdc_seq
        /\ Staged(pragma) => pragma.md.watermark = 0 \/ pragma.md.watermark \in DOMAIN log

\* A snapshot needs only the log behind its watermark, unless a backfill put the
\* watermark ahead of its rows.
TailMirrors ==
    ~restarted =>
        /\ \A t \in Table \ (diverged \cup behind) :
             Mirrored(View(Current(t)), Tail(log, Current(t).watermark), rows, missing, t)
        /\ Staged(pragma) /\ pragma.table \notin diverged /\ pragma.table \notin pragma.behind =>
             Mirrored(View(pragma.md), Tail(log, pragma.md.watermark), rows, {}, pragma.table)

\* What a reader holds is current as long as no snapshot was published since.
ReaderStands ==
    reader # Idle =>
        /\ reader.table \in Table /\ reader.version \in Nat /\ reader.version <= hint[reader.table]
        /\ reader.version = hint[reader.table] =>
             /\ reader.md = Current(reader.table)
             /\ reader.at = "tail" => reader.watermark = Current(reader.table).watermark

ReadsInv == NothingLost /\ Watermarks /\ TailMirrors /\ ReaderStands

\* A PRAGMA's step stages nothing new.
StagesNothing ==
    Staged(pragma') =>
        /\ Staged(pragma) /\ pragma'.md = pragma.md
        /\ pragma'.table = pragma.table /\ pragma'.behind = pragma.behind

LEMMA WatermarksStand ==
    ASSUME ReadsInv, \A t \in Table : Current(t)' = Current(t),
           UNCHANGED <<log, cdc_seq, client, restarted>>, StagesNothing,
           seal' = Asleep \/ (seal # Asleep /\ seal'.watermark = seal.watermark)
    PROVE  Watermarks'
<1> SUFFICES ASSUME ~restarted PROVE Watermarks'
  BY DEF Watermarks
<1>1. Watermarks
  BY DEF ReadsInv
<1>2. ASSUME NEW t \in Table, NEW w, w = Current(t).watermark
      PROVE  /\ w > 0 => w <= cdc_seq
             /\ \A c \in Client : client[c] # Ready /\ client[c].seq > 0 => w < client[c].seq
             /\ DOMAIN log # {} => \E s \in DOMAIN log : w <= s
             /\ seal # Asleep => w <= seal.watermark
  BY <1>1, <1>2 DEF Watermarks
<1>3. \A t \in Table : Current(t)'.watermark = Current(t).watermark
  OBVIOUS
<1>4. Staged(pragma') => pragma'.md.watermark = 0 \/ pragma'.md.watermark \in DOMAIN log
  BY <1>1 DEF Watermarks, StagesNothing
<1>5. \A s \in DOMAIN log : s <= cdc_seq
  BY <1>1 DEF Watermarks
<1> QED BY <1>2, <1>3, <1>4, <1>5 DEF Watermarks, Staged

LEMMA TailStands ==
    ASSUME ReadsInv, \A t \in Table : Current(t)' = Current(t),
           UNCHANGED <<store, missing, diverged, behind, restarted>>, StagesNothing
    PROVE  TailMirrors'
<1> SUFFICES ASSUME ~restarted PROVE TailMirrors'
  BY DEF TailMirrors
<1>1. TailMirrors /\ log' = log /\ rows' = rows
  BY DEF ReadsInv, store
<1>2. \A t \in Table \ (diverged \cup behind) :
         Mirrored(View(Current(t))', Tail(log', Current(t)'.watermark), rows', missing', t)
  BY <1>1 DEF TailMirrors, View
<1>3. Staged(pragma') /\ pragma'.table \notin diverged /\ pragma'.table \notin pragma'.behind =>
         Mirrored(View(pragma'.md), Tail(log', pragma'.md.watermark), rows', {}, pragma'.table)
  BY <1>1 DEF TailMirrors, StagesNothing
<1> QED BY <1>2, <1>3 DEF TailMirrors, Staged, View

LEMMA ReaderKept ==
    ASSUME ReadsInv, reader' = reader,
           \A t \in Table : \/ hint'[t] = hint[t] /\ Current(t)' = Current(t)
                            \/ hint'[t] \in Nat /\ hint'[t] > hint[t]
    PROVE  ReaderStands'
<1>1. PICK r : r = reader
  OBVIOUS
<1> SUFFICES ASSUME r # Idle PROVE ReaderStands'
  BY <1>1 DEF ReaderStands
<1>2. /\ r.table \in Table /\ r.version \in Nat /\ r.version <= hint[r.table]
      /\ r.version = hint[r.table] =>
           /\ r.md = Current(r.table)
           /\ r.at = "tail" => r.watermark = Current(r.table).watermark
  BY <1>1 DEF ReadsInv, ReaderStands
<1>3. hint[r.table] \in Nat
  BY <1>2 DEF ReadsInv, NothingLost, ShapeInv, SnapshotsOK
<1>4. CASE hint'[r.table] = hint[r.table] /\ Current(r.table)' = Current(r.table)
  <2>1. r.version <= hint'[r.table]
    BY <1>2, <1>4
  <2>2. r.version = hint'[r.table] =>
           /\ r.md = Current(r.table)'
           /\ r.at = "tail" => r.watermark = Current(r.table)'.watermark
    BY <1>2, <1>4
  <2> QED BY <1>1, <1>2, <2>1, <2>2 DEF ReaderStands, Current
<1>5. CASE hint'[r.table] \in Nat /\ hint'[r.table] > hint[r.table]
  <2>1. r.version <= hint'[r.table] /\ r.version # hint'[r.table]
    BY <1>2, <1>3, <1>5
  <2> QED BY <1>1, <1>2, <2>1 DEF ReaderStands
<1> QED BY <1>2, <1>4, <1>5

\* A step that publishes nothing.
LEMMA ReaderWaits ==
    ASSUME ReadsInv, reader' = reader, UNCHANGED iceberg
    PROVE  ReaderStands'
<1>1. \A t \in Table : hint'[t] = hint[t] /\ Current(t)' = Current(t)
  BY SameSnapshots DEF iceberg
<1> QED BY <1>1, ReaderKept

LEMMA ReadsAllocate == ASSUME ReadsInv, Orderly', NEW c \in Client, allocate(c) PROVE ReadsInv'
<1>1. NothingLost /\ NothingLost' /\ ShapeInv
  BY LostAllocate DEF ReadsInv, NothingLost
<1>2. UNCHANGED <<store, commit_seq, seal_signal, iceberg, loops, control, reader, history>>
  BY DEF allocate
<1>3. \A t \in Table : Current(t)' = Current(t)
  BY <1>2, SameSnapshots
<1>4. TailMirrors' /\ ReaderStands'
  BY <1>2, <1>3, TailStands, ReaderWaits DEF StagesNothing, control, history
<1>5. Watermarks'
  <2>1. SUFFICES ASSUME ~restarted PROVE Watermarks'
    BY <1>2 DEF Watermarks, history
  <2>2. log' = log /\ seal' = seal /\ pragma' = pragma
    BY <1>2 DEF store, loops, control
  <2>3. PICK t, k, row :
           /\ client' = [client EXCEPT ![c] =
                  [at |-> "write", seq |-> IF is_enabled(t) THEN next_cdc_seq ELSE 0,
                   entry |-> [table |-> t, key |-> k, row |-> row]]]
           /\ cdc_seq' = IF is_enabled(t) THEN next_cdc_seq ELSE cdc_seq
    BY DEF allocate
  <2>4. PICK q : q = IF is_enabled(t) THEN next_cdc_seq ELSE 0
    OBVIOUS
  <2>5. client'[c].seq = q /\ \A d \in Client \ {c} : client'[d] = client[d]
    BY <1>1, <2>3, <2>4 DEF ShapeInv, ClientShape
  <2>6. ASSUME NEW u \in Table, NEW w, w = Current(u).watermark
        PROVE  /\ w > 0 => w <= cdc_seq'
               /\ \A d \in Client : client'[d] # Ready /\ client'[d].seq > 0 => w < client'[d].seq
               /\ DOMAIN log # {} => \E s \in DOMAIN log : w <= s
               /\ seal # Asleep => w <= seal.watermark
    <3>1. /\ w > 0 => w <= cdc_seq
          /\ \A d \in Client : client[d] # Ready /\ client[d].seq > 0 => w < client[d].seq
          /\ DOMAIN log # {} => \E s \in DOMAIN log : w <= s
          /\ seal # Asleep => w <= seal.watermark
      BY <2>1, <2>6 DEF ReadsInv, Watermarks
    <3>2. w \in Nat
      BY <1>1, <2>6 DEF ShapeInv, SnapshotsOK, Published, Snapshots
    <3>3. next_cdc_seq \in Nat \ {0} /\ cdc_seq \in {Unseeded} \cup Nat
      BY <1>1, NextSequence DEF ShapeInv, CountersOK
    <3>4. cdc_seq # Unseeded => next_cdc_seq = cdc_seq + 1
      BY <1>1, NextSequence
    <3>5. w > 0 => cdc_seq \in Nat
      BY <3>1, <3>2, <3>3 DEF Unseeded
    <3>6. w > 0 => next_cdc_seq = cdc_seq + 1
      BY <3>3, <3>4, <3>5 DEF Unseeded
    <3>7. w < next_cdc_seq
      BY <3>1, <3>2, <3>3, <3>5, <3>6
    <3>8. w > 0 => w <= cdc_seq'
      BY <2>3, <3>1, <3>2, <3>3, <3>7
    <3>9. q > 0 => w < q
      BY <2>4, <3>7
    <3>10. \A d \in Client : client'[d] # Ready /\ client'[d].seq > 0 => w < client'[d].seq
      BY <2>5, <3>1, <3>9
    <3> QED BY <3>1, <3>8, <3>10
  <2>7. Staged(pragma) => pragma.md.watermark = 0 \/ pragma.md.watermark \in DOMAIN log
    BY <2>1 DEF ReadsInv, Watermarks
  <2>8. \A s \in DOMAIN log : s <= cdc_seq'
    <3>1. \A s \in DOMAIN log : s \in Nat /\ s <= cdc_seq
      BY <1>1, <2>1 DEF ReadsInv, Watermarks, ShapeInv, StoreOK, LogOK
    <3>2. cdc_seq \in {Unseeded} \cup Nat /\ (cdc_seq # Unseeded => next_cdc_seq = cdc_seq + 1)
      BY <1>1, NextSequence DEF ShapeInv, CountersOK
    <3>3. \A s \in DOMAIN log : cdc_seq \in Nat
      BY <3>1, <3>2 DEF Unseeded
    <3>4. \A s \in DOMAIN log : cdc_seq # Unseeded
      BY <3>3 DEF Unseeded
    <3> QED BY <2>3, <3>1, <3>2, <3>3, <3>4
  <2> QED BY <1>3, <2>2, <2>6, <2>7, <2>8 DEF Watermarks, Staged
<1> QED BY <1>1, <1>4, <1>5 DEF ReadsInv

LEMMA ReadsLogged ==
    ASSUME ReadsInv, Orderly', NEW c \in Client, write_batch(c), client[c].seq > 0
    PROVE  ReadsInv'
<1>1. NothingLost /\ NothingLost' /\ ShapeInv
  BY LostLogged DEF ReadsInv, NothingLost
<1>2. PICK e, q : e = client[c].entry /\ q = client[c].seq
  OBVIOUS
<1>3. client[c] # Ready /\ Logging(c)
  BY DEF write_batch, Logging
<1>4. q \in Nat \ {0} /\ e \in Entries /\ e.table \in Table /\ e.key \in Key
  BY <1>1, <1>2, <1>3, Writing
<1>5. rows' = Put(rows, e) /\ log' = With(log, q, e)
  BY <1>2 DEF write_batch, WriteRow, WriteEntry, With, Put
<1>6. /\ UNCHANGED <<cdc_seq, iceberg, loops, control, reader, missing, diverged, restarted, behind>>
      /\ client' = [client EXCEPT ![c] = Ready]
  BY DEF write_batch
<1>7. q <= cdc_seq /\ q \notin DOMAIN log /\ \A s \in Seqs(log, e.table, e.key) : s < q
  BY <1>1, <1>2, <1>3 DEF NothingLost, Sequenced, Fresh
<1>8. LogOK(log) /\ rows \in [Table -> [Key -> Value \cup {Absent}]]
  BY <1>1 DEF ShapeInv, StoreOK
<1>9. \A t \in Table : Current(t)' = Current(t) /\ Current(t).watermark \in Nat
  BY <1>1, <1>6, SameSnapshots DEF ShapeInv, SnapshotsOK, Published, Snapshots
<1>10. ASSUME NEW w \in Nat, w < q, NEW V, NEW M, NEW t \in Table,
              Mirrored(V, Tail(log, w), rows, M, t)
       PROVE  Mirrored(V, Tail(log', w), rows', M, t)
  <2>1. PICK L, L2 : L = Tail(log, w) /\ L2 = With(L, q, e)
    OBVIOUS
  <2>2. LogOK(L)
    BY <1>8, <2>1, LogCut
  <2>3. q \notin DOMAIN L /\ \A s \in Seqs(L, e.table, e.key) : s < q
    BY <1>7, <2>1 DEF Tail, Seqs
  <2>4. Mirrored(V, L2, rows', M, t)
    BY <1>4, <1>5, <1>8, <1>10, <2>1, <2>2, <2>3, MirrorWritten
  <2>5. L2 = Tail(log', w)
    <3>1. PICK N : N = With(log, q, e)
      OBVIOUS
    <3>2. q \in Nat /\ q \notin DOMAIN log
      BY <1>4, <1>7
    <3>3. Tail(N, w) = With(Tail(log, w), q, e)
      BY <1>8, <1>10, <3>1, <3>2, TailGrows
    <3> QED BY <1>5, <2>1, <3>1, <3>3
  <2> QED BY <2>4, <2>5
<1>11. ReaderStands'
  BY <1>6, ReaderWaits
<1>12. DOMAIN log' = DOMAIN log \cup {q}
  BY <1>5 DEF With
<1>13. pragma' = pragma /\ seal' = seal
  BY <1>6 DEF control, loops
<1>14. CASE restarted
  BY <1>1, <1>6, <1>11, <1>14 DEF ReadsInv, Watermarks, TailMirrors
<1>15. CASE ~restarted
  <2>1. \A t \in Table : Current(t).watermark < q
    BY <1>2, <1>3, <1>4, <1>15 DEF ReadsInv, Watermarks
  <2>2. Staged(pragma) => pragma.md.watermark = 0 \/ pragma.md.watermark \in DOMAIN log
    BY <1>15 DEF ReadsInv, Watermarks
  <2>3. Watermarks'
    <3>1. client'[c] = Ready /\ \A d \in Client \ {c} : client'[d] = client[d]
      BY <1>1, <1>6 DEF ShapeInv, ClientShape
    <3>2. ASSUME NEW t \in Table, NEW w, w = Current(t).watermark
          PROVE  /\ w > 0 => w <= cdc_seq
                 /\ \A d \in Client : client'[d] # Ready /\ client'[d].seq > 0 => w < client'[d].seq
                 /\ \E s \in DOMAIN log' : w <= s
                 /\ seal # Asleep => w <= seal.watermark
      <4>1. w > 0 => w <= cdc_seq
        BY <1>15, <3>2 DEF ReadsInv, Watermarks
      <4>2. seal # Asleep => w <= seal.watermark
        BY <1>15, <3>2 DEF ReadsInv, Watermarks
      <4>3. q \in DOMAIN log' /\ w <= q
        BY <1>4, <1>9, <1>12, <2>1, <3>2
      <4>4. \A d \in Client : client[d] # Ready /\ client[d].seq > 0 => w < client[d].seq
        BY <1>15, <3>2 DEF ReadsInv, Watermarks
      <4>5. \A d \in Client : client'[d] # Ready /\ client'[d].seq > 0 => w < client'[d].seq
        BY <3>1, <4>4
      <4> QED BY <4>1, <4>2, <4>3, <4>5
    <3>3. Staged(pragma) => pragma.md.watermark = 0 \/ pragma.md.watermark \in DOMAIN log'
      BY <1>12, <2>2
    <3>4. \A s \in DOMAIN log' : s <= cdc_seq
      <4>1. \A s \in DOMAIN log : s <= cdc_seq
        BY <1>15 DEF ReadsInv, Watermarks
      <4>2. q <= cdc_seq
        BY <1>7
      <4> QED BY <1>12, <4>1, <4>2
    <3> QED BY <1>6, <1>9, <1>13, <3>2, <3>3, <3>4 DEF Watermarks, Staged
  <2>4. TailMirrors'
    <3>1. \A t \in Table \ (diverged \cup behind) :
             Mirrored(View(Current(t)), Tail(log, Current(t).watermark), rows, missing, t)
      BY <1>15 DEF ReadsInv, TailMirrors
    <3>2. \A t \in Table \ (diverged \cup behind) :
             Mirrored(View(Current(t)), Tail(log', Current(t).watermark), rows', missing, t)
      BY <1>9, <1>10, <2>1, <3>1
    <3>3. ASSUME Staged(pragma), pragma.table \notin diverged, pragma.table \notin pragma.behind
          PROVE  Mirrored(View(pragma.md), Tail(log', pragma.md.watermark), rows', {}, pragma.table)
      <4>1. Mirrored(View(pragma.md), Tail(log, pragma.md.watermark), rows, {}, pragma.table)
        BY <1>15, <3>3 DEF ReadsInv, TailMirrors
      <4>2. pragma.table \in Table
        BY <1>1, <3>3, PragmaRecord DEF Staged, StagedOK, StagedIn
      <4>3. pragma.md.watermark \in Nat /\ pragma.md.watermark < q
        <5>1. pragma.md.watermark \in Nat
          BY <1>8, <2>2, <3>3 DEF LogOK
        <5>2. q > pragma.md.watermark
          BY <1>1, <1>2, <1>3, <3>3 DEF NothingLost, Orderly, LandInOrder
        <5> QED BY <1>4, <5>1, <5>2
      <4> QED BY <1>10, <4>1, <4>2, <4>3
    <3> QED BY <1>6, <1>9, <1>13, <3>2, <3>3 DEF TailMirrors, Staged, View
  <2> QED BY <1>1, <1>11, <2>3, <2>4 DEF ReadsInv
<1> QED BY <1>14, <1>15

\* A change without an entry: of a table that is in no backfill.
LEMMA TailUncaptured ==
    ASSUME ReadsInv, NEW t \in Table, Uncaptured(t),
           UNCHANGED <<log, iceberg, restarted, behind, pragma>>,
           \A u \in Table \ {t} : rows'[u] = rows[u], Staged(pragma) => pragma.table # t
    PROVE  TailMirrors'
<1> SUFFICES ASSUME ~restarted PROVE TailMirrors'
  BY DEF TailMirrors
<1>1. ShapeInv /\ LogOK(log) /\ diverged \subseteq diverged'
  BY DEF ReadsInv, NothingLost, ShapeInv, StoreOK, Uncaptured
<1>2. \A u \in Table : /\ Current(u)' = Current(u) /\ View(Current(u))' = View(Current(u))
                       /\ Current(u).watermark \in Nat
  BY <1>1, SameSnapshots DEF View, ShapeInv, SnapshotsOK, Published, Snapshots
<1>3. ASSUME NEW u \in Table \ {t}, NEW V, NEW L, Mirrored(V, L, rows, missing, u)
      PROVE  Mirrored(V, L, rows', missing', u)
  <2>1. rows'[u] = rows[u] /\ (u \in missing => u \in missing')
    BY DEF Uncaptured
  <2> QED BY <1>3, <2>1, MirrorKept
<1>4. \A u \in Table \ (diverged \cup behind) :
         Mirrored(View(Current(u)), Tail(log, Current(u).watermark), rows, missing, u)
  BY DEF ReadsInv, TailMirrors
<1>5. ASSUME NEW u \in Table \ (diverged' \cup behind)
      PROVE  Mirrored(View(Current(u)), Tail(log, Current(u).watermark), rows', missing', u)
  <2>1. CASE u # t
    BY <1>1, <1>3, <1>4, <1>5, <2>1
  <2>2. CASE u = t
    <3>1. ~InMirror(t) /\ t \in missing'
      BY <1>5, <2>2 DEF Uncaptured
    <3>2. View(Current(t)) = {} /\ \A k : ~Covered(log, t, k)
      BY <1>1, <3>1, OutOfMirror
    <3>3. \A k : ~Covered(Tail(log, Current(t).watermark), t, k)
      BY <1>1, <1>2, <3>2, LogCut
    <3>4. Mirrored({}, Tail(log, Current(t).watermark), rows', missing', t)
      BY <3>1, <3>3, MirrorOfNothing
    <3> QED BY <2>2, <3>2, <3>4
  <2> QED BY <2>1, <2>2
<1>6. ASSUME Staged(pragma), pragma.table \notin diverged', pragma.table \notin pragma.behind
      PROVE  Mirrored(View(pragma.md), Tail(log, pragma.md.watermark), rows', {}, pragma.table)
  <2>1. Mirrored(View(pragma.md), Tail(log, pragma.md.watermark), rows, {}, pragma.table)
    BY <1>1, <1>6 DEF ReadsInv, TailMirrors
  <2>2. pragma.table \in Table \ {t}
    BY <1>1, <1>6, PragmaRecord DEF Staged, StagedOK, StagedIn
  <2>3. rows'[pragma.table] = rows[pragma.table]
    BY <2>2
  <2> QED BY <2>1, <2>3, MirrorKept
<1> QED BY <1>2, <1>5, <1>6 DEF TailMirrors, Staged, View

LEMMA ReadsUnlogged ==
    ASSUME ReadsInv, Orderly', NEW c \in Client, write_batch(c), ~(client[c].seq > 0)
    PROVE  ReadsInv'
<1>1. NothingLost /\ NothingLost' /\ ShapeInv
  BY LostUnlogged DEF ReadsInv, NothingLost
<1>2. PICK e : e = client[c].entry
  OBVIOUS
<1>3. client[c] # Ready
  BY DEF write_batch
<1>4. e \in Entries /\ e.table \in Table /\ e.key \in Key
  BY <1>1, <1>2, <1>3, Writing
<1>5. rows' = Put(rows, e) /\ log' = log /\ Uncaptured(e.table)
  BY <1>2 DEF write_batch, WriteRow, Put
<1>6. /\ UNCHANGED <<cdc_seq, iceberg, loops, control, reader, restarted, behind>>
      /\ client' = [client EXCEPT ![c] = Ready]
  BY DEF write_batch
<1>7. \A u \in Table \ {e.table} : rows'[u] = rows[u]
  BY <1>1, <1>4, <1>5 DEF Put, ShapeInv, StoreOK
<1>8. Staged(pragma) => pragma.table # e.table
  <2>1. Staged(pragma) => Backfilled(pragma.table) /\ pragma.table \in Table
    BY <1>1, PragmaRecord DEF Staged, StagedOK, StagedIn, Backfilled, Backfilling
  <2> QED BY <1>1, <1>2, <1>3, <2>1 DEF NothingLost, Orderly, FlagSeen
<1>9. TailMirrors'
  BY <1>4, <1>5, <1>6, <1>7, <1>8, TailUncaptured DEF control
<1>10. ReaderStands'
  BY <1>6, ReaderWaits
<1>11. Watermarks'
  <2>1. client'[c] = Ready /\ \A d \in Client \ {c} : client'[d] = client[d]
    BY <1>1, <1>6 DEF ShapeInv, ClientShape
  <2>2. \A t \in Table : Current(t)' = Current(t)
    BY <1>6, SameSnapshots
  <2>3. seal' = seal /\ pragma' = pragma
    BY <1>6 DEF control, loops
  <2>4. SUFFICES ASSUME ~restarted PROVE Watermarks'
    BY <1>6 DEF Watermarks
  <2>5. ASSUME NEW t \in Table, NEW w, w = Current(t).watermark
        PROVE  /\ w > 0 => w <= cdc_seq
               /\ \A d \in Client : client'[d] # Ready /\ client'[d].seq > 0 => w < client'[d].seq
               /\ DOMAIN log # {} => \E s \in DOMAIN log : w <= s
               /\ seal # Asleep => w <= seal.watermark
    <3>1. /\ w > 0 => w <= cdc_seq
          /\ \A d \in Client : client[d] # Ready /\ client[d].seq > 0 => w < client[d].seq
          /\ DOMAIN log # {} => \E s \in DOMAIN log : w <= s
          /\ seal # Asleep => w <= seal.watermark
      BY <2>4, <2>5 DEF ReadsInv, Watermarks
    <3>2. \A d \in Client : client'[d] # Ready /\ client'[d].seq > 0 => w < client'[d].seq
      BY <2>1, <3>1
    <3> QED BY <3>1, <3>2
  <2>6. /\ \A s \in DOMAIN log : s <= cdc_seq
        /\ Staged(pragma) => pragma.md.watermark = 0 \/ pragma.md.watermark \in DOMAIN log
    BY <2>4 DEF ReadsInv, Watermarks
  <2> QED BY <1>5, <1>6, <2>2, <2>3, <2>5, <2>6 DEF Watermarks, Staged
<1> QED BY <1>1, <1>9, <1>10, <1>11 DEF ReadsInv

LEMMA ReadsDrop == ASSUME ReadsInv, Orderly', NEW t \in Table, delete_schema(t) PROVE ReadsInv'
<1>1. NothingLost /\ NothingLost' /\ ShapeInv
  BY LostDrop DEF ReadsInv, NothingLost
<1>2. /\ UNCHANGED <<log, sequences, client, iceberg, loops, pragma, reader, restarted, behind>>
      /\ rows' = [rows EXCEPT ![t] = [k \in Key |-> Absent]] /\ pragma = Idle
  BY DEF delete_schema
<1>3. \A u \in Table : Current(u)' = Current(u)
  BY <1>2, SameSnapshots
<1>4. rows \in [Table -> [Key -> Value \cup {Absent}]]
  BY <1>1 DEF ShapeInv, StoreOK
<1>5. StagesNothing
  BY <1>2 DEF StagesNothing, Staged, Idle
<1>6. Watermarks' /\ ReaderStands'
  BY <1>2, <1>3, <1>5, WatermarksStand, ReaderWaits DEF sequences, loops
<1>7. CASE \A k \in Key : rows[t][k] = Absent
  <2>1. rows[t] = [k \in Key |-> Absent]
    BY <1>4, <1>7
  <2>2. rows' = rows
    BY <1>2, <1>4, <2>1
  <2>3. UNCHANGED <<missing, diverged>>
    BY <1>7 DEF delete_schema
  <2>4. TailMirrors'
    BY <1>2, <1>3, <1>5, <2>2, <2>3, TailStands DEF store
  <2> QED BY <1>1, <1>6, <2>4 DEF ReadsInv
<1>8. CASE ~\A k \in Key : rows[t][k] = Absent
  <2>1. Uncaptured(t)
    BY <1>8 DEF delete_schema
  <2>2. \A u \in Table \ {t} : rows'[u] = rows[u]
    BY <1>2, <1>4
  <2>3. ~Staged(pragma)
    BY <1>2 DEF Staged, Idle
  <2>4. TailMirrors'
    BY <1>2, <2>1, <2>2, <2>3, TailUncaptured
  <2> QED BY <1>1, <1>6, <2>4 DEF ReadsInv
<1> QED BY <1>7, <1>8

\* Steps of the loops and of a PRAGMA that publish nothing and stage nothing.
LEMMA ReadsQuiet ==
    ASSUME ReadsInv, NothingLost', \A t \in Table : Current(t)' = Current(t),
           UNCHANGED <<store, cdc_seq, client, hint, reader, missing, diverged, behind, restarted>>,
           StagesNothing, seal' = Asleep \/ (seal # Asleep /\ seal'.watermark = seal.watermark)
    PROVE  ReadsInv'
<1>1. Watermarks' /\ TailMirrors'
  BY WatermarksStand, TailStands DEF store
<1>2. ReaderStands'
  BY ReaderKept
<1> QED BY <1>1, <1>2 DEF ReadsInv

LEMMA ReadsSealScan == ASSUME ReadsInv, Orderly', seal_scan PROVE ReadsInv'
<1>1. NothingLost /\ NothingLost' /\ ShapeInv
  BY LostSealScan DEF ReadsInv, NothingLost
<1>2. UNCHANGED <<store, sequences, client, iceberg, compact, control, reader, history>>
  BY DEF seal_scan
<1>3. \A t \in Table : Current(t)' = Current(t)
  BY <1>2, SameSnapshots
<1>4. TailMirrors' /\ ReaderStands'
  BY <1>2, <1>3, TailStands, ReaderWaits DEF StagesNothing, control, history
<1>5. CASE DOMAIN log = {}
  <2>1. seal' = Asleep
    BY <1>5 DEF seal_scan
  <2>2. Watermarks'
    BY <1>2, <1>3, <2>1, WatermarksStand DEF StagesNothing, store, sequences, control, history
  <2> QED BY <1>1, <1>4, <2>2 DEF ReadsInv
<1>6. CASE DOMAIN log # {}
  <2>1. seal'.watermark = Max(DOMAIN log)
    BY <1>6 DEF seal_scan
  <2>2. DOMAIN log \subseteq Nat /\ Max(DOMAIN log) \in DOMAIN log /\ \A s \in DOMAIN log : s <= Max(DOMAIN log)
    BY <1>1, <1>6, MaxIsGreatest DEF ShapeInv, StoreOK, LogOK
  <2>3. Watermarks'
    <3>1. SUFFICES ASSUME ~restarted PROVE Watermarks'
      BY <1>2 DEF Watermarks, history
    <3>2. ASSUME NEW t \in Table, NEW w, w = Current(t).watermark
          PROVE  /\ w > 0 => w <= cdc_seq
                 /\ \A c \in Client : client[c] # Ready /\ client[c].seq > 0 => w < client[c].seq
                 /\ \E s \in DOMAIN log : w <= s
                 /\ w <= seal'.watermark
      <4>1. /\ w > 0 => w <= cdc_seq
            /\ \A c \in Client : client[c] # Ready /\ client[c].seq > 0 => w < client[c].seq
            /\ \E s \in DOMAIN log : w <= s
        BY <1>6, <3>1, <3>2 DEF ReadsInv, Watermarks
      <4>2. w \in Nat
        BY <1>1, <3>2 DEF ShapeInv, SnapshotsOK, Published, Snapshots
      <4>3. w <= seal'.watermark
        BY <2>1, <2>2, <4>1, <4>2
      <4> QED BY <4>1, <4>3
    <3>3. Staged(pragma) => pragma.md.watermark = 0 \/ pragma.md.watermark \in DOMAIN log
      BY <3>1 DEF ReadsInv, Watermarks
    <3>4. log' = log /\ cdc_seq' = cdc_seq /\ client' = client /\ pragma' = pragma
      BY <1>2 DEF store, sequences, control
    <3>5. \A s \in DOMAIN log : s <= cdc_seq
      BY <3>1 DEF ReadsInv, Watermarks
    <3> QED BY <1>3, <3>2, <3>3, <3>4, <3>5 DEF Watermarks, Staged
  <2> QED BY <1>1, <1>4, <2>3 DEF ReadsInv
<1> QED BY <1>5, <1>6

LEMMA ReadsSealTable == ASSUME ReadsInv, Orderly', seal_table PROVE ReadsInv'
<1>1. NothingLost' /\ ShapeInv
  BY LostSealTable DEF ReadsInv, NothingLost
<1>2. UNCHANGED <<store, sequences, client, iceberg, compact, control, reader, history>>
  BY DEF seal_table
<1>3. \A t \in Table : Current(t)' = Current(t)
  BY <1>2, SameSnapshots
<1>4. seal' = Asleep \/ (seal # Asleep /\ seal'.watermark = seal.watermark)
  <2>1. seal.at # "idle"
    BY DEF seal_table
  <2>2. seal # Asleep
    BY <1>1, <2>1, SealingRecord
  <2>3. PICK t \in seal.todo :
           seal' = IF t \in dropped THEN Asleep
                   ELSE [at |-> "metadata", entries |-> seal.entries, watermark |-> seal.watermark,
                         todo |-> seal.todo, table |-> t, version |-> hint[t] + 1,
                         md |-> Sealed(Current(t), collapse_lww(seal.entries, t), seal.watermark)]
    BY DEF seal_table
  <2> QED BY <2>2, <2>3
<1> QED BY <1>1, <1>2, <1>3, <1>4, ReadsQuiet DEF StagesNothing, sequences, iceberg, control, history

LEMMA ReadsSealPutMetadata == ASSUME ReadsInv, Orderly', seal_put_metadata PROVE ReadsInv'
<1>1. NothingLost' /\ ShapeInv
  BY LostSealPutMetadata DEF ReadsInv, NothingLost
<1>2. UNCHANGED <<store, sequences, client, compact, control, reader, history>>
  BY DEF seal_put_metadata
<1>3. PICK j : j = seal
  OBVIOUS
<1>4. /\ j.at = "metadata" /\ seal' = [j EXCEPT !.at = "hint"] /\ hint' = hint
      /\ metadata' = [metadata EXCEPT ![j.table][j.version] = j.md]
  BY <1>3 DEF seal_put_metadata, PutMetadata
<1>5. seal # Asleep /\ Staged(j) /\ StagedOK(j)
  BY <1>1, <1>3, <1>4, SealingRecord DEF Staged
<1>6. \A t \in Table : Current(t)' = Current(t)
  BY <1>3, <1>4, <1>5, StagedPut DEF ReadsInv
<1>7. seal'.watermark = seal.watermark
  BY <1>1, <1>3, <1>4, <1>5 DEF ShapeInv, SealShape
<1> QED BY <1>1, <1>2, <1>4, <1>5, <1>6, <1>7, ReadsQuiet DEF StagesNothing, sequences, control, history

\* The snapshot of a seal takes over: it needs only what its scan did not cover.
LEMMA ReadsSealPutHint == ASSUME ReadsInv, Orderly', seal_put_hint PROVE ReadsInv'
<1>1. NothingLost /\ NothingLost' /\ ShapeInv
  BY LostSealPutHint DEF ReadsInv, NothingLost
<1>2. PICK j, u, w, new : j = seal /\ u = seal.table /\ w = seal.watermark /\ new = seal.md
  OBVIOUS
<1>3. /\ UNCHANGED <<store, sequences, client, compact, pragma, reader, restarted, missing, diverged>>
      /\ j.at = "hint" /\ PutHint(j)
      /\ seal'.watermark = w
      /\ behind' = behind \ {u}
  <2>1. PICK unnoted \in Unnoted(seal) :
           seal' = [at |-> IF unnoted THEN "mark" ELSE "tables", entries |-> seal.entries,
                    watermark |-> seal.watermark, todo |-> seal.todo \ {seal.table}]
    BY DEF seal_put_hint
  <2>2. seal'.watermark = w
    BY <1>2, <2>1
  <2> QED BY <1>2, <2>2 DEF seal_put_hint, PutHint, control
<1>4. j # Asleep /\ Staged(j) /\ StagedOK(j) /\ w \in Nat /\ u \in Table
  BY <1>1, <1>2, <1>3, SealingRecord DEF Staged, StagedOK, StagedIn
<1>5. /\ Current(u)' = new /\ (\A t \in Table \ {u} : Current(t)' = Current(t))
      /\ (\A t \in Table \ {u} : hint'[t] = hint[t]) /\ hint'[u] = hint[u] + 1
  <2>1. u = j.table /\ new = j.md
    BY <1>2
  <2>2. j \in {seal, compact, pragma}
    BY <1>2
  <2> QED BY <1>1, <1>3, <1>4, <2>1, <2>2, StagedPublished
<1>6. new = Sealed(Current(u), collapse_lww(UpTo(log, w), u), w) /\ w \in DOMAIN log
  BY <1>2, <1>4 DEF NothingLost, ReadsInv, ScanStands
<1>7. /\ LogOK(log) /\ rows \in [Table -> [Key -> Value \cup {Absent}]]
      /\ hint \in [Table -> 0..MaxVersion] /\ hint[u] \in Nat /\ Published(Current(u), hint[u])
  BY <1>1, <1>4 DEF ShapeInv, StoreOK, SnapshotsOK
<1>8. new.watermark = w
  <2>1. PICK E, ch : E = UpTo(log, w) /\ ch = collapse_lww(E, u)
    OBVIOUS
  <2>2. LogOK(E)
    BY <1>4, <1>7, <2>1, LogCut
  <2>3. ch \in Changed
    BY <2>1, <2>2, CollapsedLog
  <2> QED BY <1>4, <1>6, <1>7, <2>1, <2>3, SealedIsPublished
<1>9. u \notin diverged => Mirrored(View(new), Tail(log, w), rows, missing, u)
  <2>1. u \notin diverged => Mirrored(View(Current(u)), log, rows, missing, u)
    BY <1>1, <1>4 DEF NothingLost, LogMirrors
  <2>2. PICK old, n, E : old = Current(u) /\ n = hint[u] /\ E = UpTo(log, w)
    OBVIOUS
  <2> QED BY <1>4, <1>6, <1>7, <2>1, <2>2, MirrorSealed
<1>10. ReaderStands'
  <2>1. \A t \in Table : \/ hint'[t] = hint[t] /\ Current(t)' = Current(t)
                         \/ hint'[t] \in Nat /\ hint'[t] > hint[t]
    BY <1>4, <1>5, <1>7
  <2> QED BY <1>3, <2>1, ReaderKept
<1>11. log' = log /\ rows' = rows /\ cdc_seq' = cdc_seq
  BY <1>3 DEF store, sequences
<1>12. ~Staged(pragma)
  BY <1>1, <1>2, <1>4, NoBackfill
<1>13. CASE restarted
  BY <1>1, <1>3, <1>10, <1>13 DEF ReadsInv, Watermarks, TailMirrors
<1>14. CASE ~restarted
  <2>1. ASSUME NEW t \in Table, NEW x, x = Current(t)'.watermark
        PROVE  /\ x > 0 => x <= cdc_seq
               /\ \A c \in Client : client[c] # Ready /\ client[c].seq > 0 => x < client[c].seq
               /\ \E s \in DOMAIN log : x <= s
               /\ x <= w
    <3>1. CASE t = u
      <4>1. x = w
        BY <1>5, <1>8, <2>1, <3>1
      <4>2. \A c \in Client : client[c] # Ready /\ client[c].seq > 0 => w < client[c].seq
        BY <1>1, <1>2, <1>4 DEF NothingLost, Orderly, LandInOrder, Logging
      <4>3. w <= cdc_seq
        BY <1>6, <1>14 DEF ReadsInv, Watermarks
      <4> QED BY <1>4, <1>6, <4>1, <4>2, <4>3
    <3>2. CASE t # u
      <4>1. x = Current(t).watermark
        BY <1>5, <2>1, <3>2
      <4> QED BY <1>2, <1>4, <1>6, <1>14, <2>1, <4>1 DEF ReadsInv, Watermarks
    <3> QED BY <3>1, <3>2
  <2>2. Watermarks'
    <3>1. \A s \in DOMAIN log : s <= cdc_seq
      BY <1>14 DEF ReadsInv, Watermarks
    <3> QED BY <1>3, <1>11, <1>12, <2>1, <3>1 DEF Watermarks, Staged
  <2>3. TailMirrors'
    <3>1. SUFFICES ASSUME NEW t \in Table \ (diverged \cup (behind \ {u}))
                   PROVE  Mirrored(View(Current(t)'), Tail(log, Current(t)'.watermark), rows, missing, t)
      BY <1>3, <1>11, <1>12 DEF TailMirrors, View, Staged
    <3>2. CASE t = u
      BY <1>5, <1>8, <1>9, <3>1, <3>2
    <3>3. CASE t # u
      BY <1>5, <1>14, <3>1, <3>3 DEF ReadsInv, TailMirrors
    <3> QED BY <3>2, <3>3
  <2> QED BY <1>1, <1>10, <2>2, <2>3 DEF ReadsInv
<1> QED BY <1>13, <1>14

LEMMA ReadsCollected == ASSUME ReadsInv, Orderly', gc_cdc PROVE ReadsInv'
<1>1. NothingLost /\ NothingLost' /\ ShapeInv
  BY LostCollected DEF ReadsInv, NothingLost
<1>2. /\ UNCHANGED <<rows, sequences, client, iceberg, compact, control, reader, history>>
      /\ seal.at = "tables" /\ seal' = Asleep
      /\ log' = [s \in DOMAIN log \ Swept(seal.watermark) |-> log[s]]
  BY DEF gc_cdc
<1>3. seal # Asleep /\ seal.watermark \in Nat
  BY <1>1, <1>2, SealingRecord
<1>4. \A t \in Table : Current(t)' = Current(t) /\ Current(t).watermark \in Nat
  BY <1>1, <1>2, SameSnapshots DEF ShapeInv, SnapshotsOK, Published, Snapshots
<1>5. /\ DOMAIN log' \subseteq DOMAIN log /\ DOMAIN log' \subseteq Nat
      /\ \A s \in DOMAIN log' : s > seal.watermark
  BY <1>1, <1>2, <1>3 DEF Swept, ShapeInv, StoreOK, LogOK
<1>6. ReaderStands'
  BY <1>2, ReaderWaits
<1>7. ~Staged(pragma) /\ pragma' = pragma /\ restarted' = restarted
  BY <1>1, <1>2, <1>3, NoBackfill DEF control, history
<1>8. CASE restarted
  BY <1>1, <1>6, <1>7, <1>8 DEF ReadsInv, Watermarks, TailMirrors
<1>9. CASE ~restarted
  <2>1. ASSUME NEW t \in Table, NEW w, w = Current(t).watermark
        PROVE  /\ w > 0 => w <= cdc_seq
               /\ \A c \in Client : client[c] # Ready /\ client[c].seq > 0 => w < client[c].seq
               /\ \A s \in DOMAIN log' : w < s
    <3>1. /\ w > 0 => w <= cdc_seq
          /\ \A c \in Client : client[c] # Ready /\ client[c].seq > 0 => w < client[c].seq
          /\ w <= seal.watermark
      BY <1>3, <1>9, <2>1 DEF ReadsInv, Watermarks
    <3>2. \A s \in DOMAIN log' : w < s
      BY <1>3, <1>4, <1>5, <2>1, <3>1
    <3> QED BY <3>1, <3>2
  <2>2. ASSUME NEW t \in Table PROVE DOMAIN log' # {} => \E s \in DOMAIN log' : Current(t).watermark <= s
    BY <1>4, <1>5, <2>1
  <2>3. Watermarks'
    <3>1. cdc_seq' = cdc_seq /\ client' = client
      BY <1>2 DEF sequences
    <3>2. \A s \in DOMAIN log' : s <= cdc_seq
      BY <1>5, <1>9 DEF ReadsInv, Watermarks
    <3> QED BY <1>2, <1>4, <1>7, <2>1, <2>2, <3>1, <3>2 DEF Watermarks
  <2>4. ASSUME NEW t \in Table PROVE Tail(log', Current(t).watermark) = log'
    <3>1. PICK w, L : w = Current(t).watermark /\ L = log'
      OBVIOUS
    <3>2. {s \in DOMAIN L : s > w} = DOMAIN L
      BY <1>4, <1>5, <2>1, <3>1
    <3>3. L = [s \in DOMAIN L |-> L[s]]
      BY <1>2, <3>1
    <3> QED BY <3>1, <3>2, <3>3 DEF Tail
  <2>5. TailMirrors'
    <3>1. \A t \in Table \ diverged' : Mirrored(View(Current(t))', log', rows', missing', t)
      BY <1>1 DEF NothingLost, LogMirrors
    <3> QED BY <1>4, <1>7, <2>4, <3>1 DEF TailMirrors, View
  <2> QED BY <1>1, <1>6, <2>3, <2>5 DEF ReadsInv
<1> QED BY <1>8, <1>9

LEMMA ReadsSealFails == ASSUME ReadsInv, Orderly', seal_fails PROVE ReadsInv'
<1>1. NothingLost'
  BY LostSealFails DEF ReadsInv
<1>2. /\ UNCHANGED <<store, sequences, client, iceberg, compact, control, reader, restarted, missing,
                     diverged, behind>>
      /\ seal' = Asleep
  BY DEF seal_fails
<1>3. \A t \in Table : Current(t)' = Current(t)
  BY <1>2, SameSnapshots
<1> QED BY <1>1, <1>2, <1>3, ReadsQuiet DEF StagesNothing, sequences, iceberg, control

LEMMA ReadsCompactStages == ASSUME ReadsInv, Orderly', compact_table \/ compact_put_metadata PROVE ReadsInv'
<1>1. NothingLost' /\ ShapeInv
  BY LostCompactTable, LostCompactPutMetadata DEF ReadsInv, NothingLost
<1>2. UNCHANGED <<store, sequences, client, seal, control, reader, history>>
  BY DEF compact_table, compact_put_metadata
<1>3. \A t \in Table : Current(t)' = Current(t)
  <2>1. CASE compact_table
    BY <2>1, SameSnapshots DEF compact_table
  <2>2. CASE compact_put_metadata
    <3>1. PICK j : j = compact
      OBVIOUS
    <3>2. /\ j.at = "metadata" /\ hint' = hint
          /\ metadata' = [metadata EXCEPT ![j.table][j.version] = j.md]
      BY <2>2, <3>1 DEF compact_put_metadata, PutMetadata
    <3>3. Staged(j) /\ StagedOK(j)
      BY <1>1, <3>1, <3>2, CompactingRecord DEF Staged
    <3> QED BY <3>1, <3>2, <3>3, StagedPut DEF ReadsInv
  <2> QED BY <2>1, <2>2
<1>4. hint' = hint
  BY DEF compact_table, compact_put_metadata, PutMetadata, iceberg
<1> QED BY <1>1, <1>2, <1>3, <1>4, ReadsQuiet DEF StagesNothing, sequences, control, history

LEMMA ReadsCompactPutHint == ASSUME ReadsInv, Orderly', compact_put_hint PROVE ReadsInv'
<1>1. NothingLost /\ NothingLost' /\ ShapeInv
  BY LostCompactPutHint DEF ReadsInv, NothingLost
<1>2. UNCHANGED <<store, sequences, client, seal, control, reader, history>>
  BY DEF compact_put_hint
<1>3. PICK j : j = compact
  OBVIOUS
<1>4. j.at = "hint" /\ PutHint(j)
  BY <1>3 DEF compact_put_hint, PutHint
<1>5. j # Asleep /\ Staged(j) /\ StagedOK(j) /\ j.table \in Table
  BY <1>1, <1>3, <1>4, CompactingRecord DEF StagedOK, StagedIn, Staged, Asleep
<1>6. /\ Current(j.table)' = j.md /\ (\A t \in Table \ {j.table} : Current(t)' = Current(t))
      /\ (\A t \in Table \ {j.table} : hint'[t] = hint[t]) /\ hint'[j.table] = hint[j.table] + 1
  BY <1>1, <1>3, <1>4, <1>5, StagedPublished
<1>7. View(j.md) = View(Current(j.table)) /\ j.md.watermark = Current(j.table).watermark
  BY <1>1, <1>3, <1>5 DEF NothingLost, CompactionKeeps
<1>8. \A t \in Table : View(Current(t)') = View(Current(t)) /\ Current(t)'.watermark = Current(t).watermark
  BY <1>6, <1>7
<1>9. /\ log' = log /\ rows' = rows /\ cdc_seq' = cdc_seq /\ seal' = seal /\ pragma' = pragma
      /\ client' = client /\ missing' = missing /\ diverged' = diverged /\ behind' = behind
      /\ restarted' = restarted
  BY <1>2 DEF store, sequences, control, history
<1>10. ~Staged(pragma)
  BY <1>1, <1>3, <1>5, NoBackfill
<1>11. Watermarks'
  BY <1>8, <1>9, <1>10 DEF ReadsInv, Watermarks
<1>12. TailMirrors'
  BY <1>8, <1>9, <1>10 DEF ReadsInv, TailMirrors, View
<1>13. ReaderStands'
  <2>1. \A t \in Table : \/ hint'[t] = hint[t] /\ Current(t)' = Current(t)
                         \/ hint'[t] \in Nat /\ hint'[t] > hint[t]
    BY <1>1, <1>5, <1>6 DEF ShapeInv, SnapshotsOK
  <2> QED BY <1>2, <2>1, ReaderKept
<1> QED BY <1>1, <1>11, <1>12, <1>13 DEF ReadsInv

\* The PRAGMA's steps before its snapshot is staged and when it fails, and the save
\* of the registry after a table's first snapshot.
LEMMA ReadsFlags ==
    ASSUME ReadsInv, Orderly',
           \/ engine_for \/ register_tenant_fails \/ apply_pragma \/ reapply_flags
           \/ persist_registry \/ pragma_fails \/ seal_mark \/ backfill_mark
    PROVE  ReadsInv'
<1>1. NothingLost' /\ ShapeInv
  BY LostEngineFor, LostApply, LostReapply, LostPersist, LostPragmaFails, LostMarks
     DEF ReadsInv, NothingLost
<1>2. UNCHANGED <<store, sequences, client, iceberg, compact, reader, restarted, missing, diverged,
                  behind>>
  BY DEF engine_for, register_tenant_fails, apply_pragma, reapply_flags, persist_registry,
         pragma_fails, seal_mark, backfill_mark, loops, history
<1>3. \A t \in Table : Current(t)' = Current(t)
  BY <1>2, SameSnapshots
<1>4. StagesNothing
  <2>1. CASE register_tenant_fails \/ seal_mark
    BY <2>1 DEF StagesNothing, register_tenant_fails, seal_mark
  <2>2. CASE engine_for \/ apply_pragma \/ reapply_flags \/ persist_registry \/ pragma_fails
             \/ backfill_mark
    <3>1. ~Staged(pragma')
      BY <2>2 DEF engine_for, apply_pragma, reapply_flags, persist_registry, pragma_fails,
         backfill_mark, Staged, Idle
    <3> QED BY <3>1 DEF StagesNothing
  <2> QED BY <2>1, <2>2
<1>5. seal' = seal \/ (seal # Asleep /\ seal'.watermark = seal.watermark)
  <2>1. CASE seal_mark
    <3>1. seal.at = "mark" /\ seal' = [seal EXCEPT !.at = "tables"]
      BY <2>1 DEF seal_mark
    <3>2. seal # Asleep
      BY <3>1 DEF Asleep
    <3>3. seal = [at |-> seal.at, entries |-> seal.entries, watermark |-> seal.watermark,
                  todo |-> seal.todo]
      BY <1>1, <3>1, <3>2 DEF ShapeInv, SealShape, Staged
    <3> QED BY <3>1, <3>2, <3>3
  <2>2. CASE ~seal_mark
    BY <2>2 DEF engine_for, register_tenant_fails, apply_pragma, reapply_flags, persist_registry,
         pragma_fails, backfill_mark, loops
  <2> QED BY <2>1, <2>2
<1> QED BY <1>1, <1>2, <1>3, <1>4, <1>5, ReadsQuiet DEF sequences, iceberg

LEMMA ReadsBackfillScan == ASSUME ReadsInv, Orderly', backfill_scan PROVE ReadsInv'
<1>1. NothingLost /\ NothingLost' /\ ShapeInv
  BY LostBackfillScan DEF ReadsInv, NothingLost
<1>2. UNCHANGED <<store, sequences, client, iceberg, loops, reader, restarted, diverged, behind>>
  BY DEF backfill_scan
<1>3. \A t \in Table : Current(t)' = Current(t)
  BY <1>2, SameSnapshots
<1>4. ~Staged(pragma')
  BY DEF backfill_scan, Staged, Idle
<1>5. Watermarks' /\ ReaderStands'
  BY <1>2, <1>3, <1>4, WatermarksStand, ReaderWaits DEF StagesNothing, store, sequences, loops
<1>6. PICK t : t = pragma.table
  OBVIOUS
<1>7. missing' = missing \/ ((\A k \in Key : rows[t][k] = Absent) /\ missing' = missing \ {t})
  BY <1>6 DEF backfill_scan
<1>8. TailMirrors'
  <2>1. SUFFICES ASSUME ~restarted, NEW u \in Table \ (diverged \cup behind)
                 PROVE  Mirrored(View(Current(u)), Tail(log, Current(u).watermark), rows, missing', u)
    BY <1>2, <1>3, <1>4 DEF TailMirrors, View, store, Staged
  <2>2. Mirrored(View(Current(u)), Tail(log, Current(u).watermark), rows, missing, u)
    BY <2>1 DEF ReadsInv, TailMirrors
  <2>3. CASE u \in missing => u \in missing'
    BY <2>2, <2>3, MirrorKept
  <2>4. CASE u \in missing /\ u \notin missing'
    <3>1. \A k \in Key : rows[u][k] \notin Value
      BY <1>7, <2>4, MirrorAssumption
    <3> QED BY <2>2, <3>1 DEF Mirrored, Holds
  <2> QED BY <2>3, <2>4
<1> QED BY <1>1, <1>5, <1>8 DEF ReadsInv

\* The snapshot of a backfill: its watermark covers the whole log, which is right
\* if the rows that were read are the ones the log ends with.
LEMMA ReadsBackfillLoad == ASSUME ReadsInv, Orderly', backfill_load PROVE ReadsInv'
<1>1. NothingLost /\ NothingLost' /\ ShapeInv
  BY LostBackfillLoad DEF ReadsInv, NothingLost
<1>2. /\ UNCHANGED <<store, sequences, client, iceberg, loops, reader, history>>
      /\ pragma.at = "load"
  BY DEF backfill_load
<1>3. \A t \in Table : Current(t)' = Current(t)
  BY <1>2, SameSnapshots
<1>4. PICK t, f, w, n, old, new :
         /\ t = pragma.table /\ f = pragma.rows /\ w = max_persisted_cdc_seq /\ n = hint[t]
         /\ old = Current(t) /\ new = Sealed(old, f, w)
  OBVIOUS
<1>5. PICK pending : pending = collapse_lww(log, t)
  OBVIOUS
<1>6. PICK B : B = {t : k \in {k \in DOMAIN pending :
                                 \/ pending[k] = Absent
                                 \/ k \notin DOMAIN f
                                 \/ f[k] # pending[k]}}
  OBVIOUS
<1>7. pragma' = [at |-> "metadata", table |-> t, version |-> n + 1, md |-> new, behind |-> B]
  BY <1>4, <1>5, <1>6 DEF backfill_load
<1>8. t \in Table /\ f \in Changed
  BY <1>1, <1>2, <1>4, PragmaRecord, ContentsAreChanges
<1>9. w \in Nat /\ n \in Nat /\ Published(old, n) /\ LogOK(log) /\ \A s \in DOMAIN log : s <= w
  BY <1>1, <1>4, <1>8, NextSequence DEF ShapeInv, SnapshotsOK, StoreOK
<1>10. new.watermark = w
  BY <1>4, <1>8, <1>9, SealedIsPublished
<1>11. w = 0 \/ w \in DOMAIN log
  <2>1. DOMAIN log # {} => Max(DOMAIN log) \in DOMAIN log
    BY <1>9, MaxIsGreatest DEF LogOK
  <2> QED BY <1>4, <2>1 DEF max_persisted_cdc_seq, Max0
<1>12. ReaderStands'
  BY <1>2, ReaderWaits
<1>13. log' = log /\ rows' = rows /\ cdc_seq' = cdc_seq /\ seal' = seal /\ client' = client
       /\ missing' = missing /\ diverged' = diverged /\ behind' = behind /\ restarted' = restarted
  BY <1>2 DEF store, sequences, loops, history
<1>14. Watermarks'
  <2>1. pragma'.md.watermark = 0 \/ pragma'.md.watermark \in DOMAIN log
    BY <1>7, <1>10, <1>11
  <2> QED BY <1>3, <1>13, <2>1 DEF ReadsInv, Watermarks
<1>15. ASSUME t \notin diverged, t \notin B PROVE Mirrored(View(new), Tail(log, w), rows, {}, t)
  <2>1. /\ \A k \in Key : k \in DOMAIN pending <=> Covered(log, t, k)
        /\ \A k \in DOMAIN pending : k \in Key /\ pending[k] = LastRow(log, t, k)
    BY <1>5, <1>9, CollapsedLog
  <2>2. \A k \in DOMAIN pending : k \in DOMAIN f /\ f[k] = pending[k]
    BY <1>6, <1>15
  <2>3. \A k \in Key, v \in Value :
           <<k, v>> \in View(new) <=> IF k \in DOMAIN f THEN f[k] = v ELSE <<k, v>> \in View(old)
    <3>1. /\ n \in Nat /\ Published(old, n) /\ f \in Changed /\ w \in Nat
          /\ new = Sealed(old, f, w)
      BY <1>4, <1>8, <1>9
    <3> QED BY <3>1, SealedShows
  <2>4. \A k : ~Covered(Tail(log, w), t, k)
    <3>1. {s \in DOMAIN log : s > w} = {}
      BY <1>9 DEF LogOK
    <3> QED BY <3>1 DEF Covered, Seqs, Tail
  <2>5. ASSUME NEW k \in Key, NEW v \in Value PROVE <<k, v>> \in View(new) <=> rows[t][k] = v
    <3>1. CASE Covered(log, t, k)
      <4>1. LastRow(log, t, k) = rows[t][k]
        BY <1>1, <1>8, <1>15, <3>1 DEF NothingLost, LogMirrors, Mirrored, Agrees
      <4> QED BY <2>1, <2>2, <2>3, <3>1, <4>1
    <3>2. CASE ~Covered(log, t, k)
      <4>1. View(pragma.md)' = View(new)
        BY <1>7 DEF View
      <4>2. Staged(pragma)' /\ pragma'.table = t
        BY <1>7 DEF Staged
      <4> QED BY <1>1, <1>13, <1>15, <3>2, <4>1, <4>2 DEF NothingLost, BackfillStands
    <3> QED BY <3>1, <3>2
  <2> QED BY <2>4, <2>5 DEF Mirrored, Agrees, Holds
<1>16. TailMirrors'
  <2>1. SUFFICES ASSUME ~restarted PROVE TailMirrors'
    BY <1>13 DEF TailMirrors
  <2>2. \A u \in Table \ (diverged \cup behind) :
           Mirrored(View(Current(u)), Tail(log, Current(u).watermark), rows, missing, u)
    BY <2>1 DEF ReadsInv, TailMirrors
  <2>3. View(pragma.md)' = View(new) /\ pragma'.md.watermark = w /\ pragma'.table = t /\ pragma'.behind = B
    BY <1>7, <1>10 DEF View
  <2> QED BY <1>3, <1>13, <1>15, <2>2, <2>3 DEF TailMirrors, View
<1> QED BY <1>1, <1>12, <1>14, <1>16 DEF ReadsInv

LEMMA ReadsBackfillPutMetadata == ASSUME ReadsInv, Orderly', backfill_put_metadata PROVE ReadsInv'
<1>1. NothingLost' /\ ShapeInv
  BY LostBackfillPutMetadata DEF ReadsInv, NothingLost
<1>2. UNCHANGED <<store, sequences, client, loops, reader, history>>
  BY DEF backfill_put_metadata
<1>3. PICK j : j = pragma
  OBVIOUS
<1>4. /\ j.at = "metadata" /\ pragma' = [j EXCEPT !.at = "hint"] /\ hint' = hint
      /\ metadata' = [metadata EXCEPT ![j.table][j.version] = j.md]
  BY <1>3 DEF backfill_put_metadata, PutMetadata
<1>5. Staged(j) /\ StagedOK(j) /\ pragma # Idle
  BY <1>1, <1>3, <1>4, PragmaRecord DEF Staged
<1>6. \A t \in Table : Current(t)' = Current(t)
  BY <1>3, <1>4, <1>5, StagedPut DEF ReadsInv
<1>7. pragma' = [at |-> "hint", table |-> j.table, version |-> j.version, md |-> j.md, behind |-> j.behind]
  BY <1>1, <1>3, <1>4, <1>5 DEF ShapeInv, PragmaShape
<1>8. StagesNothing
  BY <1>3, <1>5, <1>7 DEF StagesNothing
<1> QED BY <1>1, <1>2, <1>4, <1>6, <1>8, ReadsQuiet DEF sequences, loops, history

LEMMA ReadsBackfillPutHint == ASSUME ReadsInv, Orderly', backfill_put_hint PROVE ReadsInv'
<1>1. NothingLost /\ NothingLost' /\ ShapeInv
  BY LostBackfillPutHint DEF ReadsInv, NothingLost
<1>2. PICK j, t : j = pragma /\ t = j.table
  OBVIOUS
<1>3. /\ UNCHANGED <<store, sequences, client, loops, reader, diverged, restarted>>
      /\ j.at = "hint" /\ PutHint(j)
      /\ pragma' \in {Idle, [at |-> "mark"]} /\ missing' = missing \ {t}
      /\ behind' = (behind \ {t}) \cup j.behind
  BY <1>2 DEF backfill_put_hint, PutHint
<1>4. seal = Asleep /\ Staged(j) /\ StagedOK(j) /\ t \in Table
  BY <1>1, <1>2, <1>3, PragmaRecord
     DEF Staged, StagedOK, StagedIn, NothingLost, Orderly, BackfillsAlone, Backfilling
<1>5. /\ Current(t)' = j.md /\ (\A u \in Table \ {t} : Current(u)' = Current(u))
      /\ (\A u \in Table \ {t} : hint'[u] = hint[u]) /\ hint'[t] = hint[t] + 1
  BY <1>1, <1>2, <1>3, <1>4, StagedPublished
<1>6. /\ log' = log /\ rows' = rows /\ cdc_seq' = cdc_seq /\ seal' = Asleep
      /\ client' = client /\ DOMAIN log \subseteq Nat
  BY <1>1, <1>3, <1>4 DEF store, sequences, loops, ShapeInv, StoreOK, LogOK
<1>7. ReaderStands'
  <2>1. \A u \in Table : \/ hint'[u] = hint[u] /\ Current(u)' = Current(u)
                         \/ hint'[u] \in Nat /\ hint'[u] > hint[u]
    BY <1>1, <1>4, <1>5 DEF ShapeInv, SnapshotsOK
  <2> QED BY <1>3, <2>1, ReaderKept
<1>8. ~Staged(pragma')
  BY <1>3 DEF Staged, Idle
<1>9. CASE restarted
  BY <1>1, <1>3, <1>7, <1>9 DEF ReadsInv, Watermarks, TailMirrors
<1>10. CASE ~restarted
  <2>1. j.md.watermark = 0 \/ j.md.watermark \in DOMAIN log
    BY <1>2, <1>4, <1>10 DEF ReadsInv, Watermarks
  <2>2. ASSUME NEW u \in Table, NEW x, x = Current(u)'.watermark
        PROVE  /\ x > 0 => x <= cdc_seq
               /\ \A c \in Client : client[c] # Ready /\ client[c].seq > 0 => x < client[c].seq
               /\ DOMAIN log # {} => \E s \in DOMAIN log : x <= s
    <3>1. CASE u = t
      <4>1. x = j.md.watermark
        BY <1>5, <2>2, <3>1
      <4>2. CASE x = 0
        <5>1. \A c \in Client : client[c] # Ready /\ client[c].seq > 0 => x < client[c].seq
          BY <4>2
        <5>2. DOMAIN log # {} => \E s \in DOMAIN log : x <= s
          BY <1>6, <4>2
        <5> QED BY <4>2, <5>1, <5>2
      <4>3. CASE x \in DOMAIN log
        <5>1. \A c \in Client : client[c] # Ready /\ client[c].seq > 0 => x < client[c].seq
          BY <1>1, <1>2, <1>4, <4>1 DEF NothingLost, Orderly, LandInOrder, Logging
        <5>2. x <= cdc_seq
          BY <1>10, <4>3 DEF ReadsInv, Watermarks
        <5>3. x <= x
          BY <1>6, <4>3
        <5> QED BY <4>3, <5>1, <5>2, <5>3
      <4> QED BY <2>1, <4>1, <4>2, <4>3
    <3>2. CASE u # t
      <4>1. x = Current(u).watermark
        BY <1>5, <2>2, <3>2
      <4> QED BY <1>10, <2>2, <4>1 DEF ReadsInv, Watermarks
    <3> QED BY <3>1, <3>2
  <2>3. Watermarks'
    <3>1. \A s \in DOMAIN log : s <= cdc_seq
      BY <1>10 DEF ReadsInv, Watermarks
    <3> QED BY <1>6, <1>8, <2>2, <3>1 DEF Watermarks, Staged
  <2>4. TailMirrors'
    <3>1. SUFFICES ASSUME NEW u \in Table \ (diverged \cup behind')
                   PROVE  Mirrored(View(Current(u)'), Tail(log, Current(u)'.watermark), rows, missing', u)
      BY <1>3, <1>6, <1>8 DEF TailMirrors, View, Staged
    <3>2. CASE u = t
      <4>1. Mirrored(View(j.md), Tail(log, j.md.watermark), rows, {}, t)
        BY <1>2, <1>3, <1>4, <1>10, <3>1, <3>2 DEF ReadsInv, TailMirrors
      <4>2. Mirrored(View(j.md), Tail(log, j.md.watermark), rows, missing', t)
        BY <4>1, MirrorKept
      <4> QED BY <1>5, <3>2, <4>2
    <3>3. CASE u # t
      <4>1. Mirrored(View(Current(u)), Tail(log, Current(u).watermark), rows, missing, u)
        BY <1>3, <1>10, <3>1, <3>3 DEF ReadsInv, TailMirrors
      <4>2. Mirrored(View(Current(u)), Tail(log, Current(u).watermark), rows, missing', u)
        BY <1>3, <3>3, <4>1, MirrorKept
      <4> QED BY <1>5, <3>1, <3>3, <4>2
    <3> QED BY <3>2, <3>3
  <2> QED BY <1>1, <1>7, <2>3, <2>4 DEF ReadsInv
<1> QED BY <1>9, <1>10

\* The steps of a read itself, and a table that is created again.
LEMMA ReadsReader ==
    ASSUME ReadsInv, NothingLost',
           (\E t \in Table : insert_schema(t)) \/ read_snapshot \/ Reading \/ UNCHANGED vars
    PROVE  ReadsInv'
<1>1. UNCHANGED <<store, sequences, client, iceberg, loops, pragma, history>>
  BY DEF insert_schema, read_snapshot, Reading, read_watermark, read_tail, vars, control
<1>2. \A t \in Table : Current(t)' = Current(t) /\ hint'[t] = hint[t]
  BY <1>1, SameSnapshots DEF iceberg
<1>3. Watermarks' /\ TailMirrors'
  BY <1>1, <1>2, WatermarksStand, TailStands DEF StagesNothing, store, sequences, loops, history
<1>4. hint \in [Table -> 0..MaxVersion] /\ left.tables \subseteq Table
  BY DEF ReadsInv, NothingLost, ShapeInv, SnapshotsOK, CountersOK, Allowance
<1>5. CASE (\E t \in Table : insert_schema(t)) \/ UNCHANGED vars
  <2>1. reader' = reader
    BY <1>5 DEF insert_schema, vars
  <2> QED BY <1>1, <1>3, <2>1, ReaderWaits DEF ReadsInv
<1>6. CASE read_snapshot
  <2>1. PICK t \in left.tables \ dropped :
           reader' = [at |-> "delta", table |-> t, version |-> hint[t], md |-> Current(t)]
    BY <1>6 DEF read_snapshot
  <2>2. t \in Table /\ hint[t] \in Nat /\ hint[t] <= hint[t]
    BY <1>4, <2>1
  <2>3. reader'.md = Current(t)'
    BY <1>2, <2>1, <2>2
  <2>4. ReaderStands'
    BY <1>2, <2>1, <2>2, <2>3 DEF ReaderStands, Current
  <2> QED BY <1>3, <2>4 DEF ReadsInv
<1>7. CASE read_watermark
  <2>1. PICK r : r = reader
    OBVIOUS
  <2>2. /\ r.at = "delta"
        /\ reader' = [at |-> "tail", table |-> r.table, version |-> r.version, md |-> r.md,
                      watermark |-> Current(r.table).watermark]
    BY <1>7, <2>1 DEF read_watermark
  <2>3. r # Idle
    BY <2>2 DEF Idle
  <2>4. /\ r.table \in Table /\ r.version \in Nat /\ r.version <= hint[r.table]
        /\ r.version = hint[r.table] => r.md = Current(r.table)
    BY <2>1, <2>3 DEF ReadsInv, ReaderStands
  <2>5. Current(r.table)' = Current(r.table) /\ hint'[r.table] = hint[r.table]
    BY <1>2, <2>4
  <2>6. /\ r.version <= hint'[r.table]
        /\ r.version = hint'[r.table] =>
             r.md = Current(r.table)' /\ Current(r.table).watermark = Current(r.table)'.watermark
    BY <2>4, <2>5
  <2>7. ReaderStands'
    BY <2>2, <2>4, <2>6 DEF ReaderStands, Current
  <2> QED BY <1>3, <2>7 DEF ReadsInv
<1>8. CASE read_tail
  <2>1. ReaderStands'
    BY <1>8 DEF read_tail, ReaderStands
  <2> QED BY <1>3, <2>1 DEF ReadsInv
<1> QED BY <1>5, <1>6, <1>7, <1>8 DEF Reading

LEMMA ReadsRestart == ASSUME ReadsInv, Orderly', restart PROVE ReadsInv'
<1>1. NothingLost'
  BY LostRestart DEF ReadsInv
<1>2. restarted' = TRUE /\ reader' = Idle
  BY DEF restart
<1> QED BY <1>1, <1>2 DEF ReadsInv, Watermarks, TailMirrors, ReaderStands

LEMMA ReadsNext == ReadsInv /\ Orderly' /\ [Next]_vars => ReadsInv'
<1> SUFFICES ASSUME ReadsInv, Orderly', [Next]_vars PROVE ReadsInv'
  OBVIOUS
<1>1. CASE \E c \in Client : allocate(c) \/ write_batch(c)
  BY <1>1, ReadsAllocate, ReadsLogged, ReadsUnlogged
<1>2. CASE Sealing \/ seal_fails
  BY <1>2, ReadsSealScan, ReadsSealTable, ReadsSealPutMetadata, ReadsSealPutHint, ReadsCollected,
     ReadsSealFails, ReadsFlags DEF Sealing
<1>3. CASE compact_table \/ compact_put_metadata \/ compact_put_hint
  BY <1>3, ReadsCompactStages, ReadsCompactPutHint
<1>4. CASE engine_for \/ register_tenant_fails \/ Applying \/ pragma_fails
  BY <1>4, ReadsFlags, ReadsBackfillScan, ReadsBackfillLoad, ReadsBackfillPutMetadata,
     ReadsBackfillPutHint DEF Applying
<1>5. CASE \E t \in Table : delete_schema(t)
  BY <1>5, ReadsDrop
<1>6. CASE (\E t \in Table : insert_schema(t)) \/ read_snapshot \/ Reading \/ UNCHANGED vars
  <2>1. NothingLost'
    BY LostNext DEF ReadsInv
  <2> QED BY <1>6, <2>1, ReadsReader
<1>7. CASE restart
  BY <1>7, ReadsRestart
<1> QED BY <1>1, <1>2, <1>3, <1>4, <1>5, <1>6, <1>7 DEF Next

LEMMA ReadsInit == AsKept /\ Orderly /\ Init => ReadsInv
<1> SUFFICES ASSUME AsKept, Orderly, Init PROVE ReadsInv
  OBVIOUS
<1>1. NothingLost
  BY LostInit
<1>2. /\ log = [s \in {} |-> Absent] /\ hint = [t \in Table |-> 0]
      /\ metadata = [t \in Table |-> [v \in 0..MaxVersion |-> NoSnapshot]]
      /\ seal = Asleep /\ pragma = Idle /\ reader = Idle /\ client = [c \in Client |-> Ready]
  BY DEF Init
<1>3. \A t \in Table : Current(t) = NoSnapshot
  BY <1>2, MirrorAssumption DEF Current
<1>4. DOMAIN log = {} /\ ~Staged(pragma)
  BY <1>2 DEF Staged, Idle
<1>5. Watermarks
  BY <1>2, <1>3, <1>4 DEF Watermarks, NoSnapshot
<1>6. TailMirrors
  <2>1. \A w : Tail(log, w) = log
    BY <1>2 DEF Tail
  <2>2. \A t \in Table \ diverged : Mirrored(View(Current(t)), log, rows, missing, t)
    BY <1>1 DEF NothingLost, LogMirrors
  <2> QED BY <1>4, <2>1, <2>2 DEF TailMirrors
<1> QED BY <1>1, <1>2, <1>5, <1>6 DEF ReadsInv, ReaderStands

-----------------------------------------------------------------------------
\* No snapshot is published between the two reads of the metadata and the scan.
ReaderUndisturbed == reader.at = "tail" => hint[reader.table] = reader.version

\* A reader that meets no other task merges the table, and so does one whose
\* snapshot is still the current one when it scans the tail.
LEMMA ReadsAreTheTable == ReadsInv /\ ReaderUndisturbed => ReadYourWritesUntilRestart
<1> SUFFICES ASSUME ReadsInv, ReaderUndisturbed, ~restarted PROVE ReadYourWrites
  BY DEF ReadYourWritesUntilRestart
<1>1. /\ NothingLost /\ ShapeInv /\ ~AsDocumented /\ LogOK(log)
      /\ rows \in [Table -> [Key -> Value \cup {Absent}]]
  BY DEF ReadsInv, NothingLost, AsKept, ShapeInv, StoreOK
<1>2. \A t \in Captured : t \in Table /\ t \notin missing /\ t \notin diverged
  BY <1>1 DEF Captured
<1>3. ASSUME NEW t \in Captured, t \notin behind, NEW md, md = Current(t)
      PROVE  Merged(t, md, scan_cdc(md.watermark)) = Rows(t)
  <2>1. PICK w, T : w = md.watermark /\ T = Tail(log, w)
    OBVIOUS
  <2>2. w \in Nat
    BY <1>1, <1>2, <1>3, <2>1 DEF ShapeInv, SnapshotsOK, Published, Snapshots
  <2>3. LogOK(T)
    BY <1>1, <2>1, <2>2, LogCut
  <2>4. Mirrored(View(md), T, rows, missing, t)
    BY <1>2, <1>3, <2>1 DEF ReadsInv, TailMirrors
  <2>5. Merged(t, md, T) = Rows(t)
    BY <1>1, <1>2, <2>3, <2>4, MergedIsTheTable
  <2>6. scan_cdc(md.watermark) = T
    BY <2>1 DEF scan_cdc, Tail
  <2> QED BY <2>5, <2>6
<1>4. \A t \in Captured : (t \in behind /\ ~AsDocumented) \/ MergedRead(t) = Rows(t)
  BY <1>1, <1>3 DEF MergedRead
<1>5. ASSUME reader.at = "tail", reader.table \in Captured \ behind,
             hint[reader.table] = reader.version
      PROVE  Answer = Rows(reader.table)
  <2>1. reader # Idle
    BY <1>5 DEF Idle
  <2>2. reader.md = Current(reader.table) /\ reader.watermark = Current(reader.table).watermark
    BY <1>5, <2>1 DEF ReadsInv, ReaderStands
  <2> QED BY <1>3, <1>5, <2>2 DEF Answer
<1> QED BY <1>4, <1>5 DEF ReadYourWrites, ReaderUndisturbed

\* docs/guarantees/consistency.md: on the writer an analytical read sees every
\* commit, sealed or not.  For all tables, keys, values and commits under way, as
\* long as the process was not restarted, scan_merge's snapshot with the tail behind
\* its watermark is the table, at every step of a seal, a compaction and a PRAGMA;
\* also when the read's own steps are far apart.  On the orderly schedules, without a
\* snapshot published between those steps, and except for a table that waits for the
\* seal after its backfill.
THEOREM ReadsSeeTheWrites ==
    AsKept /\ Spec /\ [](Orderly /\ ReaderUndisturbed) => []ReadYourWritesUntilRestart
<1>1. AsKept /\ Orderly /\ Init => ReadsInv
  BY ReadsInit
<1>2. ReadsInv /\ Orderly' /\ [Next]_vars => ReadsInv'
  BY ReadsNext
<1>3. ReadsInv /\ ReaderUndisturbed => ReadYourWritesUntilRestart
  BY ReadsAreTheTable
<1> QED BY <1>1, <1>2, <1>3, PTL DEF Spec

\* A published snapshot is as recent as the one before, unless a backfill or a
\* restart comes between.
LEMMA PublishedAdvances ==
    ASSUME ReadsInv, [Next]_vars, ~restarted', pragma.at # "hint", NEW t \in Table
    PROVE  Current(t)'.watermark >= Current(t).watermark
<1>1. NothingLost /\ ShapeInv /\ \A u \in Table : Current(u).watermark \in Nat
  BY DEF ReadsInv, NothingLost, ShapeInv, SnapshotsOK, Published, Snapshots
<1>2. CASE Current(t)' = Current(t)
  BY <1>1, <1>2
<1>3. CASE UNCHANGED iceberg
  <2>1. Current(t)' = Current(t)
    BY <1>3 DEF iceberg, Current
  <2> QED BY <1>2, <2>1
<1>4. CASE seal_put_metadata
  <2>1. PICK j : j = seal
    OBVIOUS
  <2>2. /\ j.at = "metadata" /\ hint' = hint
        /\ metadata' = [metadata EXCEPT ![j.table][j.version] = j.md]
    BY <1>4, <2>1 DEF seal_put_metadata, PutMetadata
  <2>3. Staged(j) /\ StagedOK(j)
    BY <1>1, <2>1, <2>2, SealingRecord DEF Staged
  <2> QED BY <1>1, <1>2, <2>1, <2>2, <2>3, StagedPut
<1>5. CASE compact_put_metadata
  <2>1. PICK j : j = compact
    OBVIOUS
  <2>2. /\ j.at = "metadata" /\ hint' = hint
        /\ metadata' = [metadata EXCEPT ![j.table][j.version] = j.md]
    BY <1>5, <2>1 DEF compact_put_metadata, PutMetadata
  <2>3. Staged(j) /\ StagedOK(j)
    BY <1>1, <2>1, <2>2, CompactingRecord DEF Staged
  <2> QED BY <1>1, <1>2, <2>1, <2>2, <2>3, StagedPut
<1>6. CASE backfill_put_metadata
  <2>1. PICK j : j = pragma
    OBVIOUS
  <2>2. /\ j.at = "metadata" /\ hint' = hint
        /\ metadata' = [metadata EXCEPT ![j.table][j.version] = j.md]
    BY <1>6, <2>1 DEF backfill_put_metadata, PutMetadata
  <2>3. Staged(j) /\ StagedOK(j)
    BY <1>1, <2>1, <2>2, PragmaRecord DEF Staged
  <2> QED BY <1>1, <1>2, <2>1, <2>2, <2>3, StagedPut
<1>7. CASE seal_put_hint
  <2>1. PICK j, w : j = seal /\ w = seal.watermark
    OBVIOUS
  <2>2. j.at = "hint" /\ PutHint(j) /\ ~restarted
    BY <1>7, <2>1 DEF seal_put_hint, PutHint
  <2>3. j # Asleep /\ Staged(j) /\ StagedOK(j) /\ w \in Nat /\ j.table \in Table
    BY <1>1, <2>1, <2>2, SealingRecord DEF Staged, StagedOK, StagedIn
  <2>4. Current(t)' = IF t = j.table THEN j.md ELSE Current(t)
    BY <1>1, <2>1, <2>2, <2>3, StagedPublished
  <2>5. PICK u, E, ch : u = j.table /\ E = UpTo(log, w) /\ ch = collapse_lww(E, u)
    OBVIOUS
  <2>6. j.md = Sealed(Current(u), ch, w)
    BY <1>1, <2>1, <2>3, <2>5 DEF NothingLost, ScanStands
  <2>7. LogOK(log) /\ hint[u] \in Nat /\ Published(Current(u), hint[u])
    BY <1>1, <2>3, <2>5 DEF ShapeInv, StoreOK, SnapshotsOK
  <2>8. j.md.watermark = w
    <3>1. LogOK(E)
      BY <2>3, <2>5, <2>7, LogCut
    <3>2. ch \in Changed
      BY <2>5, <3>1, CollapsedLog
    <3> QED BY <2>3, <2>6, <2>7, <3>2, SealedIsPublished
  <2>9. Current(t).watermark <= w
    BY <2>1, <2>2, <2>3 DEF ReadsInv, Watermarks
  <2> QED BY <1>1, <2>3, <2>4, <2>8, <2>9
<1>8. CASE compact_put_hint
  <2>1. PICK j : j = compact
    OBVIOUS
  <2>2. j.at = "hint" /\ PutHint(j)
    BY <1>8, <2>1 DEF compact_put_hint, PutHint
  <2>3. Staged(j) /\ StagedOK(j) /\ j.table \in Table
    BY <1>1, <2>1, <2>2, CompactingRecord DEF Staged, StagedOK, StagedIn
  <2>4. Current(t)' = IF t = j.table THEN j.md ELSE Current(t)
    BY <1>1, <2>1, <2>2, <2>3, StagedPublished
  <2>5. j.md.watermark = Current(j.table).watermark
    BY <1>1, <2>1, <2>3 DEF NothingLost, CompactionKeeps
  <2> QED BY <1>1, <2>4, <2>5
<1>9. CASE backfill_put_hint
  <2>1. PICK j : j = pragma
    OBVIOUS
  <2>2. j.at = "hint"
    BY <1>9, <2>1 DEF backfill_put_hint, PutHint
  <2> QED BY <2>1, <2>2
<1>10. CASE restart
  BY <1>10 DEF restart
<1>11. CASE \E c \in Client : allocate(c) \/ write_batch(c)
  BY <1>3, <1>11 DEF allocate, write_batch
<1>12. CASE Sealing \/ seal_fails
  BY <1>3, <1>4, <1>7, <1>12 DEF Sealing, seal_scan, seal_table, seal_mark, gc_cdc,
     seal_fails
<1>13. CASE compact_table
  BY <1>3, <1>13 DEF compact_table
<1>14. CASE engine_for \/ register_tenant_fails \/ Applying \/ pragma_fails
  BY <1>3, <1>6, <1>9, <1>14 DEF engine_for, register_tenant_fails, pragma_fails, Applying,
     backfill_mark, apply_pragma, reapply_flags, persist_registry,
     backfill_scan, backfill_load
<1>15. CASE \E u \in Table : delete_schema(u) \/ insert_schema(u)
  BY <1>3, <1>15 DEF delete_schema, insert_schema
<1>16. CASE read_snapshot \/ Reading \/ UNCHANGED vars
  BY <1>3, <1>16 DEF read_snapshot, Reading, read_watermark, read_tail, vars
<1> QED BY <1>5, <1>8, <1>10, <1>11, <1>12, <1>13, <1>14, <1>15, <1>16 DEF Next

\* The greater of two counters, each of which only grows.
LEMMA GreaterOfTwo ==
    ASSUME NEW a \in Int, NEW b \in Int, NEW c \in Int, NEW d \in Int, a <= c, b <= d
    PROVE  Max({a, b}) <= Max({c, d})
<1>1. ASSUME NEW x \in Int, NEW y \in Int
      PROVE  Max({x, y}) \in {x, y} /\ x <= Max({x, y}) /\ y <= Max({x, y})
  <2>1. IsFiniteSet({x, y}) /\ {x, y} \subseteq Int /\ {x, y} # {}
    <3>1. IsFiniteSet({x}) /\ {x, y} = {x} \cup {y}
      BY FS_Singleton
    <3>2. IsFiniteSet({x} \cup {y})
      BY <3>1, FS_AddElement
    <3> QED BY <3>1, <3>2
  <2> QED BY <2>1, MaxIsGreatest
<1>2. PICK m, n : m = Max({a, b}) /\ n = Max({c, d})
  OBVIOUS
<1>3. (m = a \/ m = b) /\ c <= n /\ d <= n /\ n \in Int
  BY <1>1, <1>2
<1>4. m <= n
  BY <1>3
<1> QED BY <1>2, <1>4

\* The watermark a write is answered with only grows.
LEMMA AnsweredAdvances ==
    ASSUME ReadsInv, [Next]_vars, ~restarted'
    PROVE  write_watermark' >= write_watermark
<1>1. ShapeInv /\ cdc_seq \in {-1} \cup Nat /\ commit_seq \in Nat
  BY DEF ReadsInv, NothingLost, ShapeInv, CountersOK, Unseeded
<1>2. ASSUME cdc_seq' \in Int, commit_seq' \in Int, cdc_seq <= cdc_seq', commit_seq <= commit_seq'
      PROVE  write_watermark' >= write_watermark
  <2>1. PICK m, n : m = Max({commit_seq, cdc_seq}) /\ n = Max({commit_seq', cdc_seq'})
    OBVIOUS
  <2>2. m <= n
    BY <1>1, <1>2, <2>1, GreaterOfTwo
  <2>3. write_watermark = m /\ write_watermark' = n
    BY <2>1 DEF write_watermark
  <2> QED BY <2>2, <2>3
<1>3. CASE UNCHANGED sequences
  BY <1>1, <1>2, <1>3 DEF sequences
<1>4. CASE \E c \in Client : allocate(c)
  <2>1. /\ commit_seq' = commit_seq
        /\ cdc_seq' = cdc_seq \/ cdc_seq' = next_cdc_seq
    BY <1>4 DEF allocate
  <2>2. next_cdc_seq \in Nat /\ cdc_seq <= next_cdc_seq
    <3>1. max_persisted_cdc_seq \in Nat
      <4>1. LogOK(log)
        BY <1>1 DEF ShapeInv, StoreOK
      <4>2. CASE DOMAIN log = {}
        BY <4>2 DEF max_persisted_cdc_seq, Max0
      <4>3. CASE DOMAIN log # {}
        <5>1. Max(DOMAIN log) \in DOMAIN log
          BY <4>1, <4>3, MaxIsGreatest DEF LogOK
        <5> QED BY <4>1, <4>3, <5>1 DEF max_persisted_cdc_seq, Max0, LogOK
      <4> QED BY <4>2, <4>3
    <3> QED BY <1>1, <3>1 DEF next_cdc_seq, Unseeded
  <2> QED BY <1>1, <1>2, <2>1, <2>2
<1>5. CASE \E c \in Client : write_batch(c)
  BY <1>1, <1>2, <1>5 DEF write_batch
<1>6. CASE restart
  BY <1>6 DEF restart
<1>7. CASE Sealing \/ seal_fails
  BY <1>3, <1>7 DEF Sealing, seal_scan, seal_table, seal_put_metadata, seal_put_hint, seal_mark,
     gc_cdc, seal_fails
<1>8. CASE compact_table \/ compact_put_metadata \/ compact_put_hint
  BY <1>3, <1>8 DEF compact_table, compact_put_metadata, compact_put_hint
<1>9. CASE engine_for \/ register_tenant_fails \/ Applying \/ pragma_fails
  BY <1>3, <1>9 DEF engine_for, register_tenant_fails, pragma_fails, Applying, backfill_mark, apply_pragma, reapply_flags, persist_registry,
     backfill_scan, backfill_load, backfill_put_metadata, backfill_put_hint
<1>10. CASE \E u \in Table : delete_schema(u) \/ insert_schema(u)
  BY <1>3, <1>10 DEF delete_schema, insert_schema
<1>11. CASE read_snapshot \/ Reading \/ UNCHANGED vars
  BY <1>3, <1>11 DEF read_snapshot, Reading, read_watermark, read_tail, vars
<1> QED BY <1>4, <1>5, <1>6, <1>7, <1>8, <1>9, <1>10, <1>11 DEF Next

\* Neither a reader of the mirror nor a client that waits for the watermark of its
\* write is ever taken back: on the orderly schedules, without a restart and outside a
\* backfill's publication, no step lowers the watermark of a table's snapshot or the
\* one in a response.
THEOREM WatermarksNeverRecede == AsKept /\ Spec /\ []Orderly => WatermarkGrows
<1>1. AsKept /\ Orderly /\ Init => ReadsInv
  BY ReadsInit
<1>2. ReadsInv /\ Orderly' /\ [Next]_vars => ReadsInv'
  BY ReadsNext
<1>3. ReadsInv /\ [Next]_vars =>
        [\/ ~AsDocumented /\ (restarted' \/ pragma.at = "hint")
         \/ /\ \A t \in Table : Current(t)'.watermark >= Current(t).watermark
            /\ write_watermark' >= write_watermark]_vars
  <2> SUFFICES ASSUME ReadsInv, [Next]_vars, ~restarted', pragma.at # "hint"
               PROVE  /\ \A t \in Table : Current(t)'.watermark >= Current(t).watermark
                      /\ write_watermark' >= write_watermark
    BY DEF ReadsInv, NothingLost, AsKept
  <2> QED BY PublishedAdvances, AnsweredAdvances
<1> QED BY <1>1, <1>2, <1>3, PTL DEF Spec, WatermarkGrows

=============================================================================
