-------------------------- MODULE FtsEngineProofs --------------------------
(***************************************************************************)
(* Proofs about FtsEngine, for every set of keys, words, writers and       *)
(* searchers, every compaction policy, and any number of failed puts and   *)
(* ends of the process.                                                    *)
(*                                                                         *)
(* DurableInv: a manifest outlives the job that wrote it, so the invariant *)
(* speaks of the manifest that is stored and of the one a job is about to  *)
(* store.  Collection is harmless because the id of a compacted split is   *)
(* new: it holds the generation of its split, which is above every         *)
(* generation the old manifest names.                                      *)
(*                                                                         *)
(* TierInv: the durable tier shows the versions sealed last, and what is   *)
(* staged by an update or a compaction will show once each of its puts is  *)
(* done.  IndexInv: the live segment over the sealed versions agrees with  *)
(* the table, key by key.  SearchInv: what a search under way knows of the *)
(* keys nothing touched since it began.                                    *)
(***************************************************************************)
EXTENDS FtsEngine, FiniteSetTheorems, WellFoundedInduction, TLAPS

-----------------------------------------------------------------------------
(* Greatest elements.                                                      *)

\* A set of naturals has a least element.
LEMMA LeastNatural ==
    ASSUME NEW T, T \subseteq Nat, T # {}
    PROVE  \E x \in T : \A y \in T : x <= y
<1> DEFINE R == OpToRel(<, Nat)
<1>1. IsWellFoundedOn(R, Nat)
  BY NatLessThanWellFounded
<1>2. \A x, y \in Nat : x < y => <<x, y>> \in R
  BY DEF OpToRel
<1> HIDE DEF R
<1>3. PICK x \in T : \A y \in T : ~(<<y, x>> \in R)
  BY <1>1, WFMin
<1>4. ASSUME NEW y \in T PROVE x <= y
  <2>1. x \in Nat /\ y \in Nat
    OBVIOUS
  <2>2. ~(y < x)
    BY <1>2, <1>3, <2>1, Zenon
  <2> QED BY <2>1, <2>2
<1> QED BY <1>4

\* A finite set of integers has a greatest element, and Max is that element: there
\* is no smallest set without one.
HasGreatest(S) == \E x \in S : \A y \in S : y <= x

LEMMA FiniteGreatest ==
    ASSUME NEW S, IsFiniteSet(S), S \subseteq Int, S # {}
    PROVE  HasGreatest(S)
<1> DEFINE Bad(s) == s # {} /\ ~HasGreatest(s)
           T == {Cardinality(s) : s \in {u \in SUBSET S : Bad(u)}}
<1>1. SUFFICES ASSUME Bad(S) PROVE FALSE
  OBVIOUS
<1>2. \A u \in SUBSET S : IsFiniteSet(u) /\ Cardinality(u) \in Nat
  BY FS_Subset, FS_CardinalityType
<1>3. T \subseteq Nat /\ T # {}
  BY <1>1, <1>2
<1>4. \A u \in SUBSET S : Bad(u) => Cardinality(u) \in T
  OBVIOUS
<1>5. \A n \in T : \E u \in SUBSET S : Bad(u) /\ n = Cardinality(u)
  OBVIOUS
<1> HIDE DEF T
<1>6. PICK n \in T : \A m \in T : n <= m
  BY <1>3, LeastNatural
<1>7. PICK u \in SUBSET S : Bad(u) /\ n = Cardinality(u)
  BY <1>5
<1>8. PICK x \in u : TRUE
  BY <1>7
<1>9. n \in Nat /\ Cardinality(u \ {x}) = n - 1
  BY <1>2, <1>7, FS_RemoveElement
<1>10. ~Bad(u \ {x})
  <2>1. ~(n <= Cardinality(u \ {x}))
    BY <1>9
  <2> QED BY <1>4, <1>6, <2>1
<1>11. CASE u \ {x} = {}
  <2>1. \A y \in u : y = x
    BY <1>11
  <2>2. x <= x
    OBVIOUS
  <2> QED BY <1>7, <2>1, <2>2 DEF HasGreatest
<1>12. CASE u \ {x} # {}
  <2>1. PICK z \in u \ {x} : \A y \in u \ {x} : y <= z
    BY <1>10, <1>12 DEF HasGreatest
  <2>2. x \in Int /\ z \in Int /\ u \subseteq Int
    OBVIOUS
  <2>3. CASE x <= z
    <3>1. \A y \in u : y <= z
      BY <2>1, <2>3
    <3> QED BY <1>7, <3>1 DEF HasGreatest
  <2>4. CASE ~(x <= z)
    <3>1. \A y \in u : y <= x
      BY <2>1, <2>2, <2>4
    <3> QED BY <1>7, <3>1 DEF HasGreatest
  <2> QED BY <2>3, <2>4
<1> QED BY <1>11, <1>12

LEMMA MaxIsGreatest ==
    ASSUME NEW S, IsFiniteSet(S), S \subseteq Int, S # {}
    PROVE  Max(S) \in S /\ \A y \in S : y <= Max(S)
<1>1. PICK x \in S : \A y \in S : y <= x
  BY FiniteGreatest DEF HasGreatest
<1>2. \A y \in S : x >= y
  BY <1>1
<1>3. Max(S) \in S /\ \A y \in S : Max(S) >= y
  BY <1>2, Zenon DEF Max
<1> QED BY <1>3

-----------------------------------------------------------------------------
(* Manifests.                                                              *)

Ids(m) == {m[i].id : i \in DOMAIN m}

\* The id of a compacted split holds its generation.
MetaOK(x) == x.gen \in Nat /\ x.id[2] \in Int /\ (x.id[1] = "compacted" => x.id[2] = x.gen)

IsManifest(m) == \E S : m \in Seq(S) /\ \A x \in S : MetaOK(x)

LEMMA ManifestOf ==
    ASSUME NEW S, NEW m \in Seq(S), \A x \in S : MetaOK(x)
    PROVE  IsManifest(m)
BY DEF IsManifest

LEMMA EmptyManifest == IsManifest(<<>>) /\ Ids(<<>>) = {}
<1>1. PICK S, m : S = {} /\ m = <<>>
  OBVIOUS
<1>2. DOMAIN <<>> = {}
  OBVIOUS
<1>3. IsManifest(m)
  <2>1. m \in Seq(S) /\ \A x \in S : MetaOK(x)
    BY <1>1
  <2> QED BY <2>1, ManifestOf
<1>4. Ids(<<>>) = {}
  BY <1>2, Zenon DEF Ids
<1> QED BY <1>1, <1>3, <1>4

LEMMA ManifestElements ==
    ASSUME NEW m, IsManifest(m)
    PROVE  /\ Len(m) \in Nat /\ DOMAIN m = 1..Len(m)
           /\ \A i \in DOMAIN m : MetaOK(m[i])
<1>1. PICK S : m \in Seq(S) /\ \A x \in S : MetaOK(x)
  BY DEF IsManifest
<1>2. Len(m) \in Nat /\ DOMAIN m = 1..Len(m) /\ \A i \in DOMAIN m : m[i] \in S
  BY <1>1
<1> QED BY <1>1, <1>2

LEMMA AppendManifest ==
    ASSUME NEW m, IsManifest(m), NEW x, MetaOK(x)
    PROVE  IsManifest(Append(m, x)) /\ Ids(Append(m, x)) = Ids(m) \cup {x.id}
<1>1. PICK S : m \in Seq(S) /\ \A y \in S : MetaOK(y)
  BY DEF IsManifest
<1>2. m \in Seq(S \cup {x}) /\ \A y \in S \cup {x} : MetaOK(y)
  BY <1>1
<1>3. Append(m, x) \in Seq(S \cup {x})
  BY <1>2
<1>4. IsManifest(Append(m, x))
  BY <1>2, <1>3 DEF IsManifest
<1>5. /\ DOMAIN m = 1..Len(m) /\ Len(m) \in Nat
      /\ DOMAIN Append(m, x) = 1 .. Len(m) + 1
      /\ \A i \in 1..Len(m) : Append(m, x)[i] = m[i]
      /\ Append(m, x)[Len(m) + 1] = x
  BY <1>2
<1>6. Ids(Append(m, x)) \subseteq Ids(m) \cup {x.id}
  BY <1>5 DEF Ids
<1>7. \A i \in DOMAIN m : i \in DOMAIN Append(m, x) /\ Append(m, x)[i].id = m[i].id
  BY <1>5
<1>8. Len(m) + 1 \in DOMAIN Append(m, x)
  BY <1>5
<1> QED BY <1>4, <1>5, <1>6, <1>7, <1>8 DEF Ids

\* A compaction's generation, and so its id, is one the manifest does not name.
LEMMA GenerationIsGreatest ==
    ASSUME NEW m, IsManifest(m)
    PROVE  /\ max_generation(m) \in Nat
           /\ \A i \in DOMAIN m : m[i].gen <= max_generation(m)
<1> DEFINE G == {0} \cup {m[i].gen : i \in DOMAIN m}
<1>1. Len(m) \in Nat /\ DOMAIN m = 1..Len(m) /\ \A i \in DOMAIN m : m[i].gen \in Nat
  BY ManifestElements DEF MetaOK
<1>2. IsFiniteSet(DOMAIN m)
  BY <1>1, FS_Interval
<1>3. IsFiniteSet({m[i].gen : i \in DOMAIN m})
  <2> DEFINE f == [i \in DOMAIN m |-> m[i].gen]
             H == {m[i].gen : i \in DOMAIN m}
  <2>1. f \in Surjection(DOMAIN m, H)
    BY DEF Surjection
  <2> HIDE DEF f, H
  <2>2. IsFiniteSet(H)
    BY <1>2, <2>1, FS_Surjection
  <2> QED BY <2>2 DEF H
<1>4. IsFiniteSet(G)
  BY <1>3, FS_EmptySet, FS_AddElement, FS_Union, FS_Singleton
<1>5. G \subseteq Nat /\ G \subseteq Int /\ G # {}
  BY <1>1
<1>6. \A i \in DOMAIN m : m[i].gen \in G
  OBVIOUS
<1> HIDE DEF G
<1>7. Max(G) \in G /\ \A y \in G : y <= Max(G)
  BY <1>4, <1>5, MaxIsGreatest
<1>8. max_generation(m) = Max(G)
  BY DEF max_generation, G
<1> QED BY <1>5, <1>6, <1>7, <1>8

LEMMA GenerationTaken ==
    ASSUME NEW m, IsManifest(m)
    PROVE  max_generation(m) \in {0} \cup {m[i].gen : i \in DOMAIN m}
<1> DEFINE H == {m[i].gen : i \in DOMAIN m}
           G == {0} \cup H
<1>1. Len(m) \in Nat /\ DOMAIN m = 1..Len(m) /\ \A i \in DOMAIN m : m[i].gen \in Nat
  BY ManifestElements DEF MetaOK
<1>2. IsFiniteSet(H)
  <2> DEFINE f == [i \in DOMAIN m |-> m[i].gen]
  <2>1. f \in Surjection(DOMAIN m, H)
    BY DEF Surjection
  <2>2. IsFiniteSet(DOMAIN m)
    BY <1>1, FS_Interval
  <2> HIDE DEF f, H
  <2> QED BY <2>1, <2>2, FS_Surjection
<1>3. IsFiniteSet(G) /\ G \subseteq Int /\ G # {}
  <2>1. G \subseteq Int /\ G # {}
    BY <1>1
  <2>2. IsFiniteSet(G)
    BY <1>2, FS_Singleton, FS_Union
  <2> QED BY <2>1, <2>2
<1>4. max_generation(m) = Max(G)
  BY DEF max_generation
<1> HIDE DEF G
<1>5. Max(G) \in G
  BY <1>3, MaxIsGreatest
<1> QED BY <1>4, <1>5 DEF G

LEMMA MintedIdIsNew ==
    ASSUME NEW m, IsManifest(m)
    PROVE  mint_split_id(m)[1] = "split" /\ mint_split_id(m)[2] \in Nat /\ mint_split_id(m) \notin Ids(m)
<1> DEFINE I == {j \in DOMAIN m : m[j].id[1] = "split"}
           H == {m[i].id[2] : i \in I}
           G == {-1} \cup H
<1>1. Len(m) \in Nat /\ DOMAIN m = 1..Len(m) /\ \A i \in DOMAIN m : m[i].id[2] \in Int
  BY ManifestElements DEF MetaOK
<1>2. IsFiniteSet(I)
  <2>1. IsFiniteSet(DOMAIN m) /\ I \in SUBSET DOMAIN m
    BY <1>1, FS_Interval
  <2> QED BY <2>1, FS_Subset
<1>3. IsFiniteSet(H)
  <2> DEFINE f == [i \in I |-> m[i].id[2]]
  <2>1. f \in Surjection(I, H)
    BY DEF Surjection
  <2> HIDE DEF f, H, I
  <2> QED BY <1>2, <2>1, FS_Surjection
<1>4. IsFiniteSet(G)
  BY <1>3, FS_Union, FS_Singleton
<1>5. G \subseteq Int /\ G # {} /\ -1 \in G
  BY <1>1
<1>6. \A i \in DOMAIN m : m[i].id[1] = "split" => m[i].id[2] \in G
  OBVIOUS
<1>7. mint_split_id(m) = <<"split", Max(G) + 1>>
  BY DEF mint_split_id
<1> HIDE DEF G
<1>8. Max(G) \in G /\ \A y \in G : y <= Max(G)
  BY <1>4, <1>5, MaxIsGreatest
<1>9. PICK n : n = Max(G)
  OBVIOUS
<1>10. n \in Int /\ -1 <= n /\ \A y \in G : y <= n
  BY <1>5, <1>8, <1>9
<1>11. ASSUME NEW i \in DOMAIN m, m[i].id = <<"split", n + 1>> PROVE FALSE
  <2>1. m[i].id[1] = "split" /\ m[i].id[2] = n + 1
    BY <1>11
  <2>2. n + 1 <= n
    BY <1>6, <1>10, <2>1
  <2> QED BY <1>10, <2>2
<1>12. <<"split", n + 1>>[1] = "split" /\ <<"split", n + 1>>[2] \in Nat
  BY <1>10
<1> QED BY <1>7, <1>9, <1>11, <1>12 DEF Ids

LEMMA CompactedIdIsNew ==
    ASSUME NEW m, IsManifest(m)
    PROVE  <<"compacted", max_generation(m) + 1>> \notin Ids(m)
<1>1. SUFFICES ASSUME NEW i \in DOMAIN m, m[i].id = <<"compacted", max_generation(m) + 1>>
               PROVE  FALSE
  BY DEF Ids
<1>2. m[i].id[1] = "compacted" /\ m[i].id[2] = max_generation(m) + 1
  BY <1>1
<1>3. m[i].gen \in Nat /\ m[i].gen = max_generation(m) + 1
  BY <1>2, ManifestElements DEF MetaOK
<1>4. max_generation(m) \in Nat /\ m[i].gen <= max_generation(m)
  BY GenerationIsGreatest
<1> QED BY <1>3, <1>4

-----------------------------------------------------------------------------
(* The invariant.                                                          *)

\* The fields of the scheduler's record.
JobShape ==
    job = [pc |-> job.pc, own |-> job.own, docs |-> job.docs, tombs |-> job.tombs, manifest |-> job.manifest,
           deletes |-> job.deletes, superseded |-> job.superseded]

Backed(m) == IsManifest(m) /\ Ids(m) \subseteq DOMAIN splits

\* What a job has put, and will name in the manifest it puts next.
JobBacked ==
    job.pc \in {"manifest", "compact_manifest"} => Backed(job.manifest)

\* What a compaction will collect is not named, by the manifest it is about to put
\* or by the one it has put.
NothingNamedCollected ==
    /\ job.pc = "compact_manifest" => Ids(job.manifest) \cap job.superseded = {}
    /\ job.pc \in {"compact_tombstones", "gc"} => Ids(manifest) \cap job.superseded = {}

DurableInv ==
    /\ JobShape
    /\ Backed(manifest)
    /\ JobBacked
    /\ NothingNamedCollected

LEMMA DurableInit == Init => DurableInv
<1> SUFFICES ASSUME Init PROVE DurableInv
  OBVIOUS
<1>1. manifest = <<>> /\ job = IdleJob
  BY DEF Init, EmptyTable, Quiet
<1>2. JobShape /\ JobBacked /\ NothingNamedCollected
  BY <1>1 DEF IdleJob, JobShape, JobBacked, NothingNamedCollected
<1>3. Backed(manifest)
  BY <1>1, EmptyManifest DEF Backed
<1> QED BY <1>2, <1>3 DEF DurableInv

\* Splits are only added: every manifest stays backed.
LEMMA SplitAdded ==
    ASSUME NEW id, NEW docs, splits' = With(splits, id, docs)
    PROVE  DOMAIN splits' = DOMAIN splits \cup {id}
BY DEF With

LEMMA SplitRemoved ==
    ASSUME NEW id, splits' = Without(splits, id)
    PROVE  DOMAIN splits' = DOMAIN splits \ {id}
BY DEF Without, Restrict

\* A step that leaves manifest and splits alone and has nothing staged after it.
LEMMA DurableKept ==
    ASSUME DurableInv, manifest' = manifest, splits' = splits, JobShape',
           \/ job' = job
           \/ job'.pc \notin {"manifest", "compact_manifest", "compact_tombstones", "gc"}
    PROVE  DurableInv'
BY DEF DurableInv, Backed, JobBacked, NothingNamedCollected, Ids, IsManifest, MetaOK

-----------------------------------------------------------------------------
(* The steps.                                                              *)

LEMMA CompactParts ==
    ASSUME NEW m, NEW d, NEW s
    PROVE  /\ compact(m, d, s).id = <<"compacted", max_generation(m) + 1>>
           /\ \E n : compact(m, d, s).manifest
                        = <<[id |-> <<"compacted", max_generation(m) + 1>>,
                             gen |-> max_generation(m) + 1, num_docs |-> n]>>
           /\ compact(m, d, s).superseded = Ids(m)
BY Zenon DEF compact, split_meta, Ids

\* The manifest of a compaction: one split, under an id the old one does not name.
LEMMA CompactedManifest ==
    ASSUME NEW m, IsManifest(m), NEW d, NEW s
    PROVE  /\ IsManifest(compact(m, d, s).manifest)
           /\ Ids(compact(m, d, s).manifest) = {compact(m, d, s).id}
           /\ compact(m, d, s).id \notin compact(m, d, s).superseded
<1>1. PICK n, gen, x, c :
         /\ gen = max_generation(m) + 1
         /\ x = [id |-> <<"compacted", gen>>, gen |-> gen, num_docs |-> n]
         /\ c = <<x>> /\ compact(m, d, s).manifest = c
  BY CompactParts
<1>2. gen \in Nat
  BY <1>1, GenerationIsGreatest
<1>3. MetaOK(x)
  BY <1>1, <1>2 DEF MetaOK
<1>4. c \in Seq({x}) /\ \A y \in {x} : MetaOK(y)
  BY <1>1, <1>3
<1>5. IsManifest(c)
  BY <1>4, ManifestOf
<1>6. DOMAIN c = {1} /\ c[1].id = <<"compacted", gen>>
  BY <1>1
<1>7. Ids(c) = {<<"compacted", gen>>}
  BY <1>6 DEF Ids
<1> QED BY <1>1, <1>5, <1>7, CompactParts, CompactedIdIsNew

LEMMA UpdatePutStep ==
    ASSUME DurableInv, UpdatePut
    PROVE  DurableInv'
<1> DEFINE docs == [i \in 1..Cardinality(DOMAIN job.docs) |->
                      LET pk == SetToSeq(DOMAIN job.docs)[i]
                      IN  [pk |-> pk, text |-> job.docs[pk]]]
<1>0. PICK m \in Loads(manifest), d \in Loads(deletes) :
        /\ splits' = With(splits, mint_split_id(m.value), docs)
        /\ job' = [job EXCEPT !.pc = "manifest",
                      !.manifest = Append(m.value, split_meta(mint_split_id(m.value),
                                                              max_generation(m.value) + 1, docs)),
                      !.deletes = delete_docs_at(d.value, DOMAIN job.docs, max_generation(m.value))]
  BY Zenon DEF UpdatePut
<1> HIDE DEF docs
<1>1. PICK id : id = mint_split_id(m.value)
  OBVIOUS
<1>2. m.value = manifest \/ m.value = <<>>
  BY DEF Loads
<1>3. IsManifest(m.value) /\ Ids(m.value) \subseteq Ids(manifest)
  BY <1>2, EmptyManifest DEF DurableInv, Backed
<1>4. PICK x : x = split_meta(id, max_generation(m.value) + 1, docs)
  OBVIOUS
<1>5. MetaOK(x) /\ x.id = id
  <2>1. max_generation(m.value) + 1 \in Nat
    BY <1>3, GenerationIsGreatest
  <2>2. id[1] = "split" /\ id[2] \in Int
    BY <1>1, <1>3, MintedIdIsNew
  <2> QED BY <1>4, <2>1, <2>2 DEF MetaOK, split_meta
<1>6. DOMAIN splits' = DOMAIN splits \cup {id}
  BY <1>0, <1>1, SplitAdded
<1>7. PICK a : a = Append(m.value, x)
  OBVIOUS
<1>8. IsManifest(a) /\ Ids(a) \subseteq DOMAIN splits'
  BY <1>3, <1>5, <1>6, <1>7, AppendManifest DEF DurableInv, Backed
<1>9. job'.pc = "manifest" /\ job'.manifest = a /\ JobShape'
  BY <1>0, <1>1, <1>4, <1>7 DEF DurableInv, JobShape
<1>10. manifest' = manifest
  BY DEF UpdatePut
<1>11. Backed(manifest)'
  BY <1>6, <1>10 DEF DurableInv, Backed
<1>12. JobBacked'
  BY <1>8, <1>9 DEF JobBacked, Backed
<1>13. NothingNamedCollected'
  BY <1>9 DEF NothingNamedCollected
<1> QED BY <1>9, <1>11, <1>12, <1>13 DEF DurableInv

LEMMA UpdateManifestStep ==
    ASSUME DurableInv, UpdateManifest
    PROVE  DurableInv'
<1>1. /\ manifest' = job.manifest /\ splits' = splits
      /\ job' = [job EXCEPT !.pc = "tombstones"] /\ Backed(job.manifest)
  BY DEF DurableInv, UpdateManifest, JobBacked
<1>2. JobShape' /\ job'.pc = "tombstones"
  BY <1>1 DEF DurableInv, JobShape
<1> QED BY <1>1, <1>2 DEF DurableInv, Backed, JobBacked, NothingNamedCollected

LEMMA CompactPutStep ==
    ASSUME DurableInv, CompactPut
    PROVE  DurableInv'
<1>0. PICK m \in Loads(manifest), d \in Loads(deletes) :
        LET c == compact(m.value, d.value, splits) IN
        /\ Compacts(m.value, d.value)
        /\ splits' = With(splits, c.id, c.split)
        /\ job' = [IdleJob EXCEPT !.pc = "compact_manifest", !.manifest = c.manifest,
                      !.deletes = c.deletes, !.superseded = c.superseded]
  BY Zenon DEF CompactPut
<1>1. PICK c : c = compact(m.value, d.value, splits)
  OBVIOUS
<1>9. m.value = manifest
  BY <1>0 DEF Loads, Compacts
<1>2. /\ splits' = With(splits, c.id, c.split) /\ manifest' = manifest
      /\ job' = [IdleJob EXCEPT !.pc = "compact_manifest", !.manifest = c.manifest,
                    !.deletes = c.deletes, !.superseded = c.superseded]
  BY <1>0, <1>1 DEF CompactPut
<1>3. IsManifest(c.manifest) /\ Ids(c.manifest) = {c.id} /\ c.id \notin c.superseded
  BY <1>1, <1>9, CompactedManifest DEF DurableInv, Backed
<1>4. DOMAIN splits' = DOMAIN splits \cup {c.id}
  BY <1>2, SplitAdded
<1>5. /\ JobShape' /\ job'.pc = "compact_manifest" /\ job'.manifest = c.manifest
      /\ job'.superseded = c.superseded
  BY <1>2 DEF JobShape, IdleJob
<1>6. Backed(manifest)'
  BY <1>2, <1>4 DEF DurableInv, Backed
<1>7. JobBacked'
  BY <1>3, <1>4, <1>5 DEF JobBacked, Backed
<1>8. NothingNamedCollected'
  BY <1>3, <1>5 DEF NothingNamedCollected
<1> QED BY <1>5, <1>6, <1>7, <1>8 DEF DurableInv

LEMMA CompactPersistStep ==
    ASSUME DurableInv, CompactPersist
    PROVE  DurableInv'
<1>1. splits' = splits
  BY DEF CompactPersist
<1>2. CASE job.pc = "compact_manifest"
  <2>1. /\ manifest' = job.manifest /\ job' = [job EXCEPT !.pc = "compact_tombstones"]
        /\ Backed(job.manifest) /\ Ids(job.manifest) \cap job.superseded = {}
    BY <1>2 DEF DurableInv, CompactPersist, JobBacked, NothingNamedCollected
  <2>2. JobShape' /\ job'.pc = "compact_tombstones" /\ job'.superseded = job.superseded
    BY <2>1 DEF DurableInv, JobShape
  <2> QED BY <1>1, <2>1, <2>2 DEF DurableInv, Backed, JobBacked, NothingNamedCollected
<1>3. CASE job.pc = "compact_tombstones"
  <2>1. manifest' = manifest /\ job' = [job EXCEPT !.pc = "gc"]
    BY <1>3 DEF CompactPersist
  <2>2. JobShape' /\ job'.pc = "gc" /\ job'.superseded = job.superseded
    BY <2>1 DEF DurableInv, JobShape
  <2>3. Ids(manifest) \cap job.superseded = {}
    BY <1>3 DEF DurableInv, NothingNamedCollected
  <2> QED BY <1>1, <2>1, <2>2, <2>3 DEF DurableInv, Backed, JobBacked, NothingNamedCollected
<1> QED BY <1>2, <1>3 DEF CompactPersist

LEMMA CollectStep ==
    ASSUME DurableInv, Collect
    PROVE  DurableInv'
<1>1. PICK id \in job.superseded :
        /\ splits' = Without(splits, id)
        /\ job' = IF job.superseded = {id} THEN IdleJob ELSE [job EXCEPT !.superseded = @ \ {id}]
  BY DEF Collect
<1>2. manifest' = manifest /\ job.pc = "gc" /\ Ids(manifest) \cap job.superseded = {}
  BY DEF DurableInv, Collect, NothingNamedCollected
<1>3. DOMAIN splits' = DOMAIN splits \ {id}
  BY <1>1, SplitRemoved
<1>4. Backed(manifest)'
  BY <1>2, <1>3 DEF DurableInv, Backed
<1>5. CASE job' = IdleJob
  <2>1. JobShape' /\ job'.pc = "idle"
    BY <1>5 DEF IdleJob, JobShape
  <2> QED BY <1>4, <2>1 DEF DurableInv, JobBacked, NothingNamedCollected
<1>6. CASE job' = [job EXCEPT !.superseded = @ \ {id}]
  <2>1. JobShape' /\ job'.pc = "gc" /\ job'.superseded = job.superseded \ {id}
    BY <1>2, <1>6 DEF DurableInv, JobShape
  <2> QED BY <1>2, <1>4, <2>1 DEF DurableInv, JobBacked, NothingNamedCollected
<1> QED BY <1>1, <1>5, <1>6

\* The steps in which a seal empties the segment.
LEMMA EmptySteps ==
    ASSUME SealEmpty
    PROVE  \/ /\ job.pc = "reload" /\ job' = [job EXCEPT !.pc = "untomb"]
              /\ live' = IF job.own THEN [live EXCEPT !.visible = live.docs] ELSE live
           \/ /\ job.pc = "untomb" /\ job' = [job EXCEPT !.pc = "uncover"]
              /\ live' = IF job.own THEN [live EXCEPT !.tombs = {}] ELSE live
           \/ /\ job.pc = "uncover" /\ job' = [job EXCEPT !.pc = "open"]
              /\ live' = IF job.own THEN [live EXCEPT !.covered = {}] ELSE live
           \/ /\ job.pc = "open" /\ job' = [IdleJob EXCEPT !.pc = "compact"]
              /\ live' = IF job.own THEN [live EXCEPT !.dirty = FALSE, !.sealing = FALSE] ELSE live
<1>1. job.pc \in {"reload", "untomb", "uncover", "open"}
  BY DEF SealEmpty, AfterStep
<1>2. AfterStep["reload"] = "untomb" /\ AfterStep["untomb"] = "uncover" /\ AfterStep["uncover"] = "open"
  BY DEF AfterStep
<1>3. CASE job.pc = "reload"
  BY <1>2, <1>3 DEF SealEmpty, Emptied, commit_and_reload
<1>4. CASE job.pc = "untomb"
  BY <1>2, <1>4 DEF SealEmpty, Emptied
<1>5. CASE job.pc = "uncover"
  BY <1>2, <1>5 DEF SealEmpty, Emptied
<1>6. CASE job.pc = "open"
  BY <1>6 DEF SealEmpty, Emptied
<1> QED BY <1>1, <1>3, <1>4, <1>5, <1>6

\* The steps of the scheduler that leave manifest and splits alone.
LEMMA SchedulerStep ==
    ASSUME DurableInv,
           \/ SealStart \/ UpdateTombstones \/ SealDelete \/ SealClear \/ SealEmpty \/ SealFail
           \/ CompactSkip \/ CompactFail
    PROVE  DurableInv'
<1> DEFINE Plain == {"idle", "put", "delete", "finish", "reload", "untomb", "uncover", "open", "compact"}
<1>1. manifest' = manifest /\ splits' = splits
  BY DEF SealStart, UpdateTombstones, SealDelete, SealClear, SealEmpty, SealFail, CompactSkip, CompactFail,
         durableVars
<1>2. JobShape' /\ job'.pc \in Plain
  <2>1. CASE SealStart
    BY <2>1 DEF SealStart, IdleJob, JobShape
  <2>2. CASE UpdateTombstones
    BY <2>2 DEF UpdateTombstones, DurableInv, JobShape
  <2>3. CASE SealDelete
    BY <2>3 DEF SealDelete, DurableInv, JobShape
  <2>4. CASE SealClear
    BY <2>4 DEF SealClear, DurableInv, JobShape
  <2>8. CASE SealEmpty
    BY <2>8, EmptySteps DEF IdleJob, DurableInv, JobShape
  <2>5. CASE SealFail
    BY <2>5 DEF SealFail, IdleJob, JobShape
  <2>6. CASE CompactSkip
    BY <2>6 DEF CompactSkip, IdleJob, JobShape
  <2>7. CASE CompactFail
    BY <2>7 DEF CompactFail, IdleJob, JobShape
  <2> QED BY <2>1, <2>2, <2>3, <2>4, <2>5, <2>6, <2>7, <2>8
<1> QED BY <1>1, <1>2, DurableKept

\* Commits, definitions and searches do not touch the durable tier.
LEMMA OtherStep ==
    ASSUME DurableInv,
           \/ \E w \in Writer : Commit(w) \/ on_commit(w)
           \/ persist_registry
           \/ \E x \in Searcher : SearchStart(x) \/ union_hits(x)
           \/ UNCHANGED vars
    PROVE  DurableInv'
<1>1. manifest' = manifest /\ splits' = splits /\ job' = job
  <2>1. ASSUME NEW w \in Writer, Commit(w) \/ on_commit(w)
        PROVE  manifest' = manifest /\ splits' = splits /\ job' = job
    BY <2>1 DEF Commit, on_commit, on_commit_skip, on_commit_enter, on_commit_apply, durableVars
  <2>2. ASSUME NEW x \in Searcher, SearchStart(x) \/ union_hits(x)
        PROVE  manifest' = manifest /\ splits' = splits /\ job' = job
    BY <2>2 DEF SearchStart, union_hits, SearchCommit, SearchLive, SearchCovered, SearchManifest,
                SearchDeletes, SearchOpen, SearchEnd, durableVars
  <2>3. CASE persist_registry
    BY <2>3 DEF persist_registry, durableVars
  <2>4. CASE UNCHANGED vars
    BY <2>4 DEF vars
  <2> QED BY <2>1, <2>2, <2>3, <2>4
<1>2. JobShape'
  BY <1>1 DEF DurableInv, JobShape
<1> QED BY <1>1, <1>2, DurableKept

\* A definition marks the job as another segment's.
LEMMA Superseded ==
    ASSUME JobShape, install_def
    PROVE  /\ JobShape' /\ job'.pc = job.pc /\ job'.docs = job.docs /\ job'.tombs = job.tombs
           /\ job'.manifest = job.manifest /\ job'.deletes = job.deletes /\ job'.superseded = job.superseded
           /\ job'.own = FALSE
           /\ manifest' = manifest /\ deletes' = deletes /\ splits' = splits
BY DEF install_def, JobShape, durableVars

LEMMA DurableNext == DurableInv /\ [Next]_vars => DurableInv'
<1> SUFFICES ASSUME DurableInv, [Next]_vars PROVE DurableInv'
  OBVIOUS
<1>1. CASE Crash
  <2>1. manifest' = manifest /\ splits' = splits /\ job' = IdleJob
    BY <1>1 DEF Crash, durableVars
  <2>2. JobShape' /\ job'.pc = "idle"
    BY <2>1 DEF IdleJob, JobShape
  <2> QED BY <2>1, <2>2, DurableKept
<1>2. CASE seal \/ SealFail
  BY <1>2, SchedulerStep, UpdatePutStep, UpdateManifestStep DEF seal
<1>3. CASE maybe_compact \/ CompactFail
  BY <1>3, SchedulerStep, CompactPutStep, CompactPersistStep, CollectStep DEF maybe_compact
<1>4. CASE install_def
  <2>1. JobShape
    BY DEF DurableInv
  <2>2. DOMAIN splits' = DOMAIN splits
    BY <1>4, <2>1, Superseded
  <2> QED BY <1>4, <2>1, <2>2, Superseded DEF DurableInv, Backed, JobBacked, NothingNamedCollected
<1> QED BY <1>1, <1>2, <1>3, <1>4, OtherStep DEF Next

\* Whatever put, delete, failed read or restart an update or a compaction stopped
\* at, every split the manifest names is there (FtsIndex::update, maybe_compact,
\* gc_keys): the new split is put before the manifest that names it, and what is
\* collected is named by no manifest a job puts or has put.
THEOREM NamedSplitsExist == Spec => []ManifestNamesSplits
<1>1. DurableInv => ManifestNamesSplits
  BY DEF DurableInv, Backed, Ids, ManifestNamesSplits
<1> QED BY <1>1, DurableInit, DurableNext, PTL DEF Spec

-----------------------------------------------------------------------------
(* What the splits of a manifest show.                                     *)

\* A finite set is listed without leaving out an element.
LEMMA Listed ==
    ASSUME NEW S, IsFiniteSet(S)
    PROVE  /\ Cardinality(S) \in Nat
           /\ SetToSeq(S) \in [1..Cardinality(S) -> S]
           /\ \A x \in S : \E n \in 1..Cardinality(S) : SetToSeq(S)[n] = x
<1>1. PICK c : c = Cardinality(S)
  OBVIOUS
<1>2. c \in Nat /\ ExistsBijection(1..c, S)
  BY <1>1, FS_CardinalityType
<1>3. PICK g : g \in [1..c -> S] /\ IsInjective(g)
  BY <1>2 DEF ExistsBijection, Bijection, Injection
<1>4. PICK f : f = SetToSeq(S)
  OBVIOUS
<1>5. f \in [1..c -> S] /\ IsInjective(f)
  BY <1>1, <1>3, <1>4, Zenon DEF SetToSeq
<1>6. f \in Injection(1..c, S)
  BY <1>5 DEF Injection
<1>7. Cardinality(1..c) = c
  BY <1>2, FS_Interval
<1>8. f \in Surjection(1..c, S)
  BY <1>1, <1>6, <1>7, FS_Injection
<1>9. \A x \in S : \E n \in 1..c : f[n] = x
  BY <1>8 DEF Surjection
<1> QED BY <1>1, <1>2, <1>4, <1>5, <1>9

\* Split number i of the manifest m holds a copy of pk with the text t.
Copy(m, s, i, pk, t) == \E j \in DOMAIN s[m[i].id] : s[m[i].id][j] = [pk |-> pk, text |-> t]

Hit(m, d, s, pk, t) ==
    \E i \in DOMAIN m : Copy(m, s, i, pk, t) /\ ~ is_deleted_at(d, pk, m[i].gen)

LEMMA HitsAreDurable ==
    ASSUME NEW m, NEW d, NEW s, NEW pk \in Pk, NEW t
    PROVE  pk \in DurableHits(m, d, s, t) <=> Hit(m, d, s, pk, t)
BY DEF DurableHits, Hit, Copy

\* A split is a finite list of documents.
SplitOK(docs) == IsFiniteSet(DOMAIN docs) /\ \A j \in DOMAIN docs : docs[j] \in [pk : Pk, text : Text]
Sound(m, s) == \A i \in DOMAIN m : SplitOK(s[m[i].id])

\* No tombstone reaches past the newest generation.
TombsOK(d) == \A pk \in DOMAIN d : d[pk] \in Nat
TombsBelow(m, d) == TombsOK(d) /\ \A pk \in DOMAIN d : d[pk] <= max_generation(m)

SameAt(d, e, pk) == (pk \in DOMAIN d <=> pk \in DOMAIN e) /\ (pk \in DOMAIN d => d[pk] = e[pk])

\* What is shown of a key depends on its own tombstone and on the named splits.
LEMMA HitDepends ==
    ASSUME NEW m, NEW d, NEW e, NEW s, NEW u, NEW pk, NEW t,
           SameAt(d, e, pk), \A i \in DOMAIN m : s[m[i].id] = u[m[i].id]
    PROVE  Hit(m, d, s, pk, t) <=> Hit(m, e, u, pk, t)
<1>1. \A i \in DOMAIN m : Copy(m, s, i, pk, t) <=> Copy(m, u, i, pk, t)
  BY DEF Copy
<1>2. \A i \in DOMAIN m : is_deleted_at(d, pk, m[i].gen) <=> is_deleted_at(e, pk, m[i].gen)
  BY DEF is_deleted_at, SameAt
<1> QED BY <1>1, <1>2 DEF Hit

LEMMA PutSplit ==
    ASSUME NEW m, NEW s, NEW id, NEW docs, id \notin Ids(m), Ids(m) \subseteq DOMAIN s
    PROVE  /\ \A i \in DOMAIN m : With(s, id, docs)[m[i].id] = s[m[i].id]
           /\ With(s, id, docs)[id] = docs
BY DEF With, Ids

LEMMA DropSplit ==
    ASSUME NEW m, NEW s, NEW id, id \notin Ids(m), Ids(m) \subseteq DOMAIN s
    PROVE  \A i \in DOMAIN m : Without(s, id)[m[i].id] = s[m[i].id]
BY DEF Without, Restrict, Ids

LEMMA SoundDepends ==
    ASSUME NEW m, NEW s, NEW u, Sound(m, s), \A i \in DOMAIN m : s[m[i].id] = u[m[i].id]
    PROVE  Sound(m, u)
BY DEF Sound

\* Two texts of a key that one document shows are the same.
LEMMA OneText ==
    ASSUME NEW p, NEW q, NEW t, NEW u, [pk |-> p, text |-> t] = [pk |-> q, text |-> u]
    PROVE  p = q /\ t = u
<1>1. [pk |-> p, text |-> t].pk = p /\ [pk |-> p, text |-> t].text = t
  OBVIOUS
<1>2. [pk |-> q, text |-> u].pk = q /\ [pk |-> q, text |-> u].text = u
  OBVIOUS
<1> QED BY <1>1, <1>2

LEMMA TombstonesRaised ==
    ASSUME NEW d, TombsOK(d), NEW pks, NEW gen \in Nat
    PROVE  /\ TombsOK(delete_docs_at(d, pks, gen))
           /\ \A pk : pk \notin pks => SameAt(delete_docs_at(d, pks, gen), d, pk)
           /\ \A pk \in pks : /\ pk \in DOMAIN delete_docs_at(d, pks, gen)
                              /\ gen <= delete_docs_at(d, pks, gen)[pk]
           /\ \A g \in Nat : gen <= g /\ (\A pk \in DOMAIN d : d[pk] <= g)
                 => \A pk \in DOMAIN delete_docs_at(d, pks, gen) : delete_docs_at(d, pks, gen)[pk] <= g
<1>1. PICK e : e = delete_docs_at(d, pks, gen)
  OBVIOUS
<1>2. /\ DOMAIN e = DOMAIN d \cup pks
      /\ \A pk \in DOMAIN d \cup pks :
            e[pk] = IF pk \notin pks THEN d[pk] ELSE IF pk \notin DOMAIN d \/ d[pk] < gen THEN gen ELSE d[pk]
  BY <1>1 DEF delete_docs_at
<1>3. \A pk \in DOMAIN d : d[pk] \in Nat
  BY DEF TombsOK
<1>4. \A pk \in pks : gen <= e[pk] /\ e[pk] \in Nat
  BY <1>2, <1>3
<1>5. TombsOK(e)
  BY <1>2, <1>3, <1>4 DEF TombsOK
<1>6. \A pk : pk \notin pks => SameAt(e, d, pk)
  BY <1>2 DEF SameAt
<1>7. ASSUME NEW g \in Nat, gen <= g, \A pk \in DOMAIN d : d[pk] <= g, NEW pk \in DOMAIN e
      PROVE  e[pk] <= g
  BY <1>2, <1>7
<1> QED BY <1>1, <1>2, <1>4, <1>5, <1>6, <1>7

LEMMA TombstonesAtTop ==
    ASSUME NEW d, NEW pks, NEW gen \in Nat, TombsOK(d), \A pk \in DOMAIN d : d[pk] <= gen, NEW pk \in pks
    PROVE  delete_docs_at(d, pks, gen)[pk] = gen
BY DEF delete_docs_at, TombsOK

-----------------------------------------------------------------------------
(* A seal's update: what the new split and the raised tombstones show.     *)

Holds(docs, pk, t) == \E j \in DOMAIN docs : docs[j] = [pk |-> pk, text |-> t]

\* The documents of a segment, by key.
DocsOK(f) == IsFiniteSet(DOMAIN f) /\ DOMAIN f \subseteq Pk /\ \A pk \in DOMAIN f : f[pk] \in Text

SplitOf(f) ==
    [i \in 1..Cardinality(DOMAIN f) |->
        LET pk == SetToSeq(DOMAIN f)[i] IN [pk |-> pk, text |-> f[pk]]]

LEMMA SplitHolds ==
    ASSUME NEW f, DocsOK(f)
    PROVE  /\ SplitOK(SplitOf(f))
           /\ \A pk, t : Holds(SplitOf(f), pk, t) <=> pk \in DOMAIN f /\ f[pk] = t
<1>1. PICK c, q, S : c = Cardinality(S) /\ q = SetToSeq(S) /\ S = DOMAIN f
  OBVIOUS
<1>2. c \in Nat /\ q \in [1..c -> S] /\ \A x \in S : \E n \in 1..c : q[n] = x
  BY <1>1, Listed DEF DocsOK
<1>3. PICK docs : docs = SplitOf(f)
  OBVIOUS
<1>4. DOMAIN docs = 1..c /\ \A i \in 1..c : docs[i] = [pk |-> q[i], text |-> f[q[i]]]
  BY <1>1, <1>3 DEF SplitOf
<1>5. \A i \in 1..c : q[i] \in Pk /\ f[q[i]] \in Text
  BY <1>1, <1>2 DEF DocsOK
<1>6. SplitOK(docs)
  <2>1. IsFiniteSet(1..c)
    BY <1>2, FS_Interval
  <2> QED BY <1>4, <1>5, <2>1 DEF SplitOK
<1>7. ASSUME NEW pk, NEW t, Holds(docs, pk, t) PROVE pk \in DOMAIN f /\ f[pk] = t
  <2>1. PICK j \in 1..c : docs[j] = [pk |-> pk, text |-> t]
    BY <1>4, <1>7 DEF Holds
  <2>2. q[j] = pk /\ f[q[j]] = t
    BY <1>4, <2>1, OneText
  <2> QED BY <1>1, <1>2, <2>2
<1>8. ASSUME NEW pk, NEW t, pk \in DOMAIN f, f[pk] = t PROVE Holds(docs, pk, t)
  <2>1. PICK j \in 1..c : q[j] = pk
    BY <1>1, <1>2, <1>8
  <2> QED BY <1>4, <1>8, <2>1 DEF Holds
<1> QED BY <1>3, <1>6, <1>7, <1>8

\* The manifest with one more split, of a generation above all others.
LEMMA SplitAppended ==
    ASSUME NEW m, IsManifest(m), NEW x, MetaOK(x), x.gen = max_generation(m) + 1,
           NEW a, a = Append(m, x), NEW s
    PROVE  /\ max_generation(a) = x.gen
           /\ Sound(m, s) /\ SplitOK(s[x.id]) => Sound(a, s)
           /\ \A d, pk, t : Hit(a, d, s, pk, t)
                 <=> Hit(m, d, s, pk, t) \/ (Holds(s[x.id], pk, t) /\ ~ is_deleted_at(d, pk, x.gen))
<1>1. PICK n : n = Len(m)
  OBVIOUS
<1>2. /\ n \in Nat /\ DOMAIN m = 1..n
      /\ DOMAIN a = 1 .. n + 1 /\ (\A i \in 1..n : a[i] = m[i]) /\ a[n + 1] = x
  <2>1. PICK S : m \in Seq(S)
    BY DEF IsManifest
  <2> QED BY <1>1, <2>1
<1>3. IsManifest(a)
  BY AppendManifest
<1>4. max_generation(a) = x.gen
  <2>1. max_generation(m) \in Nat /\ \A i \in DOMAIN m : m[i].gen <= max_generation(m)
    BY GenerationIsGreatest
  <2>2. max_generation(a) \in Nat /\ \A i \in DOMAIN a : a[i].gen <= max_generation(a)
    BY <1>3, GenerationIsGreatest
  <2>3. max_generation(a) \in {0} \cup {a[i].gen : i \in DOMAIN a}
    BY <1>3, GenerationTaken
  <2>4. x.gen <= max_generation(a)
    BY <1>2, <2>2
  <2>5. \A i \in 1..n : m[i].gen \in Nat /\ m[i].gen <= x.gen
    BY <1>2, <2>1, ManifestElements DEF MetaOK
  <2>6. \A i \in DOMAIN a : a[i].gen <= x.gen
    <3>1. \A i \in DOMAIN a : i \in 1..n \/ i = n + 1
      BY <1>2
    <3>2. x.gen <= x.gen
      BY <2>1
    <3> QED BY <1>2, <2>5, <3>1, <3>2
  <2>7. max_generation(a) <= x.gen
    BY <2>1, <2>3, <2>6
  <2> QED BY <2>1, <2>2, <2>4, <2>7
<1>5. ASSUME Sound(m, s), SplitOK(s[x.id]) PROVE Sound(a, s)
  <2>1. \A i \in DOMAIN a : i \in 1..n \/ i = n + 1
    BY <1>2
  <2> QED BY <1>2, <1>5, <2>1 DEF Sound
<1>6. ASSUME NEW d, NEW pk, NEW t
      PROVE  Hit(a, d, s, pk, t)
                 <=> Hit(m, d, s, pk, t) \/ (Holds(s[x.id], pk, t) /\ ~ is_deleted_at(d, pk, x.gen))
  <2>1. \A i \in DOMAIN a : i \in 1..n \/ i = n + 1
    BY <1>2
  <2>2. \A i \in 1..n : i \in DOMAIN a /\ (Copy(a, s, i, pk, t) <=> Copy(m, s, i, pk, t)) /\ a[i].gen = m[i].gen
    BY <1>2 DEF Copy
  <2>3. n + 1 \in DOMAIN a /\ (Copy(a, s, n + 1, pk, t) <=> Holds(s[x.id], pk, t)) /\ a[n + 1].gen = x.gen
    BY <1>2 DEF Copy, Holds
  <2> QED BY <1>2, <2>1, <2>2, <2>3 DEF Hit
<1> QED BY <1>4, <1>5, <1>6

\* A seal's update of the documents f: the manifest a and the tombstones e it will put.
UpdateOf(m, d, s, f, x, a, e) ==
    /\ IsManifest(m) /\ TombsBelow(m, d) /\ Sound(m, s) /\ DocsOK(f)
    /\ MetaOK(x) /\ x.gen = max_generation(m) + 1 /\ s[x.id] = SplitOf(f)
    /\ a = Append(m, x) /\ e = delete_docs_at(d, DOMAIN f, max_generation(m))

\* After the manifest and the tombstones of an update are put, every key of it shows
\* its new text alone; between the two, perhaps an old one too; other keys show
\* what they did.
UpdateShown(m, d, s, f, a, e) ==
    /\ Sound(a, s) /\ TombsBelow(a, d) /\ TombsBelow(a, e)
    /\ \A pk \in DOMAIN f : \A t : Hit(a, e, s, pk, t) <=> f[pk] = t
    /\ \A pk \in DOMAIN f : Hit(a, d, s, pk, f[pk])
    /\ \A pk : pk \notin DOMAIN f => \A t : Hit(a, d, s, pk, t) <=> Hit(m, d, s, pk, t)
    /\ \A pk : pk \notin DOMAIN f => SameAt(e, d, pk)

LEMMA UpdateShows ==
    ASSUME NEW m, NEW d, NEW s, NEW f, NEW x, NEW a, NEW e, UpdateOf(m, d, s, f, x, a, e)
    PROVE  UpdateShown(m, d, s, f, a, e)
<1> USE DEF UpdateOf
<1>1. PICK g : g = max_generation(m)
  OBVIOUS
<1>2. g \in Nat /\ (\A i \in DOMAIN m : m[i].gen <= g) /\ \A i \in DOMAIN m : m[i].gen \in Nat
  BY <1>1, GenerationIsGreatest, ManifestElements DEF MetaOK
<1>3. TombsOK(d) /\ \A pk \in DOMAIN d : d[pk] \in Nat /\ d[pk] <= g
  BY <1>1 DEF TombsBelow, TombsOK
<1>4. /\ TombsOK(e)
      /\ \A pk : pk \notin DOMAIN f => SameAt(e, d, pk)
      /\ \A pk \in DOMAIN f : pk \in DOMAIN e
      /\ \A pk \in DOMAIN e : e[pk] <= g
  <2>1. g <= g
    BY <1>2
  <2> QED BY <1>1, <1>2, <1>3, <2>1, TombstonesRaised
<1>5. \A pk \in DOMAIN f : e[pk] = g
  BY <1>1, <1>2, <1>3, TombstonesAtTop
<1>6. /\ SplitOK(s[x.id])
      /\ \A pk, t : Holds(s[x.id], pk, t) <=> pk \in DOMAIN f /\ f[pk] = t
  BY SplitHolds
<1>7. /\ max_generation(a) = x.gen /\ Sound(a, s)
      /\ \A c, pk, t : Hit(a, c, s, pk, t)
             <=> Hit(m, c, s, pk, t) \/ (Holds(s[x.id], pk, t) /\ ~ is_deleted_at(c, pk, x.gen))
  BY <1>6, SplitAppended
<1>8. \A pk : ~ is_deleted_at(d, pk, x.gen) /\ ~ is_deleted_at(e, pk, x.gen)
  <2>1. x.gen = g + 1
    BY <1>1
  <2>2. \A pk \in DOMAIN d : ~ (x.gen <= d[pk])
    BY <1>2, <1>3, <2>1
  <2>3. \A pk \in DOMAIN e : e[pk] \in Nat /\ ~ (x.gen <= e[pk])
    BY <1>2, <1>4, <2>1 DEF TombsOK
  <2> QED BY <2>2, <2>3 DEF is_deleted_at
<1>9. TombsBelow(a, d) /\ TombsBelow(a, e)
  <2>1. \A n \in Nat : n <= g => n <= max_generation(a)
    BY <1>1, <1>2, <1>7
  <2>2. \A pk \in DOMAIN e : e[pk] \in Nat
    BY <1>4 DEF TombsOK
  <2> QED BY <1>3, <1>4, <2>1, <2>2 DEF TombsBelow
<1>10. ASSUME NEW pk \in DOMAIN f, NEW t PROVE ~ Hit(m, e, s, pk, t)
  <2>1. \A i \in DOMAIN m : is_deleted_at(e, pk, m[i].gen)
    BY <1>2, <1>4, <1>5 DEF is_deleted_at
  <2> QED BY <2>1 DEF Hit
<1> HIDE DEF UpdateOf
<1> QED BY <1>4, <1>6, <1>7, <1>8, <1>9, <1>10 DEF UpdateShown

-----------------------------------------------------------------------------
(* A compaction: what its split shows.                                     *)

Kept(m, d, s) == {c \in Copies(m, s) : ~ is_deleted_at(d, DocAt(m, s, c).pk, m[c[1]].gen)}
Merged(m, d, s) ==
    [n \in 1..Cardinality(Kept(m, d, s)) |-> DocAt(m, s, SetToSeq(Kept(m, d, s))[n])]
Cleared(m, d, s) ==
    {DocAt(m, s, c).pk : c \in Copies(m, s)} \ {DocAt(m, s, c).pk : c \in Kept(m, d, s)}

LEMMA CompactIs ==
    ASSUME NEW m, NEW d, NEW s
    PROVE  /\ compact(m, d, s).split = Merged(m, d, s)
           /\ compact(m, d, s).deletes = Restrict(d, DOMAIN d \ Cleared(m, d, s))
           /\ compact(m, d, s).manifest
                = <<split_meta(<<"compacted", max_generation(m) + 1>>, max_generation(m) + 1, Merged(m, d, s))>>
BY Zenon DEF compact, Merged, Cleared, Kept

LEMMA CopyOfHit ==
    ASSUME NEW m, NEW s
    PROVE  /\ \A c \in Copies(m, s) : c[1] \in DOMAIN m /\ c[2] \in DOMAIN s[m[c[1]].id]
           /\ \A i \in DOMAIN m : \A j \in DOMAIN s[m[i].id] :
                 <<i, j>> \in Copies(m, s) /\ DocAt(m, s, <<i, j>>) = s[m[i].id][j]
BY DEF Copies, DocAt

LEMMA CopiesAreFinite ==
    ASSUME NEW m, IsManifest(m), NEW s, Sound(m, s)
    PROVE  IsFiniteSet(Copies(m, s))
<1> DEFINE Of(i) == {i} \X DOMAIN s[m[i].id]
           f == [i \in DOMAIN m |-> Of(i)]
           U == {Of(i) : i \in DOMAIN m}
<1>1. IsFiniteSet(DOMAIN m)
  <2>1. Len(m) \in Nat /\ DOMAIN m = 1..Len(m)
    BY ManifestElements
  <2> QED BY <2>1, FS_Interval
<1>2. \A T \in U : IsFiniteSet(T)
  <2>1. ASSUME NEW i \in DOMAIN m PROVE IsFiniteSet(Of(i))
    <3>1. IsFiniteSet({i}) /\ IsFiniteSet(DOMAIN s[m[i].id])
      BY FS_Singleton DEF Sound, SplitOK
    <3> QED BY <3>1, FS_Product
  <2> HIDE DEF Of
  <2> QED BY <2>1
<1>3. IsFiniteSet(U)
  <2>1. f \in Surjection(DOMAIN m, U)
    BY DEF Surjection
  <2> HIDE DEF f, U
  <2> QED BY <1>1, <2>1, FS_Surjection
<1>4. Copies(m, s) = UNION U
  BY DEF Copies
<1> HIDE DEF U
<1> QED BY <1>2, <1>3, <1>4, FS_UNION

LEMMA MergedHolds ==
    ASSUME NEW m, IsManifest(m), NEW d, NEW s, Sound(m, s)
    PROVE  /\ SplitOK(Merged(m, d, s))
           /\ \A pk, t : Holds(Merged(m, d, s), pk, t) <=> Hit(m, d, s, pk, t)
<1>1. PICK K, c, q, docs : K = Kept(m, d, s) /\ c = Cardinality(K) /\ q = SetToSeq(K) /\ docs = Merged(m, d, s)
  OBVIOUS
<1>2. IsFiniteSet(K) /\ K \subseteq Copies(m, s)
  <2>1. K \in SUBSET Copies(m, s)
    BY <1>1 DEF Kept
  <2> QED BY <2>1, CopiesAreFinite, FS_Subset
<1>3. c \in Nat /\ q \in [1..c -> K] /\ \A x \in K : \E n \in 1..c : q[n] = x
  BY <1>1, <1>2, Listed
<1>4. DOMAIN docs = 1..c /\ \A n \in 1..c : docs[n] = DocAt(m, s, q[n])
  BY <1>1 DEF Merged
<1>5. \A x \in Copies(m, s) :
        /\ x[1] \in DOMAIN m /\ x[2] \in DOMAIN s[m[x[1]].id]
        /\ DocAt(m, s, x) = s[m[x[1]].id][x[2]] /\ DocAt(m, s, x) \in [pk : Pk, text : Text]
  BY CopyOfHit DEF DocAt, Sound, SplitOK
<1>6. SplitOK(docs)
  <2>1. IsFiniteSet(1..c)
    BY <1>3, FS_Interval
  <2> QED BY <1>2, <1>3, <1>4, <1>5, <2>1 DEF SplitOK
<1>7. ASSUME NEW pk, NEW t, Holds(docs, pk, t) PROVE Hit(m, d, s, pk, t)
  <2>1. PICK n \in 1..c : DocAt(m, s, q[n]) = [pk |-> pk, text |-> t]
    BY <1>4, <1>7 DEF Holds
  <2>2. PICK x, i, j : x = q[n] /\ i = x[1] /\ j = x[2]
    OBVIOUS
  <2>3. x \in K /\ x \in Copies(m, s)
    BY <1>2, <1>3, <2>2
  <2>4. ~ is_deleted_at(d, DocAt(m, s, x).pk, m[i].gen)
    BY <1>1, <2>2, <2>3 DEF Kept
  <2>5. DocAt(m, s, x).pk = pk
    BY <2>1, <2>2
  <2>6. i \in DOMAIN m /\ j \in DOMAIN s[m[i].id] /\ s[m[i].id][j] = [pk |-> pk, text |-> t]
    BY <1>5, <2>1, <2>2, <2>3
  <2> QED BY <2>4, <2>5, <2>6 DEF Hit, Copy
<1>8. ASSUME NEW pk, NEW t, Hit(m, d, s, pk, t) PROVE Holds(docs, pk, t)
  <2>1. PICK i \in DOMAIN m : Copy(m, s, i, pk, t) /\ ~ is_deleted_at(d, pk, m[i].gen)
    BY <1>8 DEF Hit
  <2>2. PICK j \in DOMAIN s[m[i].id] : s[m[i].id][j] = [pk |-> pk, text |-> t]
    BY <2>1 DEF Copy
  <2>3. PICK x : x = <<i, j>>
    OBVIOUS
  <2>4. x \in Copies(m, s) /\ DocAt(m, s, x) = [pk |-> pk, text |-> t] /\ x[1] = i
    BY <2>2, <2>3, CopyOfHit
  <2>5. DocAt(m, s, x).pk = pk
    BY <2>4
  <2>6. x \in K
    BY <1>1, <2>1, <2>4, <2>5 DEF Kept
  <2>7. PICK n \in 1..c : q[n] = x
    BY <1>3, <2>6
  <2> QED BY <1>4, <2>4, <2>7 DEF Holds
<1> QED BY <1>1, <1>6, <1>7, <1>8

\* The compacted manifest shows what the old one did, before the tombstones are
\* put and after: those of the kept keys are of older generations than the new
\* split, and those that are cleared were of keys without a copy.
LEMMA CompactShows ==
    ASSUME NEW m, IsManifest(m), NEW d, TombsBelow(m, d), NEW s, Sound(m, s),
           NEW c, c = compact(m, d, s), NEW u, u[c.id] = c.split
    PROVE  /\ Sound(c.manifest, u) /\ TombsBelow(c.manifest, d) /\ TombsBelow(c.manifest, c.deletes)
           /\ \A pk, t : Hit(c.manifest, d, u, pk, t) <=> Hit(m, d, s, pk, t)
           /\ \A pk, t : Hit(c.manifest, c.deletes, u, pk, t) <=> Hit(m, d, s, pk, t)
<1>1. PICK g, x, a, e : /\ g = max_generation(m) /\ a = c.manifest /\ e = c.deletes
                        /\ x = split_meta(<<"compacted", g + 1>>, g + 1, Merged(m, d, s)) /\ a = <<x>>
  BY CompactIs
<1>2. g \in Nat /\ IsManifest(a) /\ c.id = <<"compacted", g + 1>>
  <2>1. g \in Nat
    BY <1>1, GenerationIsGreatest
  <2>2. IsManifest(compact(m, d, s).manifest)
    BY CompactedManifest
  <2>3. compact(m, d, s).id = <<"compacted", max_generation(m) + 1>>
    BY CompactParts
  <2> QED BY <1>1, <2>1, <2>2, <2>3
<1>3. DOMAIN a = {1} /\ a[1] = x /\ x.gen = g + 1 /\ x.id = c.id
  BY <1>1, <1>2 DEF split_meta
<1>4. max_generation(a) = g + 1
  <2>1. max_generation(a) \in Nat /\ a[1].gen <= max_generation(a)
    BY <1>2, <1>3, GenerationIsGreatest
  <2>2. max_generation(a) = 0 \/ max_generation(a) = a[1].gen
    BY <1>2, <1>3, GenerationTaken
  <2> QED BY <1>2, <1>3, <2>1, <2>2
<1>5. /\ DOMAIN e = DOMAIN d \ Cleared(m, d, s)
      /\ \A pk \in DOMAIN e : e[pk] = d[pk]
  <2>1. e = Restrict(d, DOMAIN d \ Cleared(m, d, s))
    BY <1>1, CompactIs
  <2> QED BY <2>1 DEF Restrict
<1>6. \A pk \in DOMAIN d : d[pk] \in Nat /\ d[pk] <= g
  BY <1>1 DEF TombsBelow, TombsOK
<1>7. TombsBelow(a, d) /\ TombsBelow(a, e)
  <2>1. \A n \in Nat : n <= g => n <= max_generation(a)
    BY <1>2, <1>4
  <2> QED BY <1>5, <1>6, <2>1 DEF TombsBelow, TombsOK
<1>8. \A pk : ~ is_deleted_at(d, pk, g + 1) /\ ~ is_deleted_at(e, pk, g + 1)
  <2>1. \A n \in Nat : n <= g => ~ (g + 1 <= n)
    BY <1>2
  <2> QED BY <1>5, <1>6, <2>1 DEF is_deleted_at
<1>9. u[x.id] = Merged(m, d, s)
  BY <1>3, CompactIs
<1>10. Sound(a, u)
  BY <1>3, <1>9, MergedHolds DEF Sound
<1>11. \A b, pk, t : Hit(a, b, u, pk, t) <=> Holds(Merged(m, d, s), pk, t) /\ ~ is_deleted_at(b, pk, g + 1)
  BY <1>3, <1>9 DEF Hit, Copy, Holds
<1> QED BY <1>1, <1>7, <1>8, <1>10, <1>11, MergedHolds

-----------------------------------------------------------------------------
(* What the segment, the writer and the scheduler hold.                    *)

LiveShape ==
    live = [docs |-> live.docs, visible |-> live.visible, tombs |-> live.tombs,
            covered |-> live.covered, dirty |-> live.dirty, sealing |-> live.sealing]

LiveOK == LiveShape /\ DocsOK(live.docs) /\ DocsOK(live.visible)

WriterOK == writer = Nobody \/ (writer.pk \in Pk /\ writer.row \in Text \cup {Absent})

Change == [pk : Pk, row : Row]
TodoOK == todo \in [Writer -> Seq(Change)]
UsedOK == used \in [Bounds -> Nat]

InputInv == LiveOK /\ WriterOK /\ TodoOK /\ UsedOK /\ JobShape /\ DocsOK(job.docs)

LEMMA EmptyDocs == DocsOK(<<>>)
<1>1. DOMAIN <<>> = {}
  OBVIOUS
<1>2. PICK f : f = <<>> /\ DOMAIN f = {}
  BY <1>1
<1>3. DocsOK(f)
  BY <1>2, FS_EmptySet DEF DocsOK
<1> QED BY <1>2, <1>3

LEMMA NewSegmentOK == ASSUME live' = NewSegment PROVE LiveOK'
BY EmptyDocs DEF NewSegment, LiveOK, LiveShape

LEMMA DocsWith ==
    ASSUME NEW f, DocsOK(f), NEW pk \in Pk, NEW t \in Text
    PROVE  DocsOK(With(f, pk, t))
<1>1. PICK g : g = With(f, pk, t)
  OBVIOUS
<1>2. DOMAIN g = DOMAIN f \cup {pk} /\ \A x \in DOMAIN g : g[x] = IF x = pk THEN t ELSE f[x]
  BY <1>1 DEF With
<1>3. IsFiniteSet(DOMAIN f \cup {pk})
  BY FS_AddElement DEF DocsOK
<1> QED BY <1>1, <1>2, <1>3 DEF DocsOK

LEMMA DocsRestricted ==
    ASSUME NEW f, DocsOK(f), NEW S, S \subseteq DOMAIN f
    PROVE  DocsOK(Restrict(f, S))
<1>1. PICK g : g = Restrict(f, S)
  OBVIOUS
<1>2. DOMAIN g = S /\ \A x \in S : g[x] = f[x]
  BY <1>1 DEF Restrict
<1>3. IsFiniteSet(S)
  BY FS_Subset DEF DocsOK
<1> QED BY <1>1, <1>2, <1>3 DEF DocsOK

\* An entry of a transaction: a list with its first change removed.
LEMMA TodoHead ==
    ASSUME TodoOK, NEW w \in Writer, todo[w] # <<>>
    PROVE  /\ Head(todo[w]) \in Change /\ Tail(todo[w]) \in Seq(Change)
           /\ Head(todo[w]).pk \in Pk /\ Head(todo[w]).row \in Row
<1>1. todo[w] \in Seq(Change)
  BY DEF TodoOK
<1>2. Head(todo[w]) \in Change /\ Tail(todo[w]) \in Seq(Change)
  BY <1>1
<1> QED BY <1>2 DEF Change

LEMMA InputInit == Init => InputInv
<1> SUFFICES ASSUME Init PROVE InputInv
  OBVIOUS
<1>1. LiveOK
  BY EmptyDocs DEF Init, EmptyTable, Quiet, NewSegment, LiveOK, LiveShape
<1>2. WriterOK /\ UsedOK
  BY DEF Init, EmptyTable, Quiet, WriterOK, UsedOK
<1>3. TodoOK
  BY DEF Init, EmptyTable, Quiet, TodoOK
<1>4. JobShape /\ DocsOK(job.docs)
  BY EmptyDocs DEF Init, EmptyTable, Quiet, IdleJob, JobShape
<1> QED BY <1>1, <1>2, <1>3, <1>4 DEF InputInv

LEMMA Bumped ==
    ASSUME UsedOK, NEW b \in Bounds, NEW max, Bump(b, max)
    PROVE  UsedOK'
<1>1. used' = [used EXCEPT ![b] = @ + 1]
  BY DEF Bump
<1> QED BY <1>1 DEF UsedOK

LEMMA ReadUsed ==
    ASSUME UsedOK, NEW n \in Nat, Read(n)
    PROVE  UsedOK'
<1>1. used' = [used EXCEPT !["reads"] = @ + n]
  BY DEF Read
<1> QED BY <1>1 DEF UsedOK, Bounds

LEMMA LoadsUsed ==
    ASSUME UsedOK, NEW blob, NEW other, NEW m \in Loads(blob), NEW d \in Loads(other), Read(m.faults + d.faults)
    PROVE  UsedOK'
<1>1. m.faults \in Nat /\ d.faults \in Nat
  BY DEF Loads
<1> QED BY <1>1, ReadUsed

LEMMA LoadUsed ==
    ASSUME UsedOK, NEW blob, NEW m \in Loads(blob), Read(m.faults)
    PROVE  UsedOK'
<1>1. m.faults \in Nat
  BY DEF Loads
<1> QED BY <1>1, ReadUsed

LEMMA InputCommit ==
    ASSUME InputInv, NEW w \in Writer, Commit(w) \/ on_commit(w)
    PROVE  InputInv'
<1>1. CASE Commit(w)
  <2>1. PICK c \in Commits : todo' = [todo EXCEPT ![w] = c]
    BY <1>1 DEF Commit
  <2>2. c \in Seq(Change)
    BY FtsAssumption DEF Change
  <2>3. TodoOK'
    BY <2>1, <2>2 DEF InputInv, TodoOK
  <2>4. UsedOK'
    BY <1>1, Bumped DEF Commit, InputInv, Bounds
  <2> QED BY <1>1, <2>3, <2>4 DEF Commit, InputInv, LiveOK, LiveShape, WriterOK, JobShape
<1>2. CASE on_commit_skip(w)
  <2>1. TodoOK'
    <3>1. todo[w] # <<>> /\ todo' = [todo EXCEPT ![w] = Tail(@)]
      BY <1>2 DEF on_commit_skip
    <3>2. Tail(todo[w]) \in Seq(Change)
      BY <3>1, TodoHead DEF InputInv
    <3> QED BY <3>1, <3>2 DEF InputInv, TodoOK
  <2> QED BY <1>2, <2>1 DEF on_commit_skip, InputInv, LiveOK, LiveShape, WriterOK, JobShape, UsedOK
<1>3. CASE on_commit_enter(w)
  <2>1. WriterOK'
    <3>1. /\ todo[w] # <<>> /\ Head(todo[w]).row # Null
          /\ writer' = [pk |-> Head(todo[w]).pk, row |-> Head(todo[w]).row, by |-> w]
      BY <1>3 DEF on_commit_enter
    <3>2. Head(todo[w]).pk \in Pk /\ Head(todo[w]).row \in Row
      BY <3>1, TodoHead DEF InputInv
    <3> QED BY <3>1, <3>2 DEF WriterOK, Row
  <2> QED BY <1>3, <2>1 DEF on_commit_enter, InputInv, LiveOK, LiveShape, TodoOK, JobShape, UsedOK
<1>4. CASE on_commit_apply(w)
  <2>1. writer # Nobody /\ writer.pk \in Pk /\ writer.row \in Text \cup {Absent} /\ writer' = Nobody
    BY <1>4 DEF on_commit_apply, InputInv, WriterOK
  <2>2. LiveOK'
    <3>1. CASE writer.row = Absent
      <4>1. live' = SegmentTombstone(live, writer.pk)
        BY <1>4, <3>1 DEF on_commit_apply
      <4>2. live'.docs = Without(live.docs, writer.pk) /\ live'.visible = live.visible /\ LiveShape'
        BY <4>1 DEF SegmentTombstone, InputInv, LiveOK, LiveShape
      <4>3. DocsOK(Without(live.docs, writer.pk))
        BY DocsRestricted DEF Without, InputInv, LiveOK
      <4> QED BY <4>2, <4>3 DEF InputInv, LiveOK
    <3>2. CASE writer.row # Absent
      <4>1. live' = SegmentIndex(live, writer.pk, writer.row) /\ writer.row \in Text
        BY <1>4, <2>1, <3>2 DEF on_commit_apply
      <4>2. live'.docs = With(live.docs, writer.pk, writer.row) /\ live'.visible = live.visible /\ LiveShape'
        BY <4>1 DEF SegmentIndex, InputInv, LiveOK, LiveShape
      <4>3. DocsOK(With(live.docs, writer.pk, writer.row))
        BY <2>1, <4>1, DocsWith DEF InputInv, LiveOK
      <4> QED BY <4>2, <4>3 DEF InputInv, LiveOK
    <3> QED BY <3>1, <3>2
  <2>3. TodoOK'
    <3>1. todo' = [todo EXCEPT ![w] = Tail(@)]
      BY <1>4 DEF on_commit_apply
    <3>2. CASE todo[w] # <<>>
      <4>1. Tail(todo[w]) \in Seq(Change)
        BY <3>2, TodoHead DEF InputInv
      <4> QED BY <3>1, <4>1 DEF InputInv, TodoOK
    <3>3. CASE todo[w] = <<>>
      <4>1. Tail(<<>>) = <<>>
        OBVIOUS
      <4> QED BY <3>1, <3>3, <4>1 DEF InputInv, TodoOK
    <3> QED BY <3>2, <3>3
  <2>4. WriterOK'
    BY <2>1 DEF WriterOK
  <2> QED BY <1>4, <2>2, <2>3, <2>4 DEF on_commit_apply, InputInv, JobShape, UsedOK
<1> QED BY <1>1, <1>2, <1>3, <1>4 DEF on_commit

LEMMA InputScheduler ==
    ASSUME InputInv, seal \/ SealFail \/ maybe_compact \/ CompactFail
    PROVE  InputInv'
<1> USE DEF InputInv
<1>1. WriterOK' /\ TodoOK'
  <2>1. writer' = writer /\ todo' = todo
    BY DEF seal, SealStart, UpdatePut, UpdateManifest, UpdateTombstones, SealDelete, SealClear, SealEmpty, SealFail,
           maybe_compact, CompactSkip, CompactPut, CompactPersist, Collect, CompactFail
  <2> QED BY <2>1 DEF WriterOK, TodoOK
<1>2. CASE SealStart
  <2>1. PICK s : /\ s = live \/ s = commit_and_reload(live)
                 /\ live' = [s EXCEPT !.sealing = TRUE, !.dirty = FALSE]
                 /\ job' = [IdleJob EXCEPT !.pc = IF DOMAIN s.visible \ s.tombs # {} THEN "put"
                                        ELSE IF s.tombs # {} THEN "delete" ELSE "finish",
                     !.docs = Restrict(s.visible, DOMAIN s.visible \ s.tombs), !.tombs = s.tombs]
    BY <1>2 DEF SealStart
  <2>2. /\ s = [docs |-> s.docs, visible |-> s.visible, tombs |-> s.tombs,
                covered |-> s.covered, dirty |-> s.dirty, sealing |-> s.sealing]
        /\ DocsOK(s.docs) /\ DocsOK(s.visible)
    BY <2>1 DEF LiveOK, LiveShape, commit_and_reload
  <2>3. LiveOK'
    BY <2>1, <2>2 DEF LiveOK, LiveShape
  <2>4. DocsOK(Restrict(s.visible, DOMAIN s.visible \ s.tombs))
    BY <2>2, DocsRestricted
  <2>5. JobShape' /\ job'.docs = Restrict(s.visible, DOMAIN s.visible \ s.tombs)
    BY <2>1 DEF JobShape, IdleJob
  <2>6. UsedOK'
    BY <1>2 DEF SealStart, UsedOK
  <2> QED BY <1>1, <2>3, <2>4, <2>5, <2>6
<1>3. CASE UpdatePut
  <2>1. UsedOK' /\ JobShape' /\ job'.docs = job.docs
    <3>1. PICK m \in Loads(manifest), d \in Loads(deletes) :
             /\ Read(m.faults + d.faults)
             /\ \E a, e : job' = [job EXCEPT !.pc = "manifest", !.manifest = a, !.deletes = e]
      BY <1>3, Zenon DEF UpdatePut
    <3>3. UsedOK'
      BY <3>1, LoadsUsed
    <3> QED BY <3>1, <3>3 DEF JobShape
  <2> QED BY <1>1, <1>3, <2>1 DEF UpdatePut, LiveOK, LiveShape
<1>4. CASE UpdateManifest \/ UpdateTombstones
  <2>1. UsedOK' /\ JobShape' /\ job'.docs = job.docs /\ live' = live
    BY <1>4 DEF UpdateManifest, UpdateTombstones, JobShape, UsedOK
  <2> QED BY <1>1, <2>1 DEF LiveOK, LiveShape
<1>5. CASE SealDelete
  <2>1. PICK m \in Loads(manifest), d \in Loads(deletes) :
             Read(m.faults + d.faults)
    BY <1>5, Zenon DEF SealDelete
  <2>3. UsedOK'
    BY <2>1, LoadsUsed
  <2>4. JobShape' /\ job'.docs = job.docs /\ live' = live
    BY <1>5 DEF SealDelete, JobShape
  <2> QED BY <1>1, <2>3, <2>4 DEF LiveOK, LiveShape
<1>6. CASE SealClear
  <2>1. live' = live \/ live' = [live EXCEPT !.docs = <<>>]
    BY <1>6 DEF SealClear
  <2>2. LiveOK'
    BY <2>1, EmptyDocs DEF LiveOK, LiveShape
  <2>3. JobShape' /\ job'.docs = job.docs /\ UsedOK'
    BY <1>6 DEF SealClear, JobShape, UsedOK
  <2> QED BY <1>1, <2>2, <2>3
<1>9. CASE SealEmpty
  <2>1. /\ live' = live \/ live' = [live EXCEPT !.visible = live.docs] \/ live' = [live EXCEPT !.tombs = {}]
           \/ live' = [live EXCEPT !.covered = {}] \/ live' = [live EXCEPT !.dirty = FALSE, !.sealing = FALSE]
    BY <1>9, EmptySteps
  <2>2. LiveOK'
    BY <2>1 DEF LiveOK, LiveShape
  <2>3. JobShape' /\ (job'.docs = <<>> \/ job'.docs = job.docs) /\ UsedOK'
    BY <1>9, EmptySteps DEF SealEmpty, IdleJob, JobShape, UsedOK
  <2> QED BY <1>1, <2>2, <2>3, EmptyDocs
<1>7. CASE SealFail
  <2>1. UsedOK'
    BY <1>7, Bumped DEF SealFail, Bounds
  <2>2. live' = live \/ live' = [live EXCEPT !.sealing = FALSE]
    BY <1>7 DEF SealFail, abort_seal
  <2>3. LiveOK'
    BY <2>2 DEF LiveOK, LiveShape
  <2>4. JobShape' /\ job'.docs = <<>>
    BY <1>7 DEF SealFail, IdleJob, JobShape
  <2> QED BY <1>1, <2>1, <2>3, <2>4, EmptyDocs
<1>8. CASE maybe_compact \/ CompactFail
  <2>1. live' = live
    BY <1>8 DEF maybe_compact, CompactSkip, CompactPut, CompactPersist, Collect, CompactFail
  <2>2. UsedOK'
    <3>1. CASE CompactSkip
      BY <3>1, LoadsUsed DEF CompactSkip
    <3>2. CASE CompactPut
      <4>1. PICK m \in Loads(manifest), d \in Loads(deletes) : Read(m.faults + d.faults)
        BY <3>2, Zenon DEF CompactPut
      <4> QED BY <4>1, LoadsUsed
    <3>3. CASE CompactPersist \/ Collect \/ CompactFail
      BY <3>3, Bumped DEF CompactPersist, Collect, CompactFail, Bounds, UsedOK
    <3> QED BY <1>8, <3>1, <3>2, <3>3 DEF maybe_compact
  <2>3. JobShape' /\ (job'.docs = <<>> \/ job'.docs = job.docs)
    <3>1. CASE CompactSkip \/ CompactFail
      BY <3>1 DEF CompactSkip, CompactFail, IdleJob, JobShape
    <3>2. CASE CompactPut
      <4>1. PICK m, d : LET c == compact(m.value, d.value, splits) IN
                        job' = [IdleJob EXCEPT !.pc = "compact_manifest", !.manifest = c.manifest,
                                  !.deletes = c.deletes, !.superseded = c.superseded]
        BY <3>2, Zenon DEF CompactPut
      <4>2. PICK c : c = compact(m.value, d.value, splits)
        OBVIOUS
      <4>3. job' = [IdleJob EXCEPT !.pc = "compact_manifest", !.manifest = c.manifest,
                                  !.deletes = c.deletes, !.superseded = c.superseded]
        BY <4>1, <4>2
      <4> QED BY <4>3 DEF IdleJob, JobShape
    <3>3. CASE CompactPersist
      BY <3>3 DEF CompactPersist, JobShape
    <3>4. CASE Collect
      <4>1. PICK id : job' = IF job.superseded = {id} THEN IdleJob ELSE [job EXCEPT !.superseded = @ \ {id}]
        BY <3>4 DEF Collect
      <4> QED BY <4>1 DEF IdleJob, JobShape
    <3> QED BY <1>8, <3>1, <3>2, <3>3, <3>4 DEF maybe_compact
  <2>4. DocsOK(job'.docs)
    BY <2>3, EmptyDocs
  <2> QED BY <1>1, <2>1, <2>2, <2>3, <2>4 DEF LiveOK, LiveShape
<1> QED BY <1>2, <1>3, <1>4, <1>5, <1>6, <1>7, <1>8, <1>9 DEF seal

LEMMA InputNext == InputInv /\ [Next]_vars => InputInv'
<1> SUFFICES ASSUME InputInv, [Next]_vars PROVE InputInv'
  OBVIOUS
<1>1. CASE install_def
  <2>1. LiveOK' /\ UsedOK'
    BY <1>1, NewSegmentOK, Bumped DEF install_def, Bounds, InputInv
  <2>2. JobShape' /\ job'.docs = job.docs
    BY <1>1, Superseded DEF InputInv
  <2> QED BY <1>1, <2>1, <2>2 DEF install_def, InputInv, WriterOK, TodoOK
<1>2. CASE persist_registry
  BY <1>2 DEF persist_registry, InputInv, LiveOK, LiveShape, WriterOK, TodoOK, UsedOK, JobShape
<1>3. ASSUME NEW x \in Searcher, SearchStart(x) \/ union_hits(x)
      PROVE  InputInv'
  <2>1. writer' = writer /\ todo' = todo /\ job' = job
    BY <1>3 DEF SearchStart, union_hits, SearchCommit, SearchLive, SearchCovered, SearchManifest,
                SearchDeletes, SearchOpen, SearchEnd
  <2>2. UsedOK'
    <3>1. CASE SearchManifest(x)
      BY <3>1, LoadUsed DEF SearchManifest, InputInv
    <3>2. CASE SearchDeletes(x)
      BY <3>2, LoadUsed DEF SearchDeletes, InputInv
    <3> QED BY <1>3, <3>1, <3>2, Bumped DEF SearchStart, union_hits, SearchCommit, SearchLive, SearchCovered,
                SearchOpen, SearchEnd, InputInv, UsedOK, Bounds
  <2>3. live' = live \/ live' = [live EXCEPT !.dirty = FALSE] \/ live' = [live EXCEPT !.visible = live.docs]
    BY <1>3 DEF SearchStart, union_hits, SearchCommit, SearchLive, SearchCovered, SearchManifest,
                SearchDeletes, SearchOpen, SearchEnd, commit_and_reload
  <2>4. LiveOK'
    BY <2>3 DEF InputInv, LiveOK, LiveShape
  <2> QED BY <2>1, <2>2, <2>4 DEF InputInv, WriterOK, TodoOK, JobShape
<1>4. CASE Crash
  <2>1. LiveOK' /\ UsedOK'
    BY <1>4, NewSegmentOK, Bumped DEF Crash, Bounds, InputInv
  <2>2. WriterOK' /\ TodoOK'
    BY <1>4 DEF Crash, WriterOK, TodoOK
  <2>3. JobShape' /\ job'.docs = <<>>
    BY <1>4 DEF Crash, IdleJob, JobShape
  <2> QED BY <2>1, <2>2, <2>3, EmptyDocs DEF InputInv
<1>5. CASE UNCHANGED vars
  BY <1>5 DEF vars, InputInv, LiveOK, LiveShape, WriterOK, TodoOK, UsedOK, JobShape
<1> QED BY <1>1, <1>2, <1>3, <1>4, <1>5, InputCommit, InputScheduler DEF Next

-----------------------------------------------------------------------------
(* The durable tier shows what was sealed.                                 *)

SameHits(m, d, n, e, s, pk) == \A t : Hit(n, e, s, pk, t) <=> Hit(m, d, s, pk, t)

\* What manifest m, tombstones d and splits s show of a key: some version while
\* its update is torn, else the sealed one.
Shows(m, d, s, cut, versions, pk) ==
    IF pk \in cut THEN \E t \in Text : Hit(m, d, s, pk, t)
    ELSE \A t \in Text : Hit(m, d, s, pk, t) <=> versions[pk] = t

TierOK(m, d, s, cut, versions) ==
    /\ Sound(m, s) /\ TombsBelow(m, d)
    /\ \A pk \in Pk : Shows(m, d, s, cut, versions, pk)

\* What the puts still to come of an update or a compaction will show.
StagedUpdate(j, m, d, s) ==
    /\ Sound(j.manifest, s) /\ TombsBelow(j.manifest, d) /\ TombsBelow(j.manifest, j.deletes)
    /\ \A pk \in DOMAIN j.docs : /\ \A t : Hit(j.manifest, j.deletes, s, pk, t) <=> j.docs[pk] = t
                                 /\ Hit(j.manifest, d, s, pk, j.docs[pk])
    /\ \A pk \in Pk : pk \notin DOMAIN j.docs =>
          SameAt(j.deletes, d, pk) /\ SameHits(m, d, j.manifest, d, s, pk)
StagedTombstones(j, m, d, s) ==
    /\ TombsBelow(m, j.deletes)
    /\ \A pk \in DOMAIN j.docs : \A t : Hit(m, j.deletes, s, pk, t) <=> j.docs[pk] = t
    /\ \A pk \in Pk : pk \notin DOMAIN j.docs => SameAt(j.deletes, d, pk)
StagedCompact(j, m, d, s) ==
    /\ Sound(j.manifest, s) /\ TombsBelow(j.manifest, d) /\ TombsBelow(j.manifest, j.deletes)
    /\ \A pk \in Pk : SameHits(m, d, j.manifest, d, s, pk) /\ SameHits(m, d, j.manifest, j.deletes, s, pk)
StagedClear(j, m, d, s) ==
    TombsBelow(m, j.deletes) /\ \A pk \in Pk : SameHits(m, d, m, j.deletes, s, pk)

StagedOK ==
    /\ job.pc = "manifest" => StagedUpdate(job, manifest, deletes, splits)
    /\ job.pc = "tombstones" => StagedTombstones(job, manifest, deletes, splits)
    /\ job.pc = "compact_manifest" => StagedCompact(job, manifest, deletes, splits)
    /\ job.pc = "compact_tombstones" => StagedClear(job, manifest, deletes, splits)

TierInv ==
    /\ MaxReadFaults = 0
    /\ sealed \in [Pk -> Text \cup {Absent}]
    /\ TierOK(manifest, deletes, splits, torn, sealed)
    /\ StagedOK

StagedPc == {"manifest", "tombstones", "compact_manifest", "compact_tombstones"}

\* A step that changes nothing durable, and stages nothing.
LEMMA TierKept ==
    ASSUME TierInv, UNCHANGED <<manifest, deletes, splits, torn, sealed>>,
           \/ job' = job \/ job'.pc \notin StagedPc
           \/ /\ job'.pc = job.pc /\ job'.docs = job.docs
              /\ job'.manifest = job.manifest /\ job'.deletes = job.deletes
    PROVE  TierInv'
BY DEF TierInv, StagedOK, StagedPc, StagedUpdate, StagedTombstones, StagedCompact, StagedClear

LEMMA TierSplits ==
    ASSUME NEW m, NEW d, NEW s, NEW cut, NEW versions, TierOK(m, d, s, cut, versions),
           NEW u, \A i \in DOMAIN m : s[m[i].id] = u[m[i].id]
    PROVE  TierOK(m, d, u, cut, versions) /\ \A pk, t : Hit(m, d, s, pk, t) <=> Hit(m, d, u, pk, t)
<1>1. \A pk : SameAt(d, d, pk)
  BY DEF SameAt
<1>2. \A pk, t : Hit(m, d, s, pk, t) <=> Hit(m, d, u, pk, t)
  BY <1>1, HitDepends
<1>3. Sound(m, u)
  BY SoundDepends DEF TierOK
<1>4. \A pk \in Pk : Shows(m, d, u, cut, versions, pk)
  BY <1>2 DEF TierOK, Shows
<1> QED BY <1>2, <1>3, <1>4 DEF TierOK

LEMMA NoReadFails ==
    ASSUME TierInv, InputInv, NEW blob, NEW l \in Loads(blob)
    PROVE  l.value = blob /\ l.faults = 0
<1>1. used["reads"] \in Nat
  BY DEF InputInv, UsedOK, Bounds
<1>2. ~ (used["reads"] < MaxReadFaults)
  BY <1>1 DEF TierInv
<1> QED BY <1>2 DEF Loads

LEMMA TierInit == MaxReadFaults = 0 /\ Init => TierInv
<1> SUFFICES ASSUME MaxReadFaults = 0, Init PROVE TierInv
  OBVIOUS
<1>1. /\ manifest = <<>> /\ deletes = <<>> /\ splits = <<>> /\ torn = {} /\ job = IdleJob
      /\ sealed = [pk \in Pk |-> Absent]
  BY DEF Init, EmptyTable, Quiet
<1>2. DOMAIN <<>> = {}
  OBVIOUS
<1>3. Sound(manifest, splits) /\ TombsBelow(manifest, deletes)
  BY <1>1, <1>2 DEF Sound, TombsBelow, TombsOK
<1>4. \A pk \in Pk : Shows(manifest, deletes, splits, torn, sealed, pk)
  <2>1. \A pk \in Pk, t \in Text : ~ Hit(manifest, deletes, splits, pk, t) /\ sealed[pk] # t
    BY <1>1, <1>2, FtsAssumption DEF Hit
  <2> QED BY <1>1, <2>1 DEF Shows
<1>5. StagedOK
  BY <1>1 DEF IdleJob, StagedOK
<1> QED BY <1>1, <1>3, <1>4, <1>5 DEF TierInv, TierOK

LEMMA TierUpdatePut ==
    ASSUME DurableInv, InputInv, TierInv, UpdatePut
    PROVE  TierInv'
<1>0. PICK m \in Loads(manifest), d \in Loads(deletes) :
        /\ splits' = With(splits, mint_split_id(m.value), SplitOf(job.docs))
        /\ job' = [job EXCEPT !.pc = "manifest",
                      !.manifest = Append(m.value, split_meta(mint_split_id(m.value),
                                                              max_generation(m.value) + 1, SplitOf(job.docs))),
                      !.deletes = delete_docs_at(d.value, DOMAIN job.docs, max_generation(m.value))]
  BY Zenon DEF UpdatePut, SplitOf
<1>1. m.value = manifest /\ d.value = deletes
  BY NoReadFails
<1>2. UNCHANGED <<manifest, deletes, torn, sealed>>
  BY DEF UpdatePut, history
<1>3. PICK g, id, x, a, e, f :
        /\ f = job.docs /\ g = max_generation(manifest) /\ id = mint_split_id(manifest)
        /\ x = split_meta(id, g + 1, SplitOf(f)) /\ a = Append(manifest, x)
        /\ e = delete_docs_at(deletes, DOMAIN f, g)
  OBVIOUS
<1>4. splits' = With(splits, id, SplitOf(f)) /\ job' = [job EXCEPT !.pc = "manifest", !.manifest = a, !.deletes = e]
  BY <1>0, <1>1, <1>3
<1>5. job'.pc = "manifest" /\ job'.manifest = a /\ job'.deletes = e /\ job'.docs = f
  BY <1>3, <1>4 DEF InputInv, JobShape
<1>6. IsManifest(manifest) /\ Ids(manifest) \subseteq DOMAIN splits /\ id \notin Ids(manifest)
      /\ id[1] = "split" /\ id[2] \in Nat /\ g \in Nat
  BY <1>3, MintedIdIsNew, GenerationIsGreatest DEF DurableInv, Backed
<1>7. MetaOK(x) /\ x.gen = g + 1 /\ x.id = id
  BY <1>3, <1>6 DEF MetaOK, split_meta
<1>8. (\A i \in DOMAIN manifest : splits'[manifest[i].id] = splits[manifest[i].id]) /\ splits'[x.id] = SplitOf(f)
  BY <1>4, <1>6, <1>7, PutSplit
<1>9. TierOK(manifest, deletes, splits', torn, sealed)
  BY <1>8, TierSplits DEF TierInv
<1>10. TombsBelow(manifest, deletes) /\ Sound(manifest, splits') /\ DocsOK(f)
  BY <1>3, <1>9 DEF TierOK, InputInv
<1>11. UpdateShown(manifest, deletes, splits', f, a, e)
  <2>1. UpdateOf(manifest, deletes, splits', f, x, a, e)
    BY <1>3, <1>6, <1>7, <1>8, <1>10 DEF UpdateOf
  <2> QED BY <2>1, UpdateShows
<1>12. StagedUpdate(job', manifest, deletes, splits')
  BY <1>5, <1>11 DEF StagedUpdate, SameHits, UpdateShown
<1> QED BY <1>2, <1>5, <1>9, <1>12 DEF TierInv, StagedOK

LEMMA TierUpdateManifest ==
    ASSUME InputInv, TierInv, UpdateManifest
    PROVE  TierInv'
<1>1. /\ job.pc = "manifest" /\ manifest' = job.manifest /\ torn' = torn \cup DOMAIN job.docs
      /\ UNCHANGED <<deletes, splits, sealed>> /\ job' = [job EXCEPT !.pc = "tombstones"]
  BY DEF UpdateManifest
<1>2. job'.pc = "tombstones" /\ job'.docs = job.docs /\ job'.deletes = job.deletes
  BY <1>1 DEF InputInv, JobShape
<1>3. PICK a : a = job.manifest
  OBVIOUS
<1>4. /\ Sound(a, splits) /\ TombsBelow(a, deletes) /\ TombsBelow(a, job.deletes)
      /\ \A pk \in DOMAIN job.docs : /\ \A t : Hit(a, job.deletes, splits, pk, t) <=> job.docs[pk] = t
                                     /\ Hit(a, deletes, splits, pk, job.docs[pk])
      /\ \A pk \in Pk : pk \notin DOMAIN job.docs =>
            SameAt(job.deletes, deletes, pk) /\ \A t : Hit(a, deletes, splits, pk, t) <=> Hit(manifest, deletes, splits, pk, t)
  BY <1>1, <1>3 DEF TierInv, StagedOK, StagedUpdate, SameHits
<1>5. ASSUME NEW pk \in Pk PROVE Shows(a, deletes, splits, torn', sealed, pk)
  <2>1. CASE pk \in DOMAIN job.docs
    <3>1. job.docs[pk] \in Text
      BY <2>1 DEF InputInv, DocsOK
    <3> QED BY <1>1, <1>4, <2>1, <3>1 DEF Shows
  <2>2. CASE pk \notin DOMAIN job.docs
    <3>1. Shows(manifest, deletes, splits, torn, sealed, pk)
      BY DEF TierInv, TierOK
    <3> QED BY <1>1, <1>4, <2>2, <3>1 DEF Shows
  <2> QED BY <2>1, <2>2
<1>6. StagedTombstones(job', a, deletes, splits)
  BY <1>2, <1>4 DEF StagedTombstones
<1> QED BY <1>1, <1>2, <1>3, <1>4, <1>5, <1>6 DEF TierInv, TierOK, StagedOK

LEMMA TierUpdateTombstones ==
    ASSUME InputInv, TierInv, UpdateTombstones
    PROVE  TierInv'
<1>1. /\ job.pc = "tombstones" /\ deletes' = job.deletes /\ torn' = torn \ DOMAIN job.docs
      /\ sealed' = [pk \in Pk |-> IF pk \in DOMAIN job.docs THEN job.docs[pk] ELSE sealed[pk]]
      /\ UNCHANGED <<manifest, splits>> /\ job'.pc \notin StagedPc
  BY DEF UpdateTombstones, InputInv, JobShape, StagedPc
<1>2. StagedTombstones(job, manifest, deletes, splits) /\ TierOK(manifest, deletes, splits, torn, sealed)
  BY <1>1 DEF TierInv, StagedOK
<1>3. \A pk \in DOMAIN job.docs : pk \in Pk /\ job.docs[pk] \in Text
  BY DEF InputInv, DocsOK
<1>4. ASSUME NEW pk \in Pk PROVE Shows(manifest, job.deletes, splits, torn', sealed', pk)
  <2>1. CASE pk \in DOMAIN job.docs
    BY <1>1, <1>2, <2>1 DEF Shows, StagedTombstones
  <2>2. CASE pk \notin DOMAIN job.docs
    <3>1. SameAt(job.deletes, deletes, pk) /\ Shows(manifest, deletes, splits, torn, sealed, pk)
      BY <1>2, <2>2 DEF StagedTombstones, TierOK
    <3>2. \A t : Hit(manifest, job.deletes, splits, pk, t) <=> Hit(manifest, deletes, splits, pk, t)
      BY <3>1, HitDepends
    <3>3. (pk \in torn' <=> pk \in torn) /\ sealed'[pk] = sealed[pk]
      BY <1>1, <2>2
    <3> QED BY <3>1, <3>2, <3>3 DEF Shows
  <2> QED BY <2>1, <2>2
<1>5. TierOK(manifest, job.deletes, splits, torn', sealed')
  BY <1>2, <1>4 DEF TierOK, StagedTombstones
<1>6. sealed' \in [Pk -> Text \cup {Absent}]
  BY <1>1, <1>3 DEF TierInv
<1> QED BY <1>1, <1>5, <1>6 DEF TierInv, StagedOK, StagedPc

LEMMA TierDelete ==
    ASSUME DurableInv, InputInv, TierInv, SealDelete
    PROVE  TierInv'
<1>1. PICK m \in Loads(manifest), d \in Loads(deletes) :
        deletes' = delete_docs_at(d.value, job.tombs, max_generation(m.value))
  BY DEF SealDelete
<1>2. m.value = manifest /\ d.value = deletes
  BY NoReadFails
<1>3. PICK g, e : g = max_generation(manifest) /\ e = delete_docs_at(deletes, job.tombs, g)
  OBVIOUS
<1>4. /\ deletes' = e /\ torn' = torn \ job.tombs
      /\ sealed' = [pk \in Pk |-> IF pk \in job.tombs THEN Absent ELSE sealed[pk]]
      /\ UNCHANGED <<manifest, splits>> /\ job'.pc = "finish"
  BY <1>1, <1>2, <1>3 DEF SealDelete, InputInv, JobShape
<1>5. TierOK(manifest, deletes, splits, torn, sealed) /\ TombsOK(deletes) /\ \A pk \in DOMAIN deletes : deletes[pk] <= g
  BY <1>3 DEF TierInv, TierOK, TombsBelow
<1>6. g \in Nat /\ g <= g /\ \A i \in DOMAIN manifest : manifest[i].gen \in Nat /\ manifest[i].gen <= g
  BY <1>3, GenerationIsGreatest, ManifestElements DEF DurableInv, Backed, MetaOK
<1>7. /\ TombsOK(e) /\ (\A pk : pk \notin job.tombs => SameAt(e, deletes, pk))
      /\ (\A pk \in job.tombs : pk \in DOMAIN e /\ g <= e[pk]) /\ \A pk \in DOMAIN e : e[pk] <= g
  BY <1>3, <1>5, <1>6, TombstonesRaised
<1>8. ASSUME NEW pk \in Pk PROVE Shows(manifest, e, splits, torn', sealed', pk)
  <2>1. CASE pk \in job.tombs
    <3>1. e[pk] \in Nat /\ g <= e[pk] /\ pk \in DOMAIN e
      BY <1>7, <2>1 DEF TombsOK
    <3>2. \A i \in DOMAIN manifest : is_deleted_at(e, pk, manifest[i].gen)
      BY <1>6, <3>1 DEF is_deleted_at
    <3>3. \A t : ~ Hit(manifest, e, splits, pk, t)
      BY <3>2 DEF Hit
    <3>4. pk \notin torn' /\ sealed'[pk] = Absent
      BY <1>4, <2>1
    <3> QED BY <3>3, <3>4, FtsAssumption DEF Shows
  <2>2. CASE pk \notin job.tombs
    <3>1. SameAt(e, deletes, pk) /\ Shows(manifest, deletes, splits, torn, sealed, pk)
      BY <1>5, <1>7, <2>2 DEF TierOK
    <3>2. \A t : Hit(manifest, e, splits, pk, t) <=> Hit(manifest, deletes, splits, pk, t)
      BY <3>1, HitDepends
    <3>3. (pk \in torn' <=> pk \in torn) /\ sealed'[pk] = sealed[pk]
      BY <1>4, <2>2
    <3> QED BY <3>1, <3>2, <3>3 DEF Shows
  <2> QED BY <2>1, <2>2
<1>9. TierOK(manifest, e, splits, torn', sealed')
  BY <1>3, <1>5, <1>7, <1>8 DEF TierOK, TombsBelow
<1>10. sealed' \in [Pk -> Text \cup {Absent}]
  BY <1>4 DEF TierInv
<1> QED BY <1>4, <1>9, <1>10 DEF TierInv, StagedOK

LEMMA TierCompactPut ==
    ASSUME DurableInv, InputInv, TierInv, CompactPut
    PROVE  TierInv'
<1>0. PICK m \in Loads(manifest), d \in Loads(deletes) :
        LET c == compact(m.value, d.value, splits) IN
        /\ splits' = With(splits, c.id, c.split)
        /\ job' = [IdleJob EXCEPT !.pc = "compact_manifest", !.manifest = c.manifest,
                      !.deletes = c.deletes, !.superseded = c.superseded]
  BY Zenon DEF CompactPut
<1>20. m.value = manifest /\ d.value = deletes
  BY NoReadFails
<1>1. PICK c : c = compact(manifest, deletes, splits)
  OBVIOUS
<1>21. /\ splits' = With(splits, c.id, c.split)
       /\ job' = [IdleJob EXCEPT !.pc = "compact_manifest", !.manifest = c.manifest,
                     !.deletes = c.deletes, !.superseded = c.superseded]
  BY <1>0, <1>1, <1>20
<1>2. /\ splits' = With(splits, c.id, c.split) /\ UNCHANGED <<manifest, deletes, torn, sealed>>
      /\ job'.pc = "compact_manifest" /\ job'.manifest = c.manifest /\ job'.deletes = c.deletes
  BY <1>21 DEF CompactPut, IdleJob, history
<1>3. IsManifest(manifest) /\ Ids(manifest) \subseteq DOMAIN splits
  BY DEF DurableInv, Backed
<1>4. c.id \notin Ids(manifest)
  <2>1. compact(manifest, deletes, splits).id = <<"compacted", max_generation(manifest) + 1>>
    BY CompactParts
  <2> QED BY <1>1, <1>3, <2>1, CompactedIdIsNew
<1>5. /\ \A i \in DOMAIN manifest : splits'[manifest[i].id] = splits[manifest[i].id]
      /\ splits'[c.id] = c.split
  BY <1>2, <1>3, <1>4, PutSplit
<1>6. TierOK(manifest, deletes, splits, torn, sealed)
  BY DEF TierInv
<1>7. /\ TierOK(manifest, deletes, splits', torn, sealed)
      /\ \A pk, t : Hit(manifest, deletes, splits, pk, t) <=> Hit(manifest, deletes, splits', pk, t)
  BY <1>5, <1>6, TierSplits
<1>8. TombsBelow(manifest, deletes) /\ Sound(manifest, splits)
  BY <1>6 DEF TierOK
<1>9. /\ Sound(c.manifest, splits') /\ TombsBelow(c.manifest, deletes) /\ TombsBelow(c.manifest, c.deletes)
      /\ \A pk, t : Hit(c.manifest, deletes, splits', pk, t) <=> Hit(manifest, deletes, splits, pk, t)
      /\ \A pk, t : Hit(c.manifest, c.deletes, splits', pk, t) <=> Hit(manifest, deletes, splits, pk, t)
  BY <1>1, <1>3, <1>5, <1>8, CompactShows
<1>10. StagedCompact(job', manifest, deletes, splits')
  BY <1>2, <1>7, <1>9 DEF StagedCompact, SameHits
<1> QED BY <1>2, <1>7, <1>10 DEF TierInv, StagedOK

LEMMA TierCompactPersist ==
    ASSUME InputInv, TierInv, CompactPersist
    PROVE  TierInv'
<1>1. UNCHANGED <<splits, torn, sealed>>
  BY DEF CompactPersist, history
<1>2. TierOK(manifest, deletes, splits, torn, sealed)
  BY DEF TierInv
<1>3. CASE job.pc = "compact_manifest"
  <2>1. /\ manifest' = job.manifest /\ deletes' = deletes
        /\ job'.pc = "compact_tombstones" /\ job'.deletes = job.deletes
    BY <1>3 DEF CompactPersist, InputInv, JobShape
  <2>2. StagedCompact(job, manifest, deletes, splits)
    BY <1>3 DEF TierInv, StagedOK
  <2>3. \A pk \in Pk : Shows(job.manifest, deletes, splits, torn, sealed, pk)
    BY <1>2, <2>2 DEF StagedCompact, SameHits, Shows, TierOK
  <2>4. TierOK(job.manifest, deletes, splits, torn, sealed)
    BY <2>2, <2>3 DEF TierOK, StagedCompact
  <2>5. StagedClear(job', job.manifest, deletes, splits)
    BY <2>1, <2>2 DEF StagedCompact, SameHits, StagedClear
  <2> QED BY <1>1, <2>1, <2>4, <2>5 DEF TierInv, StagedOK
<1>4. CASE job.pc = "compact_tombstones"
  <2>1. manifest' = manifest /\ deletes' = job.deletes /\ job'.pc = "gc"
    BY <1>4 DEF CompactPersist, InputInv, JobShape
  <2>2. StagedClear(job, manifest, deletes, splits)
    BY <1>4 DEF TierInv, StagedOK
  <2>3. \A pk \in Pk : Shows(manifest, job.deletes, splits, torn, sealed, pk)
    BY <1>2, <2>2 DEF StagedClear, SameHits, Shows, TierOK
  <2>4. TierOK(manifest, job.deletes, splits, torn, sealed)
    BY <1>2, <2>2, <2>3 DEF TierOK, StagedClear
  <2> QED BY <1>1, <2>1, <2>4 DEF TierInv, StagedOK
<1> QED BY <1>3, <1>4 DEF CompactPersist

LEMMA TierCollect ==
    ASSUME DurableInv, InputInv, TierInv, Collect
    PROVE  TierInv'
<1>1. PICK id \in job.superseded :
        /\ splits' = Without(splits, id)
        /\ job' = IF job.superseded = {id} THEN IdleJob ELSE [job EXCEPT !.superseded = @ \ {id}]
  BY DEF Collect
<1>2. job.pc = "gc" /\ UNCHANGED <<manifest, deletes, torn, sealed>>
  BY DEF Collect, history
<1>3. job'.pc \in {"idle", "gc"}
  BY <1>1, <1>2 DEF IdleJob, InputInv, JobShape
<1>4. id \notin Ids(manifest) /\ Ids(manifest) \subseteq DOMAIN splits
  BY <1>1, <1>2 DEF DurableInv, Backed, NothingNamedCollected
<1>5. \A i \in DOMAIN manifest : splits'[manifest[i].id] = splits[manifest[i].id]
  BY <1>1, <1>4, DropSplit
<1>6. TierOK(manifest, deletes, splits, torn, sealed)
  BY DEF TierInv
<1>7. TierOK(manifest, deletes, splits', torn, sealed)
  BY <1>5, <1>6, TierSplits
<1> QED BY <1>2, <1>3, <1>7 DEF TierInv, StagedOK

LEMMA TierNext == DurableInv /\ InputInv /\ TierInv /\ [Next]_vars => TierInv'
<1> SUFFICES ASSUME DurableInv, InputInv, TierInv, [Next]_vars PROVE TierInv'
  OBVIOUS
<1>1. ASSUME NEW w \in Writer, Commit(w) \/ on_commit(w) PROVE TierInv'
  BY <1>1, TierKept DEF Commit, on_commit, on_commit_skip, on_commit_enter, on_commit_apply, durableVars, history
<1>2. ASSUME NEW x \in Searcher, SearchStart(x) \/ union_hits(x) PROVE TierInv'
  BY <1>2, TierKept DEF SearchStart, union_hits, SearchCommit, SearchLive, SearchCovered, SearchManifest,
              SearchDeletes, SearchOpen, SearchEnd, durableVars, history
<1>3. CASE persist_registry
  BY <1>3, TierKept DEF persist_registry, durableVars, history
<1>8. CASE install_def
  <2>1. UNCHANGED <<torn, sealed>>
    BY <1>8 DEF install_def, history
  <2> QED BY <1>8, <2>1, Superseded, TierKept DEF InputInv
<1>4. CASE UNCHANGED vars
  BY <1>4, TierKept DEF vars
<1>5. CASE SealStart \/ SealClear \/ SealEmpty \/ SealFail \/ CompactSkip \/ CompactFail \/ Crash
  <2>1. UNCHANGED <<manifest, deletes, splits, torn, sealed>>
    BY <1>5 DEF SealStart, SealClear, SealEmpty, SealFail, CompactSkip, CompactFail, Crash, durableVars, history
  <2>2. job'.pc \in {"idle", "put", "delete", "finish", "reload", "untomb", "uncover", "open", "compact"}
    <3>1. CASE SealStart
      BY <3>1 DEF SealStart, IdleJob
    <3>2. CASE SealClear \/ SealFail
      BY <3>2 DEF SealClear, SealFail, IdleJob, InputInv, JobShape
    <3>4. CASE SealEmpty
      BY <3>4, EmptySteps DEF IdleJob, InputInv, JobShape
    <3>3. CASE CompactSkip \/ CompactFail \/ Crash
      BY <3>3 DEF CompactSkip, CompactFail, Crash, IdleJob
    <3> QED BY <1>5, <3>1, <3>2, <3>3, <3>4
  <2>3. job'.pc \notin StagedPc
    BY <2>2 DEF StagedPc
  <2> QED BY <2>1, <2>3, TierKept
<1>6. CASE seal
  BY <1>5, <1>6, TierUpdatePut, TierUpdateManifest, TierUpdateTombstones, TierDelete DEF seal
<1>7. CASE maybe_compact
  BY <1>5, <1>7, TierCompactPut, TierCompactPersist, TierCollect DEF maybe_compact
<1> QED BY <1>1, <1>2, <1>3, <1>4, <1>5, <1>6, <1>7, <1>8 DEF Next

LEMMA TierShows == TierInv => SealedVersionsShown
<1> SUFFICES ASSUME TierInv, NEW pk \in Pk
             PROVE  IF pk \in torn THEN Shown(pk) # {} ELSE Shown(pk) = {sealed[pk]} \ {Absent}
  BY DEF SealedVersionsShown
<1>1. Shown(pk) = {t \in Text : Hit(manifest, deletes, splits, pk, t)}
  BY HitsAreDurable DEF Shown
<1>2. Shows(manifest, deletes, splits, torn, sealed, pk) /\ sealed[pk] \in Text \cup {Absent}
  BY DEF TierInv, TierOK
<1> QED BY <1>1, <1>2, FtsAssumption DEF Shows

\* Of every key the durable tier shows the version that its last complete update
\* or delete left, whatever put or end of the process cut an update or a
\* compaction short (FtsIndex::update, delete, maybe_compact), provided no read of
\* a blob fails: load_manifest takes a failed read for an empty index.
THEOREM SealedVersionsStay == MaxReadFaults = 0 /\ Spec => []SealedVersionsShown
<1>1. MaxReadFaults = 0 /\ Init => DurableInv /\ InputInv /\ TierInv
  BY DurableInit, InputInit, TierInit
<1>2. DurableInv /\ InputInv /\ TierInv /\ [Next]_vars => (DurableInv /\ InputInv /\ TierInv)'
  BY DurableNext, InputNext, TierNext
<1> QED BY <1>1, <1>2, TierShows, PTL DEF Spec

-----------------------------------------------------------------------------
(* Changes on their way to the index.                                      *)

Queued(q) == \E w \in Writer : \E i \in DOMAIN todo[w] : todo[w][i] = q

\* The keys of which the index is still to be told something.
Unreported == {pk \in Pk : \E q \in Change : Queued(q) /\ q.pk = pk /\ q.row # Null}

\* The writer in the segment holds the first change of its transaction.
Handing ==
    \/ writer = Nobody
    \/ /\ declared /\ writer.by \in Writer /\ todo[writer.by] # <<>>
       /\ writer.pk = Head(todo[writer.by]).pk /\ writer.row = Head(todo[writer.by]).row

\* A key that has a text again waits for no delete.
PendingInv ==
    /\ Careful
    /\ Handing /\ (registered \/ creating => declared)
    /\ \A pk \in Pk : rows[pk] \in Text => pk \notin Deleting

LEMMA PendingIs ==
    ASSUME NEW pk
    PROVE  pk \in Pending <=> \E q : Queued(q) /\ q.pk = pk
BY DEF Pending, Changes, Queued

LEMMA DeletingIs ==
    ASSUME NEW pk \in Pk
    PROVE  pk \in Deleting <=> Queued([pk |-> pk, row |-> Absent])
BY DEF Deleting, Queued

LEMMA QueueKept ==
    ASSUME todo' = todo
    PROVE  /\ Pending' = Pending /\ Unreported' = Unreported /\ Deleting' = Deleting
BY DEF Pending, Unreported, Deleting, Queued

\* What the index is to be told of waits.
LEMMA UnreportedPends == Unreported \subseteq Pending
BY PendingIs DEF Unreported

LEMMA ElementsOf ==
    ASSUME NEW S, NEW q \in Seq(S)
    PROVE  \A i \in DOMAIN q : q[i] \in S
OBVIOUS

LEMMA QueuedIsChange ==
    ASSUME TodoOK, NEW q, Queued(q)
    PROVE  q \in Change
<1>0. PICK w \in Writer : \E i \in DOMAIN todo[w] : todo[w][i] = q
  BY DEF Queued
<1>1. PICK i \in DOMAIN todo[w] : todo[w][i] = q
  BY <1>0
<1>2. todo[w] \in Seq(Change)
  BY DEF TodoOK
<1> QED BY <1>1, <1>2, ElementsOf

LEMMA PendingInit == Careful /\ Init => PendingInv
<1> SUFFICES ASSUME Careful, Init PROVE PendingInv
  OBVIOUS
<1>1. \A pk \in Pk : rows[pk] = Absent
  BY DEF Init, EmptyTable
<1>2. Handing /\ (registered \/ creating => declared)
  BY DEF Init, Quiet, Handing
<1> QED BY <1>1, <1>2, FtsAssumption DEF PendingInv

LEMMA TailIs ==
    ASSUME NEW S, NEW q \in Seq(S), q # <<>>
    PROVE  /\ 1 \in DOMAIN q /\ Head(q) = q[1]
           /\ \A i \in DOMAIN Tail(q) : i + 1 \in DOMAIN q /\ Tail(q)[i] = q[i + 1]
           /\ \A k \in DOMAIN q : k # 1 => k - 1 \in DOMAIN Tail(q) /\ Tail(q)[k - 1] = q[k]
<1>1. Len(q) \in Nat /\ Len(q) # 0 /\ DOMAIN q = 1..Len(q)
  OBVIOUS
<1>2. Tail(q) \in Seq(S) /\ Len(Tail(q)) = Len(q) - 1 /\ DOMAIN Tail(q) = 1..(Len(q) - 1)
  BY <1>1
<1>3. \A i \in 1..(Len(q) - 1) : Tail(q)[i] = q[i + 1]
  BY <1>1
<1> QED BY <1>1, <1>2, <1>3

\* A transaction's first change is reported: the others still wait.
LEMMA FirstReported ==
    ASSUME TodoOK, NEW w \in Writer, todo[w] # <<>>, todo' = [todo EXCEPT ![w] = Tail(@)]
    PROVE  /\ Queued(Head(todo[w])) /\ Head(todo[w]) \in Change
           /\ \A v \in Writer : v # w => todo'[v] = todo[v]
           /\ \A q : Queued(q)' => Queued(q)
           /\ \A q : Queued(q) => Queued(q)' \/ q = Head(todo[w])
<1>1. todo[w] \in Seq(Change) /\ DOMAIN todo = Writer
  BY DEF TodoOK
<1>2. PICK s, r : s = todo[w] /\ r = Tail(s)
  OBVIOUS
<1>3. /\ 1 \in DOMAIN s /\ Head(s) = s[1]
      /\ \A i \in DOMAIN r : i + 1 \in DOMAIN s /\ r[i] = s[i + 1]
      /\ \A k \in DOMAIN s : k # 1 => k - 1 \in DOMAIN r /\ r[k - 1] = s[k]
  BY <1>1, <1>2, TailIs
<1>4. todo'[w] = r /\ \A v \in Writer : v # w => todo'[v] = todo[v]
  BY <1>1, <1>2
<1>5. Queued(Head(todo[w]))
  BY <1>2, <1>3 DEF Queued
<1>6. ASSUME NEW q, Queued(q)' PROVE Queued(q)
  <2>0. PICK v \in Writer : \E i \in DOMAIN todo'[v] : todo'[v][i] = q
    BY <1>6 DEF Queued
  <2>1. PICK i \in DOMAIN todo'[v] : todo'[v][i] = q
    BY <2>0
  <2>2. CASE v = w
    <3>1. i \in DOMAIN r /\ r[i] = q
      BY <1>4, <2>1, <2>2
    <3>2. i + 1 \in DOMAIN s /\ s[i + 1] = q
      BY <1>3, <3>1
    <3> QED BY <1>2, <3>2 DEF Queued
  <2>3. CASE v # w
    BY <1>4, <2>1, <2>3 DEF Queued
  <2> QED BY <2>2, <2>3
<1>7. ASSUME NEW q, Queued(q), q # Head(todo[w]) PROVE Queued(q)'
  <2>0. PICK v \in Writer : \E k \in DOMAIN todo[v] : todo[v][k] = q
    BY <1>7 DEF Queued
  <2>1. PICK k \in DOMAIN todo[v] : todo[v][k] = q
    BY <2>0
  <2>2. CASE v = w
    <3>1. k \in DOMAIN s /\ s[k] = q /\ k # 1
      BY <1>2, <1>3, <1>7, <2>1, <2>2
    <3>2. k - 1 \in DOMAIN todo'[w] /\ todo'[w][k - 1] = q
      BY <1>3, <1>4, <3>1
    <3> QED BY <3>2 DEF Queued
  <2>3. CASE v # w
    BY <1>4, <2>1, <2>3 DEF Queued
  <2> QED BY <2>2, <2>3
<1>8. Head(todo[w]) \in Change
  BY <1>5, QueuedIsChange
<1> QED BY <1>4, <1>5, <1>6, <1>7, <1>8

LEMMA QueueShrinks ==
    ASSUME TodoOK, NEW w \in Writer, todo[w] # <<>>, todo' = [todo EXCEPT ![w] = Tail(@)]
    PROVE  /\ Head(todo[w]).pk \in Pending /\ Pending' \subseteq Pending
           /\ Unreported' \subseteq Unreported /\ Deleting' \subseteq Deleting
           /\ \A pk \in Unreported \ Unreported' : pk = Head(todo[w]).pk /\ Head(todo[w]).row # Null
<1>1. /\ Queued(Head(todo[w]))
      /\ \A q : Queued(q)' => Queued(q)
      /\ \A q : Queued(q) => Queued(q)' \/ q = Head(todo[w])
  BY FirstReported
<1>2. Head(todo[w]).pk \in Pending
  BY <1>1, PendingIs
<1>3. \A pk : pk \in Pending' <=> \E q : Queued(q)' /\ q.pk = pk
  BY DEF Pending, Changes, Queued
<1>4. Pending' \subseteq Pending
  BY <1>1, <1>3, PendingIs
<1>5. Unreported' \subseteq Unreported
  BY <1>1 DEF Unreported
<1>6. \A pk \in Pk : pk \in Deleting' <=> Queued([pk |-> pk, row |-> Absent])'
  BY DEF Deleting, Queued
<1>7. Deleting' \subseteq Deleting
  BY <1>1, <1>6, DeletingIs DEF Deleting
<1>8. ASSUME NEW pk \in Unreported \ Unreported' PROVE pk = Head(todo[w]).pk /\ Head(todo[w]).row # Null
  <2>1. PICK q \in Change : Queued(q) /\ q.pk = pk /\ q.row # Null
    BY <1>8 DEF Unreported
  <2>2. ~ Queued(q)'
    BY <1>8, <2>1 DEF Unreported
  <2> QED BY <1>1, <2>1, <2>2
<1> QED BY <1>2, <1>4, <1>5, <1>7, <1>8

\* A transaction's changes become visible.
LEMMA ChangesQueued ==
    ASSUME TodoOK, NEW w \in Writer, todo[w] = <<>>, NEW c \in Commits,
           todo' = [todo EXCEPT ![w] = c],
           rows' = [pk \in Pk |-> IF pk \in Changes(c)
                                  THEN c[CHOOSE i \in DOMAIN c : c[i].pk = pk].row ELSE rows[pk]]
    PROVE  /\ \A q : Queued(q)' <=> Queued(q) \/ \E i \in DOMAIN c : c[i] = q
           /\ Pending' = Pending \cup Changes(c) /\ Changes(c) \subseteq Pk
           /\ \A i \in DOMAIN c : c[i] \in Change /\ c[i].pk \in Changes(c) /\ rows'[c[i].pk] = c[i].row
           /\ \A pk \in Changes(c) : \E i \in DOMAIN c : c[i].pk = pk
           /\ \A pk \in Pk \ Changes(c) : rows'[pk] = rows[pk]
<1>1. /\ \A i \in DOMAIN c : c[i] \in Change
      /\ \A i, j \in DOMAIN c : c[i].pk = c[j].pk => i = j
  <2>1. c \in Seq(Change) /\ \A i, j \in DOMAIN c : c[i].pk = c[j].pk => i = j
    BY FtsAssumption DEF Change
  <2>2. \A i \in DOMAIN c : c[i] \in Change
    BY <2>1, ElementsOf
  <2> QED BY <2>1, <2>2
<1>2. todo'[w] = c /\ (\A v \in Writer : v # w => todo'[v] = todo[v]) /\ DOMAIN todo[w] = {}
  BY DEF TodoOK
<1>3. Changes(c) \subseteq Pk /\ \A i \in DOMAIN c : c[i].pk \in Changes(c)
  BY <1>1 DEF Changes, Change
<1>4. ASSUME NEW i \in DOMAIN c PROVE rows'[c[i].pk] = c[i].row
  <2>1. PICK pk : pk = c[i].pk
    OBVIOUS
  <2>2. PICK k : k = CHOOSE j \in DOMAIN c : c[j].pk = pk
    OBVIOUS
  <2>3. k \in DOMAIN c /\ c[k].pk = pk
    BY <2>1, <2>2
  <2>4. k = i
    BY <1>1, <2>1, <2>3
  <2>5. pk \in Changes(c) /\ pk \in Pk
    BY <1>3, <2>1
  <2> QED BY <2>1, <2>2, <2>4, <2>5
<1>5. \A pk \in Pk \ Changes(c) : rows'[pk] = rows[pk]
  OBVIOUS
<1>6. \A q : Queued(q)' <=> Queued(q) \/ \E i \in DOMAIN c : c[i] = q
  <2>1. \A q : Queued(q)' <=> \E v \in Writer : \E i \in DOMAIN todo'[v] : todo'[v][i] = q
    BY DEF Queued
  <2> QED BY <1>2, <2>1 DEF Queued
<1>7. ASSUME NEW pk PROVE pk \in Pending' <=> pk \in Pending \cup Changes(c)
  <2>1. pk \in Pending' <=> \E v \in Writer : \E i \in DOMAIN todo'[v] : todo'[v][i].pk = pk
    BY DEF Pending, Changes
  <2>2. pk \in Changes(c) <=> \E i \in DOMAIN c : c[i].pk = pk
    BY DEF Changes
  <2>3. pk \in Pending <=> \E v \in Writer : \E i \in DOMAIN todo[v] : todo[v][i].pk = pk
    BY DEF Pending, Changes
  <2> QED BY <1>2, <2>1, <2>2, <2>3
<1>8. \A pk \in Changes(c) : \E i \in DOMAIN c : c[i].pk = pk
  BY DEF Changes
<1>9. Pending' = Pending \cup Changes(c)
  BY <1>7
<1> QED BY <1>1, <1>3, <1>4, <1>5, <1>6, <1>8, <1>9

LEMMA PendingCommit ==
    ASSUME InputInv, PendingInv, NEW w \in Writer, Commit(w) \/ on_commit(w)
    PROVE  PendingInv'
<1>0. TodoOK /\ Handing /\ (registered \/ creating => declared) /\ Careful
  BY DEF InputInv, PendingInv
<1>1. CASE Commit(w)
  <2>1. PICK c \in Commits :
          /\ todo[w] = <<>> /\ todo' = [todo EXCEPT ![w] = c] /\ (Careful => Unhurried(c))
          /\ rows' = [pk \in Pk |-> IF pk \in Changes(c)
                                    THEN c[CHOOSE i \in DOMAIN c : c[i].pk = pk].row ELSE rows[pk]]
    BY <1>1 DEF Commit
  <2>2. /\ \A q : Queued(q)' <=> Queued(q) \/ \E i \in DOMAIN c : c[i] = q
        /\ \A i \in DOMAIN c : c[i] \in Change /\ c[i].pk \in Changes(c) /\ rows'[c[i].pk] = c[i].row
        /\ \A pk \in Changes(c) : \E i \in DOMAIN c : c[i].pk = pk
        /\ \A pk \in Pk \ Changes(c) : rows'[pk] = rows[pk]
    BY <1>0, <2>1, ChangesQueued
  <2>3. UNCHANGED <<writer, declared, registered, creating>>
    BY <1>1 DEF Commit
  <2>4. Handing'
    BY <1>0, <2>1, <2>3 DEF Handing, TodoOK
  <2>5. \A i \in DOMAIN c : c[i].row \in Text => c[i].pk \notin Deleting
    BY <1>0, <2>1 DEF Unhurried
  <2>6. ASSUME NEW pk \in Pk, rows'[pk] \in Text PROVE pk \notin Deleting'
    <3>1. PICK q : q = [pk |-> pk, row |-> Absent]
      OBVIOUS
    <3>2. q.pk = pk /\ q.row = Absent
      BY <3>1
    <3>3. pk \in Deleting' <=> Queued(q)'
      BY <3>1 DEF Deleting, Queued
    <3>4. pk \in Deleting <=> Queued(q)
      BY <3>1, DeletingIs
    <3>5. \A i \in DOMAIN c : c[i] # q
      BY <2>2, <2>6, <3>2, FtsAssumption
    <3>6. pk \notin Deleting
      BY <2>2, <2>5, <2>6 DEF PendingInv
    <3> QED BY <2>2, <3>3, <3>4, <3>5, <3>6
  <2> QED BY <1>0, <2>3, <2>4, <2>6 DEF PendingInv
<1>2. CASE on_commit_skip(w)
  <2>1. /\ todo[w] # <<>> /\ todo' = [todo EXCEPT ![w] = Tail(@)]
        /\ ~ declared \/ Head(todo[w]).row = Null
        /\ UNCHANGED <<rows, writer, declared, registered, creating>>
    BY <1>2 DEF on_commit_skip
  <2>2. Deleting' \subseteq Deleting /\ \A v \in Writer : v # w => todo'[v] = todo[v]
    BY <1>0, <2>1, FirstReported, QueueShrinks
  <2>3. writer # Nobody => writer.by # w
    BY <1>0, <2>1, FtsAssumption DEF Handing, InputInv, WriterOK
  <2>4. Handing'
    BY <1>0, <2>1, <2>2, <2>3 DEF Handing
  <2> QED BY <1>0, <2>1, <2>2, <2>4 DEF PendingInv
<1>3. CASE on_commit_enter(w)
  <2>1. /\ UNCHANGED <<rows, todo, declared, registered, creating>> /\ declared /\ todo[w] # <<>>
        /\ writer' = [pk |-> Head(todo[w]).pk, row |-> Head(todo[w]).row, by |-> w]
    BY <1>3 DEF on_commit_enter
  <2>2. writer'.by = w /\ writer'.pk = Head(todo[w]).pk /\ writer'.row = Head(todo[w]).row
    BY <2>1
  <2> QED BY <1>0, <2>1, <2>2, QueueKept DEF PendingInv, Handing
<1>4. CASE on_commit_apply(w)
  <2>1. /\ writer # Nobody /\ writer.by = w /\ todo' = [todo EXCEPT ![w] = Tail(@)] /\ writer' = Nobody
        /\ UNCHANGED <<rows, declared, registered, creating>>
    BY <1>4 DEF on_commit_apply
  <2>2. todo[w] # <<>>
    BY <1>0, <2>1 DEF Handing
  <2>3. Deleting' \subseteq Deleting
    BY <1>0, <2>1, <2>2, QueueShrinks
  <2> QED BY <1>0, <2>1, <2>3 DEF PendingInv, Handing
<1> QED BY <1>1, <1>2, <1>3, <1>4 DEF on_commit

LEMMA PendingNext == InputInv /\ PendingInv /\ [Next]_vars => PendingInv'
<1> SUFFICES ASSUME InputInv, PendingInv, [Next]_vars PROVE PendingInv'
  OBVIOUS
<1>1. ASSUME UNCHANGED <<rows, todo, writer>>, declared => declared', registered' \/ creating' => declared'
      PROVE  PendingInv'
  BY <1>1, QueueKept DEF PendingInv, Handing
<1>2. CASE install_def \/ persist_registry
  <2>1. UNCHANGED <<rows, todo, writer>> /\ (declared => declared') /\ (registered' \/ creating' => declared')
    BY <1>2 DEF install_def, persist_registry, PendingInv
  <2> QED BY <1>1, <2>1
<1>3. CASE seal \/ SealFail \/ maybe_compact \/ CompactFail
  <2>1. UNCHANGED <<rows, todo, writer, declared, registered, creating>>
    BY <1>3 DEF seal, SealStart, UpdatePut, UpdateManifest, UpdateTombstones, SealDelete, SealClear, SealEmpty, SealFail,
           maybe_compact, CompactSkip, CompactPut, CompactPersist, Collect, CompactFail
  <2> QED BY <1>1, <2>1 DEF PendingInv
<1>4. ASSUME NEW x \in Searcher, SearchStart(x) \/ union_hits(x) PROVE PendingInv'
  <2>1. UNCHANGED <<rows, todo, writer, declared, registered, creating>>
    BY <1>4 DEF SearchStart, union_hits, SearchCommit, SearchLive, SearchCovered, SearchManifest,
              SearchDeletes, SearchOpen, SearchEnd
  <2> QED BY <1>1, <2>1 DEF PendingInv
<1>5. CASE Crash
  <2>1. /\ writer' = Nobody /\ declared' = registered /\ creating' = FALSE /\ registered' = registered
        /\ todo' = [w \in Writer |-> <<>>]
    BY <1>5 DEF Crash
  <2>2. \A w \in Writer : todo'[w] = <<>>
    BY <2>1
  <2>3. DOMAIN <<>> = {}
    OBVIOUS
  <2>4. Deleting' = {}
    BY <2>2, <2>3 DEF Deleting
  <2> QED BY <2>1, <2>4 DEF PendingInv, Handing
<1>6. CASE UNCHANGED vars
  BY <1>1, <1>6 DEF vars, PendingInv
<1> QED BY <1>2, <1>3, <1>4, <1>5, <1>6, PendingCommit DEF Next

-----------------------------------------------------------------------------
(* The two tiers together agree with the table.                            *)

Gone == lost \cup astray

\* What the live segment holds it covers.
SegmentOK ==
    /\ live.tombs \subseteq live.covered /\ DOMAIN live.docs \subseteq live.covered
    /\ DOMAIN live.visible \subseteq live.covered /\ live.covered \subseteq Pk

SnapshotPc == {"put", "manifest", "tombstones", "delete", "finish"}
EmptyPc == {"reload", "untomb", "uncover", "open"}

\* A seal's snapshot is of keys that stay covered until it is finished, or are given up
\* with their segment; its documents are sealed before its deletes, and both before
\* the segment is emptied.  The gate of the segment sealed is closed.
SnapshotOK ==
    /\ job.pc # "idle" => declared
    /\ job.own /\ job.pc \in SnapshotPc \cup EmptyPc => live.sealing
    /\ job.pc \in SnapshotPc =>
          /\ DOMAIN job.docs \subseteq live.covered \cup lost /\ job.tombs \subseteq live.covered \cup lost
          /\ DOMAIN job.docs \cap job.tombs = {} /\ job.tombs \subseteq Pk
    /\ job.pc \in {"delete", "finish"} => \A pk \in DOMAIN job.docs : pk \notin torn /\ sealed[pk] = job.docs[pk]
    /\ job.pc = "finish" => \A pk \in job.tombs : pk \notin torn /\ sealed[pk] = Absent

\* The segment is emptied piece by piece, and nobody writes to it; what it still
\* covers is sealed.
EmptyingOK ==
    job.own =>
        /\ job.pc \in EmptyPc => writer = Nobody /\ DOMAIN live.docs = {}
        /\ job.pc \in {"untomb", "uncover", "open"} => DOMAIN live.visible = {}
        /\ job.pc \in {"uncover", "open"} => live.tombs = {}
        /\ job.pc = "open" => live.covered = {}
        /\ job.pc \in {"reload", "untomb", "uncover"} =>
              \A pk \in live.covered \ astray : pk \notin torn /\ sealed[pk] = Snapshot(pk)

\* What the segment was told of a key, or what is sealed of one it does not cover, and
\* whether that agrees with its row.
Index(pk) == IF pk \in live.covered THEN Told(live, pk) ELSE sealed[pk]
Agrees(pk) == \A t \in Text : Index(pk) = t <=> rows[pk] = t

\* A key the index was told of is covered, or whole in the durable tier; unless a
\* change of it is on its way, the index agrees with its row.
KeyOK(pk) ==
    /\ pk \notin live.covered => pk \notin torn
    /\ pk \notin Unreported => Agrees(pk)

IndexInv ==
    /\ Careful /\ Excused = Disputes
    /\ SegmentOK /\ SnapshotOK /\ EmptyingOK
    /\ declared => \A pk \in Pk : rows[pk] \in Text => pk \notin live.tombs
    /\ declared => \A pk \in Pk \ Gone : KeyOK(pk)

LEMMA Excusing ==
    ASSUME Excused = Disputes, NEW kind \in Disputes, NEW S
    PROVE  Excuse(kind, S) = S
BY DEF Excuse

LEMMA IndexInit == Careful /\ Excused = Disputes /\ Init => IndexInv
<1> SUFFICES ASSUME Careful, Excused = Disputes, Init PROVE IndexInv
  OBVIOUS
<1>1. live = NewSegment /\ ~ declared /\ job = IdleJob
  BY DEF Init, EmptyTable, Quiet
<1>2. DOMAIN <<>> = {}
  OBVIOUS
<1>3. job.pc = "idle"
  BY <1>1 DEF IdleJob
<1>4. SegmentOK
  BY <1>1, <1>2 DEF NewSegment, SegmentOK
<1> QED BY <1>1, <1>3, <1>4 DEF IndexInv, SnapshotOK, EmptyingOK, SnapshotPc, EmptyPc

\* What decides of a key: the segment told of it, the versions sealed.
LEMMA IndexSame ==
    ASSUME NEW pk, live'.docs = live.docs, live'.tombs = live.tombs, live'.covered = live.covered,
           sealed'[pk] = sealed[pk] \/ pk \in live.covered,
           (~ Emptying /\ ~ Emptying') \/ UNCHANGED job
    PROVE  Index(pk)' = Index(pk)
<1>1. LiveVersion(live', pk) = LiveVersion(live, pk)
  BY DEF LiveVersion
<1>2. job' = job => (Emptying' <=> Emptying) /\ Snapshot(pk)' = Snapshot(pk)
  BY DEF Emptying, Snapshot
<1>3. Index(pk)' = IF pk \in live'.covered THEN (IF Emptying' THEN Snapshot(pk)' ELSE LiveVersion(live', pk)) ELSE sealed'[pk]
  BY DEF Index, Told, LiveVersion
<1> QED BY <1>1, <1>2, <1>3 DEF Index, Told

LEMMA IndexUncovered ==
    ASSUME NEW pk
    PROVE  /\ pk \notin live.covered => Index(pk) = sealed[pk]
           /\ pk \notin live'.covered => Index(pk)' = sealed'[pk]
           /\ pk \in live.covered /\ ~ Emptying => Index(pk) = LiveVersion(live, pk)
           /\ pk \in live'.covered /\ ~ Emptying' => Index(pk)' = LiveVersion(live', pk)
           /\ pk \in live.covered /\ Emptying => Index(pk) = Snapshot(pk)
           /\ pk \in live'.covered /\ Emptying' => Index(pk)' = Snapshot(pk)'
BY DEF Index, Told, LiveVersion

LEMMA IndexCommit ==
    ASSUME InputInv, PendingInv, IndexInv, NEW w \in Writer, Commit(w)
    PROVE  IndexInv'
<1>1. PICK c \in Commits :
        /\ todo[w] = <<>> /\ todo' = [todo EXCEPT ![w] = c]
        /\ Careful => Unhurried(c)
        /\ rows' = [pk \in Pk |-> IF pk \in Changes(c)
                                  THEN c[CHOOSE i \in DOMAIN c : c[i].pk = pk].row ELSE rows[pk]]
  BY DEF Commit
<1>2. UNCHANGED <<live, declared, job, torn, sealed, lost, astray, writer>>
  BY DEF Commit, history, excuses
<1>3. /\ \A q : Queued(q)' <=> Queued(q) \/ \E i \in DOMAIN c : c[i] = q
      /\ \A i \in DOMAIN c : c[i] \in Change /\ c[i].pk \in Changes(c) /\ rows'[c[i].pk] = c[i].row
      /\ \A pk \in Changes(c) : \E i \in DOMAIN c : c[i].pk = pk
      /\ \A pk \in Pk \ Changes(c) : rows'[pk] = rows[pk]
  BY <1>1, ChangesQueued DEF InputInv
<1>4. \A i \in DOMAIN c : /\ c[i].row \in Text => ~ (declared /\ c[i].pk \in live.tombs)
                          /\ c[i].row = Null => rows[c[i].pk] = Absent
  BY <1>1 DEF Unhurried, IndexInv
<1>5. ASSUME declared, NEW pk \in Pk, rows'[pk] \in Text PROVE pk \notin live.tombs
  <2>1. CASE pk \in Changes(c)
    BY <1>3, <1>4, <1>5, <2>1
  <2>2. CASE pk \notin Changes(c)
    BY <1>3, <1>5, <2>2 DEF IndexInv
  <2> QED BY <2>1, <2>2
<1>6. ASSUME declared, NEW pk \in Pk \ Gone PROVE KeyOK(pk)'
  <2>1. KeyOK(pk)
    BY <1>6 DEF IndexInv
  <2>2. Index(pk)' = Index(pk)
    BY <1>2, IndexSame
  <2>3. pk \notin Unreported' => pk \notin Unreported
    BY <1>3 DEF Unreported
  <2>4. ASSUME pk \notin Unreported' PROVE \A t \in Text : rows'[pk] = t <=> rows[pk] = t
    <3>1. CASE pk \notin Changes(c)
      BY <1>3, <3>1
    <3>2. CASE pk \in Changes(c)
      <4>1. PICK i \in DOMAIN c : c[i].pk = pk
        BY <1>3, <3>2
      <4>2. Queued(c[i])' /\ c[i] \in Change
        BY <1>3, <4>1
      <4>3. c[i].row = Null
        BY <2>4, <4>1, <4>2 DEF Unreported
      <4>4. rows'[pk] = Null /\ rows[pk] = Absent
        BY <1>3, <1>4, <4>1, <4>3
      <4> QED BY <4>4, FtsAssumption
    <3> QED BY <3>1, <3>2
  <2>5. pk \notin Unreported' => Agrees(pk)'
    <3>1. ASSUME pk \notin Unreported', NEW t \in Text PROVE Index(pk)' = t <=> rows'[pk] = t
      BY <2>1, <2>2, <2>3, <2>4, <3>1 DEF KeyOK, Agrees
    <3> QED BY <3>1 DEF Agrees
  <2>6. pk \notin live'.covered => pk \notin torn'
    BY <1>2, <2>1 DEF KeyOK
  <2> QED BY <2>5, <2>6 DEF KeyOK
<1>7. SegmentOK' /\ SnapshotOK' /\ EmptyingOK'
  BY <1>2 DEF IndexInv, SegmentOK, SnapshotOK, EmptyingOK, Snapshot
<1>8. Gone' = Gone
  BY <1>2 DEF Gone
<1> QED BY <1>2, <1>5, <1>6, <1>7, <1>8 DEF IndexInv

\* A step that keeps the rows and what waits, and of every key it does not give up what
\* the index says.
LEMMA IndexKept ==
    ASSUME IndexInv, rows' = rows, Unreported' = Unreported, Gone \subseteq Gone', declared' => declared,
           SegmentOK', SnapshotOK', EmptyingOK', live'.tombs \subseteq live.tombs,
           \A pk \in Pk \ Gone' : declared /\ KeyOK(pk) =>
               Index(pk)' = Index(pk) /\ (pk \notin live'.covered => pk \notin torn')
    PROVE  IndexInv'
<1>1. ASSUME declared', NEW pk \in Pk \ Gone' PROVE KeyOK(pk)'
  <2>1. KeyOK(pk) /\ Index(pk)' = Index(pk) /\ (pk \notin live'.covered => pk \notin torn')
    BY <1>1 DEF IndexInv
  <2>2. Agrees(pk) => Agrees(pk)'
    <3>1. ASSUME Agrees(pk), NEW t \in Text PROVE Index(pk)' = t <=> rows'[pk] = t
      BY <2>1, <3>1 DEF Agrees
    <3> QED BY <3>1 DEF Agrees
  <2> QED BY <2>1, <2>2 DEF KeyOK
<1> QED BY <1>1 DEF IndexInv

LEMMA IndexSkip ==
    ASSUME InputInv, PendingInv, IndexInv, NEW w \in Writer, on_commit_skip(w)
    PROVE  IndexInv'
<1>1. /\ todo[w] # <<>> /\ todo' = [todo EXCEPT ![w] = Tail(@)]
      /\ ~ declared \/ Head(todo[w]).row = Null
      /\ UNCHANGED <<rows, live, declared, job, torn, sealed, astray, writer>> /\ lost \subseteq lost'
  BY DEF on_commit_skip, history
<1>2. SegmentOK' /\ EmptyingOK'
  BY <1>1 DEF IndexInv, SegmentOK, EmptyingOK, Snapshot
<1>3. SnapshotOK'
  BY <1>1 DEF IndexInv, SnapshotOK
<1>4. CASE declared
  <2>1. Unreported' = Unreported
    BY <1>1, <1>4, QueueShrinks DEF InputInv
  <2>2. \A pk \in Pk \ Gone' : KeyOK(pk) => Index(pk)' = Index(pk) /\ (pk \notin live'.covered => pk \notin torn')
    BY <1>1, IndexSame DEF KeyOK
  <2>3. Gone \subseteq Gone'
    BY <1>1 DEF Gone
  <2> QED BY <1>1, <1>2, <1>3, <2>1, <2>2, <2>3, IndexKept
<1>5. CASE ~ declared
  BY <1>1, <1>2, <1>3, <1>5 DEF IndexInv
<1> QED BY <1>4, <1>5

\* A change comes into the segment: the key shows its row, or is given up.
LEMMA IndexApply ==
    ASSUME InputInv, PendingInv, IndexInv, NEW w \in Writer, on_commit_apply(w)
    PROVE  IndexInv'
<1>1. /\ writer # Nobody /\ writer.by = w /\ todo' = [todo EXCEPT ![w] = Tail(@)]
      /\ UNCHANGED <<rows, declared, job, torn, sealed>>
      /\ live' = IF writer.row = Absent THEN SegmentTombstone(live, writer.pk)
                 ELSE SegmentIndex(live, writer.pk, writer.row)
      /\ IF writer.row = TextOf(rows[writer.pk])
         THEN lost' = lost \ {writer.pk} /\ astray' = astray \ {writer.pk}
         ELSE astray' = astray \cup Excuse("reordered", {writer.pk}) /\ UNCHANGED lost
  BY DEF on_commit_apply, history
<1>2. PICK k, r : k = writer.pk /\ r = writer.row
  OBVIOUS
<1>3. declared /\ todo[w] # <<>> /\ k = Head(todo[w]).pk /\ r = Head(todo[w]).row
  BY <1>1, <1>2 DEF PendingInv, Handing
<1>4. k \in Pk /\ r \in Text \cup {Absent}
  BY <1>1, <1>2 DEF InputInv, WriterOK
<1>5. Unreported' \subseteq Unreported /\ \A pk \in Unreported : pk # k => pk \in Unreported'
  BY <1>1, <1>3, QueueShrinks DEF InputInv
<1>6. IF r = TextOf(rows[k]) THEN lost' = lost \ {k} /\ astray' = astray \ {k}
      ELSE astray' = astray \cup {k} /\ lost' = lost
  BY <1>1, <1>2, Excusing DEF IndexInv, Disputes
<1>7. /\ live'.covered = live.covered \cup {k} /\ live'.visible = live.visible /\ live'.sealing = live.sealing
      /\ live'.tombs = IF r = Absent THEN live.tombs \cup {k} ELSE live.tombs
      /\ live'.docs = IF r = Absent THEN Without(live.docs, k) ELSE With(live.docs, k, r)
  <2>1. CASE r = Absent
    <3>1. live' = SegmentTombstone(live, k)
      BY <1>1, <1>2, <2>1
    <3> QED BY <2>1, <3>1 DEF SegmentTombstone, InputInv, LiveOK, LiveShape
  <2>2. CASE r # Absent
    <3>1. live' = SegmentIndex(live, k, r)
      BY <1>1, <1>2, <2>2
    <3> QED BY <2>2, <3>1 DEF SegmentIndex, InputInv, LiveOK, LiveShape
  <2> QED BY <2>1, <2>2
<1>8. /\ DOMAIN live'.docs = IF r = Absent THEN DOMAIN live.docs \ {k} ELSE DOMAIN live.docs \cup {k}
      /\ \A pk \in DOMAIN live'.docs : live'.docs[pk] = IF pk = k THEN r ELSE live.docs[pk]
  BY <1>7 DEF Without, With, Restrict
<1>9. SegmentOK'
  BY <1>4, <1>7, <1>8 DEF IndexInv, SegmentOK
<1>10. ~ (job.own /\ job.pc \in EmptyPc)
  BY <1>1 DEF IndexInv, EmptyingOK
<1>11. ~ Emptying /\ ~ Emptying'
  BY <1>1, <1>10 DEF Emptying, EmptyPc
<1>12. SnapshotOK'
  <2>1. live.covered \cup lost \subseteq live'.covered \cup lost'
    BY <1>6, <1>7
  <2> QED BY <1>1, <1>7, <2>1 DEF IndexInv, SnapshotOK
<1>13. EmptyingOK'
  BY <1>1, <1>10 DEF EmptyingOK, EmptyPc
<1>14. r = Absent => rows[k] \notin Text
  <2>1. ASSUME r = Absent PROVE k \in Deleting
    <3>1. PICK h : h = Head(todo[w])
      OBVIOUS
    <3>2. h \in Change /\ Queued(h) /\ h.pk = k /\ h.row = Absent
      BY <1>1, <1>3, <2>1, <3>1, FirstReported DEF InputInv
    <3>3. h = [pk |-> k, row |-> Absent]
      BY <3>2 DEF Change
    <3> QED BY <1>4, <3>2, <3>3, DeletingIs
  <2> QED BY <1>4, <2>1 DEF PendingInv
<1>15. ASSUME NEW pk \in Pk, rows[pk] \in Text PROVE pk \notin live'.tombs
  BY <1>3, <1>7, <1>14, <1>15 DEF IndexInv
<1>16. ASSUME r = TextOf(rows[k]) PROVE Agrees(k)'
  <2>1. Index(k)' = LiveVersion(live', k)
    BY <1>7, <1>11, IndexUncovered
  <2>2. LiveVersion(live', k) = r
    <3>1. CASE r = Absent
      BY <1>7, <3>1 DEF LiveVersion
    <3>2. CASE r # Absent
      <4>1. rows[k] \in Text
        BY <1>16, <3>2 DEF TextOf
      <4>2. k \notin live'.tombs
        BY <1>4, <1>15, <4>1
      <4> QED BY <1>8, <3>2, <4>2 DEF LiveVersion
    <3> QED BY <3>1, <3>2
  <2>3. \A t \in Text : r = t <=> rows'[k] = t
    BY <1>1, <1>16, FtsAssumption DEF TextOf
  <2> QED BY <2>1, <2>2, <2>3 DEF Agrees
<1>17. ASSUME NEW pk \in Pk, pk # k PROVE Index(pk)' = Index(pk)
  <2>1. LiveVersion(live', pk) = LiveVersion(live, pk)
    BY <1>7, <1>8, <1>17 DEF LiveVersion
  <2> QED BY <1>1, <1>7, <1>11, <1>17, <2>1, IndexUncovered
<1>18. ASSUME NEW pk \in Pk \ Gone' PROVE KeyOK(pk)'
  <2>1. CASE pk = k
    <3>1. r = TextOf(rows[k])
      BY <1>6, <1>18, <2>1 DEF Gone
    <3> QED BY <1>7, <1>16, <2>1, <3>1 DEF KeyOK
  <2>2. CASE pk # k
    <3>1. KeyOK(pk)
      BY <1>3, <1>6, <1>18, <2>2 DEF IndexInv, Gone
    <3>2. Agrees(pk) => Agrees(pk)'
      <4>1. ASSUME Agrees(pk), NEW t \in Text PROVE Index(pk)' = t <=> rows'[pk] = t
        BY <1>1, <1>17, <2>2, <4>1 DEF Agrees
      <4> QED BY <4>1 DEF Agrees
    <3> QED BY <1>1, <1>5, <1>7, <2>2, <3>1, <3>2 DEF KeyOK
  <2> QED BY <2>1, <2>2
<1> QED BY <1>1, <1>3, <1>9, <1>12, <1>13, <1>15, <1>18 DEF IndexInv

LEMMA NewSegmentEmpty ==
    /\ NewSegment.docs = <<>> /\ NewSegment.visible = <<>> /\ NewSegment.tombs = {} /\ NewSegment.covered = {}
    /\ DOMAIN <<>> = {}
BY DEF NewSegment

\* An index is declared: what the table holds, what the splits show and what the
\* old segment covered is given up.
LEMMA IndexInstall ==
    ASSUME InputInv, TierInv, IndexInv, install_def
    PROVE  IndexInv'
<1>1. /\ live' = NewSegment /\ declared'
      /\ lost' = IF declared THEN lost \cup live.covered ELSE {pk \in Pk : rows[pk] # Absent \/ Shown(pk) # {}}
      /\ UNCHANGED <<rows, todo, torn, sealed, astray>>
  BY DEF install_def, history
<1>2. SegmentOK' /\ live'.tombs = {} /\ live'.covered = {}
  BY <1>1, NewSegmentEmpty DEF SegmentOK
<1>3. job'.pc = job.pc /\ job'.docs = job.docs /\ job'.tombs = job.tombs /\ job'.own = FALSE
  BY Superseded DEF InputInv
<1>4. SnapshotOK'
  <2>1. job.pc \in SnapshotPc => declared
    BY DEF IndexInv, SnapshotOK, SnapshotPc
  <2>2. declared => live.covered \cup lost \subseteq live'.covered \cup lost'
    BY <1>1
  <2> QED BY <1>1, <1>3, <2>1, <2>2 DEF IndexInv, SnapshotOK
<1>5. EmptyingOK'
  BY <1>3 DEF EmptyingOK
<1>6. ASSUME NEW pk \in Pk \ Gone' PROVE KeyOK(pk)'
  <2>1. Index(pk)' = sealed[pk]
    BY <1>1, <1>2, IndexUncovered
  <2>2. CASE declared
    <3>1. pk \notin live.covered /\ KeyOK(pk)
      BY <1>1, <1>6, <2>2 DEF IndexInv, Gone
    <3>2. Index(pk) = sealed[pk]
      BY <3>1, IndexUncovered
    <3>3. Agrees(pk) => Agrees(pk)'
      BY <1>1, <2>1, <3>2 DEF Agrees
    <3> QED BY <1>1, <3>1, <3>3, QueueKept DEF KeyOK
  <2>3. CASE ~ declared
    <3>1. rows[pk] = Absent /\ Shown(pk) = {}
      BY <1>1, <1>6, <2>3 DEF Gone
    <3>2. \A t \in Text : ~ Hit(manifest, deletes, splits, pk, t)
      BY <3>1, HitsAreDurable DEF Shown
    <3>3. Shows(manifest, deletes, splits, torn, sealed, pk)
      BY DEF TierInv, TierOK
    <3>4. pk \notin torn /\ \A t \in Text : sealed[pk] # t
      BY <3>2, <3>3 DEF Shows
    <3>5. Agrees(pk)'
      BY <1>1, <2>1, <3>1, <3>4, FtsAssumption DEF Agrees
    <3> QED BY <1>1, <3>4, <3>5 DEF KeyOK
  <2> QED BY <2>2, <2>3
<1> QED BY <1>2, <1>4, <1>5, <1>6 DEF IndexInv

LEMMA IndexSealStart ==
    ASSUME InputInv, IndexInv, SealStart
    PROVE  IndexInv'
<1>1. UNCHANGED <<rows, todo, declared, torn, sealed, lost, astray>> /\ declared /\ job.pc = "idle"
  BY DEF SealStart, history, excuses
<1>2. PICK s : /\ s = live \/ s = commit_and_reload(live)
               /\ live' = [s EXCEPT !.sealing = TRUE, !.dirty = FALSE]
               /\ job' = [IdleJob EXCEPT !.pc = IF DOMAIN s.visible \ s.tombs # {} THEN "put"
                                      ELSE IF s.tombs # {} THEN "delete" ELSE "finish",
                   !.docs = Restrict(s.visible, DOMAIN s.visible \ s.tombs), !.tombs = s.tombs]
  BY DEF SealStart
<1>3. /\ s = [docs |-> s.docs, visible |-> s.visible, tombs |-> s.tombs,
              covered |-> s.covered, dirty |-> s.dirty, sealing |-> s.sealing]
      /\ s.docs = live.docs /\ s.tombs = live.tombs /\ s.covered = live.covered
      /\ s.visible = live.visible \/ s.visible = live.docs
  BY <1>2 DEF InputInv, LiveOK, LiveShape, commit_and_reload
<1>4. /\ live'.docs = live.docs /\ live'.tombs = live.tombs /\ live'.covered = live.covered
      /\ live'.visible = s.visible /\ DOMAIN s.visible \subseteq live.covered /\ live'.sealing = TRUE
  BY <1>2, <1>3 DEF IndexInv, SegmentOK
<1>5. SegmentOK'
  BY <1>4 DEF IndexInv, SegmentOK
<1>6. /\ job'.docs = Restrict(s.visible, DOMAIN s.visible \ s.tombs) /\ job'.tombs = live.tombs
      /\ job'.pc = IF DOMAIN s.visible \ s.tombs # {} THEN "put" ELSE IF s.tombs # {} THEN "delete" ELSE "finish"
  BY <1>2, <1>3 DEF IdleJob
<1>7. DOMAIN job'.docs = DOMAIN s.visible \ live.tombs
  BY <1>3, <1>6 DEF Restrict
<1>8. SnapshotOK'
  <2>1. job'.pc \in {"delete", "finish"} => DOMAIN job'.docs = {}
    BY <1>3, <1>6, <1>7
  <2>2. job'.pc = "finish" => job'.tombs = {}
    BY <1>3, <1>6
  <2>3. /\ DOMAIN job'.docs \subseteq live'.covered /\ job'.tombs \subseteq live'.covered
        /\ DOMAIN job'.docs \cap job'.tombs = {} /\ job'.tombs \subseteq Pk
    BY <1>4, <1>6, <1>7 DEF IndexInv, SegmentOK
  <2> QED BY <1>1, <1>4, <2>1, <2>2, <2>3 DEF SnapshotOK
<1>9. job'.pc \notin EmptyPc /\ ~ Emptying /\ ~ Emptying'
  BY <1>1, <1>6 DEF Emptying, EmptyPc
<1>10. EmptyingOK'
  BY <1>9 DEF EmptyingOK, EmptyPc
<1>11. \A pk \in Pk : KeyOK(pk) => Index(pk)' = Index(pk) /\ (pk \notin live'.covered => pk \notin torn')
  BY <1>1, <1>4, <1>9, IndexSame DEF KeyOK
<1>12. Gone' = Gone
  BY <1>1 DEF Gone
<1> QED BY <1>1, <1>4, <1>5, <1>8, <1>10, <1>11, <1>12, IndexKept, QueueKept

\* The puts of a seal change the durable versions of keys that are covered, or given up.
LEMMA IndexPuts ==
    ASSUME InputInv, IndexInv, UpdatePut \/ UpdateManifest \/ UpdateTombstones \/ SealDelete
    PROVE  IndexInv'
<1>1. UNCHANGED <<rows, todo, live, declared, lost, astray, writer>>
  BY DEF UpdatePut, UpdateManifest, UpdateTombstones, SealDelete, excuses
<1>2. SegmentOK'
  BY <1>1 DEF IndexInv, SegmentOK
<1>3. /\ job'.docs = job.docs /\ job'.tombs = job.tombs /\ job'.own = job.own
      /\ job.pc \in {"put", "manifest", "tombstones", "delete"}
      /\ job'.pc \in SnapshotPc
      /\ job'.pc \in {"delete", "finish"} => job.pc \in {"tombstones", "delete"}
      /\ job'.pc = "finish" => job.pc = "delete" \/ job.tombs = {}
  <2>1. CASE UpdatePut
    <3>1. \E a, e : job' = [job EXCEPT !.pc = "manifest", !.manifest = a, !.deletes = e]
      BY <2>1, Zenon DEF UpdatePut
    <3>2. job.pc = "put"
      BY <2>1 DEF UpdatePut
    <3> QED BY <3>1, <3>2 DEF InputInv, JobShape, SnapshotPc
  <2>2. CASE UpdateManifest \/ UpdateTombstones \/ SealDelete
    BY <2>2 DEF UpdateManifest, UpdateTombstones, SealDelete, InputInv, JobShape, SnapshotPc
  <2> QED BY <2>1, <2>2
<1>4. /\ job.pc \in SnapshotPc /\ declared /\ (job.own => live.sealing)
      /\ DOMAIN job.docs \subseteq live.covered \cup lost /\ job.tombs \subseteq live.covered \cup lost
      /\ DOMAIN job.docs \cap job.tombs = {} /\ DOMAIN job.docs \subseteq Pk
      /\ job.tombs \subseteq Pk
  BY <1>3 DEF IndexInv, SnapshotOK, SnapshotPc, InputInv, DocsOK
<1>5. \A pk \in Pk : pk \notin live.covered \cup lost => (pk \in torn' <=> pk \in torn) /\ sealed'[pk] = sealed[pk]
  <2>1. CASE UpdatePut
    BY <2>1 DEF UpdatePut, history
  <2>2. CASE UpdateManifest
    BY <1>4, <2>2 DEF UpdateManifest
  <2>3. CASE UpdateTombstones
    BY <1>4, <2>3 DEF UpdateTombstones
  <2>4. CASE SealDelete
    BY <1>4, <2>4 DEF SealDelete
  <2> QED BY <2>1, <2>2, <2>3, <2>4
<1>6. /\ job'.pc \in {"delete", "finish"} => \A pk \in DOMAIN job.docs : pk \notin torn' /\ sealed'[pk] = job.docs[pk]
      /\ job'.pc = "finish" => \A pk \in job.tombs : pk \notin torn' /\ sealed'[pk] = Absent
  <2>1. CASE UpdatePut \/ UpdateManifest
    BY <1>3, <2>1 DEF UpdatePut, UpdateManifest
  <2>2. CASE UpdateTombstones
    <3>1. /\ job.pc = "tombstones" /\ torn' = torn \ DOMAIN job.docs
          /\ sealed' = [pk \in Pk |-> IF pk \in DOMAIN job.docs THEN job.docs[pk] ELSE sealed[pk]]
      BY <2>2 DEF UpdateTombstones
    <3> QED BY <1>3, <1>4, <3>1
  <2>3. CASE SealDelete
    <3>1. /\ job.pc = "delete" /\ torn' = torn \ job.tombs
          /\ sealed' = [pk \in Pk |-> IF pk \in job.tombs THEN Absent ELSE sealed[pk]]
      BY <2>3 DEF SealDelete
    <3>2. \A pk \in DOMAIN job.docs : pk \notin torn' /\ sealed'[pk] = job.docs[pk]
      BY <1>4, <3>1 DEF IndexInv, SnapshotOK
    <3> QED BY <1>4, <3>1, <3>2
  <2> QED BY <2>1, <2>2, <2>3
<1>7. SnapshotOK'
  BY <1>1, <1>3, <1>4, <1>6 DEF SnapshotOK, IndexInv
<1>8. job'.pc \notin EmptyPc /\ ~ Emptying /\ ~ Emptying'
  BY <1>3, <1>4 DEF Emptying, EmptyPc, SnapshotPc
<1>9. EmptyingOK'
  BY <1>8 DEF EmptyingOK, EmptyPc
<1>10. ASSUME NEW pk \in Pk \ Gone', KeyOK(pk)
       PROVE  Index(pk)' = Index(pk) /\ (pk \notin live'.covered => pk \notin torn')
  <2>1. pk \notin lost
    BY <1>1, <1>10 DEF Gone
  <2>2. sealed'[pk] = sealed[pk] \/ pk \in live.covered
    BY <1>5, <2>1
  <2>3. Index(pk)' = Index(pk)
    BY <1>1, <1>8, <2>2, IndexSame
  <2> QED BY <1>1, <1>5, <1>10, <2>1, <2>3 DEF KeyOK
<1>11. Gone' = Gone
  BY <1>1 DEF Gone
<1> QED BY <1>1, <1>2, <1>7, <1>9, <1>10, <1>11, IndexKept, QueueKept

\* What is sealed of a key the seal's snapshot did not miss.
LEMMA SnapshotSealed ==
    ASSUME IndexInv, job.pc = "finish", NEW pk \in live.covered, pk \notin Missed
    PROVE  /\ LiveVersion(live, pk) = Snapshot(pk)
           /\ pk \notin torn /\ sealed[pk] = Snapshot(pk)
<1>1. LiveVersion(live, pk) = Snapshot(pk) /\ (Snapshot(pk) # Absent \/ pk \in job.tombs)
  BY DEF Missed
<1>2. pk \in DOMAIN job.docs => Snapshot(pk) = job.docs[pk]
  BY DEF Snapshot
<1>3. pk \notin DOMAIN job.docs => Snapshot(pk) = Absent /\ pk \in job.tombs
  BY <1>1 DEF Snapshot
<1>4. sealed[pk] = Snapshot(pk) /\ pk \notin torn
  BY <1>2, <1>3 DEF IndexInv, SnapshotOK
<1> QED BY <1>1, <1>4

\* The documents go; what the seal does not leave in the durable tier is given up.
LEMMA IndexClear ==
    ASSUME InputInv, IndexInv, SealClear
    PROVE  IndexInv'
<1>1. /\ job.pc = "finish" /\ (job.own => writer = Nobody)
      /\ UNCHANGED <<rows, todo, declared, torn, sealed, lost, writer>>
      /\ IF job.own THEN live' = [live EXCEPT !.docs = <<>>] /\ astray' = astray \cup Excuse("forgotten", Missed)
         ELSE UNCHANGED <<live, astray>>
  BY DEF SealClear, history
<1>2. job'.pc = "reload" /\ job'.docs = job.docs /\ job'.tombs = job.tombs /\ job'.own = job.own
  BY DEF SealClear, InputInv, JobShape
<1>3. /\ live'.visible = live.visible /\ live'.tombs = live.tombs /\ live'.covered = live.covered
      /\ live'.sealing = live.sealing
      /\ job.own => live'.docs = <<>> /\ astray' = astray \cup Missed
      /\ ~ job.own => live'.docs = live.docs /\ astray' = astray
  BY <1>1, Excusing DEF IndexInv, Disputes, InputInv, LiveOK, LiveShape
<1>4. SegmentOK'
  BY <1>3, NewSegmentEmpty DEF IndexInv, SegmentOK
<1>5. SnapshotOK'
  BY <1>1, <1>2, <1>3 DEF IndexInv, SnapshotOK, SnapshotPc
<1>6. \A pk : Snapshot(pk)' = Snapshot(pk)
  BY <1>2 DEF Snapshot
<1>7. EmptyingOK'
  <2>1. ASSUME job.own, NEW pk \in live.covered \ astray'
        PROVE  pk \notin torn' /\ sealed'[pk] = Snapshot(pk)'
    <3>1. pk \in live.covered /\ pk \notin Missed
      BY <1>3, <2>1
    <3> QED BY <1>1, <1>6, <3>1, SnapshotSealed
  <2> QED BY <1>1, <1>2, <1>3, <2>1, NewSegmentEmpty DEF EmptyingOK
<1>8. ~ Emptying /\ (Emptying' <=> job.own)
  BY <1>1, <1>2 DEF Emptying
<1>9. ASSUME NEW pk \in Pk \ Gone', KeyOK(pk)
      PROVE  Index(pk)' = Index(pk) /\ (pk \notin live'.covered => pk \notin torn')
  <2>1. CASE ~ job.own \/ pk \notin live.covered
    <3>1. Index(pk)' = Index(pk)
      <4>1. CASE pk \notin live.covered
        BY <1>1, <1>3, <4>1, IndexUncovered
      <4>2. CASE ~ job.own
        BY <1>1, <1>3, <1>8, <4>2, IndexSame
      <4> QED BY <2>1, <4>1, <4>2
    <3> QED BY <1>1, <1>3, <1>9, <3>1 DEF KeyOK
  <2>2. CASE job.own /\ pk \in live.covered
    <3>1. pk \notin Missed
      BY <1>3, <1>9, <2>2 DEF Gone
    <3>2. LiveVersion(live, pk) = Snapshot(pk)
      BY <1>1, <2>2, <3>1, SnapshotSealed
    <3>3. Index(pk) = LiveVersion(live, pk) /\ Index(pk)' = Snapshot(pk)'
      BY <1>3, <1>8, <2>2, IndexUncovered
    <3> QED BY <1>3, <1>6, <2>2, <3>2, <3>3
  <2> QED BY <2>1, <2>2
<1>10. Gone \subseteq Gone'
  BY <1>1, <1>3 DEF Gone
<1> QED BY <1>1, <1>3, <1>4, <1>5, <1>7, <1>9, <1>10, IndexKept, QueueKept

\* The segment is emptied, and its gate opens.
LEMMA IndexEmpty ==
    ASSUME InputInv, IndexInv, SealEmpty
    PROVE  IndexInv'
<1>1. UNCHANGED <<rows, todo, declared, torn, sealed, lost, astray, writer>>
  BY DEF SealEmpty, history, excuses
<1>2. Gone' = Gone /\ Unreported' = Unreported
  BY <1>1, QueueKept DEF Gone
<1>3. job.pc \in EmptyPc /\ declared
  BY DEF SealEmpty, AfterStep, EmptyPc, IndexInv, SnapshotOK
<1>4. CASE job.pc # "open"
  <2>1. /\ job'.docs = job.docs /\ job'.own = job.own
        /\ job'.pc = IF job.pc = "reload" THEN "untomb" ELSE IF job.pc = "untomb" THEN "uncover" ELSE "open"
    BY <1>3, <1>4, EmptySteps DEF InputInv, JobShape, EmptyPc
  <2>2. /\ live'.docs = live.docs /\ live'.sealing = live.sealing
        /\ live'.visible = IF job.own /\ job.pc = "reload" THEN live.docs ELSE live.visible
        /\ live'.tombs = IF job.own /\ job.pc = "untomb" THEN {} ELSE live.tombs
        /\ live'.covered = IF job.own /\ job.pc = "uncover" THEN {} ELSE live.covered
    BY <1>3, <1>4, EmptySteps DEF InputInv, LiveOK, LiveShape, EmptyPc
  <2>3. \A pk : Snapshot(pk)' = Snapshot(pk)
    BY <2>1 DEF Snapshot
  <2>4. job.own => writer = Nobody /\ DOMAIN live.docs = {} /\ live.sealing
    BY <1>3 DEF IndexInv, EmptyingOK, SnapshotOK
  <2>5. EmptyingOK'
    <3>1. ASSUME job.own PROVE /\ writer' = Nobody /\ DOMAIN live'.docs = {} /\ DOMAIN live'.visible = {}
                               /\ job'.pc \in {"uncover", "open"} => live'.tombs = {}
                               /\ job'.pc = "open" => live'.covered = {}
      BY <1>1, <1>3, <1>4, <2>1, <2>2, <2>4, <3>1 DEF IndexInv, EmptyingOK, EmptyPc
    <3>2. ASSUME job.own, NEW pk \in live'.covered \ astray' PROVE pk \notin torn' /\ sealed'[pk] = Snapshot(pk)'
      BY <1>1, <1>3, <1>4, <2>2, <2>3, <3>2 DEF IndexInv, EmptyingOK, EmptyPc
    <3> QED BY <2>1, <3>1, <3>2 DEF EmptyingOK
  <2>6. SegmentOK'
    <3>1. CASE job.own
      BY <1>3, <1>4, <2>2, <2>4, <3>1 DEF IndexInv, SegmentOK, EmptyingOK, EmptyPc
    <3>2. CASE ~ job.own
      BY <2>2, <3>2 DEF IndexInv, SegmentOK
    <3> QED BY <3>1, <3>2
  <2>7. SnapshotOK'
    BY <1>1, <1>3, <2>1, <2>2, <2>4 DEF SnapshotOK, SnapshotPc
  <2>8. Emptying <=> job.own
    BY <1>3, <1>4 DEF Emptying, EmptyPc
  <2>9. Emptying' <=> job.own /\ job.pc # "uncover"
    BY <1>3, <1>4, <2>1 DEF Emptying, EmptyPc
  <2>10. ASSUME NEW pk \in Pk \ Gone', KeyOK(pk)
         PROVE  Index(pk)' = Index(pk) /\ (pk \notin live'.covered => pk \notin torn')
    <3>1. CASE ~ job.own
      <4>1. Index(pk)' = Index(pk)
        BY <1>1, <2>2, <2>8, <2>9, <3>1, IndexSame
      <4> QED BY <1>1, <2>2, <2>10, <3>1, <4>1 DEF KeyOK
    <3>2. CASE job.own /\ pk \notin live.covered
      <4>1. pk \notin live'.covered
        BY <2>2, <3>2
      <4> QED BY <1>1, <2>10, <3>2, <4>1, IndexUncovered DEF KeyOK
    <3>3. CASE job.own /\ pk \in live.covered
      <4>1. Index(pk) = Snapshot(pk)
        BY <2>8, <3>3, IndexUncovered
      <4>2. pk \notin torn /\ sealed[pk] = Snapshot(pk)
        <5>1. pk \notin astray
          BY <1>2, <2>10 DEF Gone
        <5> QED BY <1>3, <1>4, <3>3, <5>1 DEF IndexInv, EmptyingOK, EmptyPc
      <4>3. CASE job.pc = "uncover"
        <5>1. pk \notin live'.covered
          BY <2>2, <3>3, <4>3
        <5> QED BY <1>1, <4>1, <4>2, <5>1, IndexUncovered
      <4>4. CASE job.pc # "uncover"
        <5>1. pk \in live'.covered /\ Emptying'
          BY <2>2, <2>9, <3>3, <4>4
        <5> QED BY <2>3, <4>1, <5>1, IndexUncovered
      <4> QED BY <4>3, <4>4
    <3> QED BY <3>1, <3>2, <3>3
  <2>11. live'.tombs \subseteq live.tombs
    BY <2>2
  <2> QED BY <1>1, <1>2, <2>5, <2>6, <2>7, <2>10, <2>11, IndexKept
<1>5. CASE job.pc = "open"
  <2>1. job'.pc = "compact"
    BY <1>5, EmptySteps DEF IdleJob
  <2>2. live'.docs = live.docs /\ live'.visible = live.visible /\ live'.tombs = live.tombs /\ live'.covered = live.covered
    BY <1>5, EmptySteps DEF InputInv, LiveOK, LiveShape
  <2>3. SegmentOK' /\ SnapshotOK' /\ EmptyingOK' /\ ~ Emptying /\ ~ Emptying'
    BY <1>1, <1>3, <1>5, <2>1, <2>2
       DEF IndexInv, SegmentOK, SnapshotOK, EmptyingOK, Emptying, EmptyPc, SnapshotPc
  <2>4. \A pk \in Pk : KeyOK(pk) => Index(pk)' = Index(pk) /\ (pk \notin live'.covered => pk \notin torn')
    BY <1>1, <2>2, <2>3, IndexSame DEF KeyOK
  <2> QED BY <1>1, <1>2, <2>2, <2>3, <2>4, IndexKept
<1> QED BY <1>4, <1>5

LEMMA IndexCrash ==
    ASSUME PendingInv, IndexInv, Crash
    PROVE  IndexInv'
<1>1. /\ live' = NewSegment /\ declared' = registered /\ job'.pc = "idle"
      /\ lost \cup Pending \cup live.covered \subseteq lost'
      /\ UNCHANGED <<rows, torn, sealed, astray>>
  BY DEF Crash, history, IdleJob
<1>2. SegmentOK' /\ live'.tombs = {} /\ live'.covered = {}
  BY <1>1, NewSegmentEmpty DEF SegmentOK
<1>3. SnapshotOK' /\ EmptyingOK'
  BY <1>1 DEF SnapshotOK, EmptyingOK, SnapshotPc, EmptyPc
<1>4. ASSUME declared', NEW pk \in Pk \ Gone' PROVE KeyOK(pk)'
  <2>1. declared /\ pk \notin live.covered /\ pk \notin Unreported /\ KeyOK(pk)
    BY <1>1, <1>4, UnreportedPends DEF PendingInv, IndexInv, Gone
  <2>2. Index(pk)' = Index(pk)
    BY <1>1, <1>2, <2>1, IndexUncovered
  <2>3. Agrees(pk)'
    BY <1>1, <2>1, <2>2 DEF KeyOK, Agrees
  <2> QED BY <1>1, <2>1, <2>3 DEF KeyOK
<1> QED BY <1>2, <1>3, <1>4 DEF IndexInv

LEMMA IndexNext == InputInv /\ TierInv /\ PendingInv /\ IndexInv /\ [Next]_vars => IndexInv'
<1> SUFFICES ASSUME InputInv, TierInv, PendingInv, IndexInv, [Next]_vars PROVE IndexInv'
  OBVIOUS
<1>1. ASSUME UNCHANGED <<rows, todo, torn, sealed, lost, astray, declared>>,
             live'.docs = live.docs, live'.tombs = live.tombs, live'.covered = live.covered,
             live'.visible = live.visible \/ live'.visible = live.docs,
             \/ job' = job /\ live'.sealing = live.sealing /\ EmptyingOK'
             \/ ~ Emptying /\ job'.pc \notin SnapshotPc \cup EmptyPc /\ job.pc # "idle"
      PROVE  IndexInv'
  <2>1. SegmentOK'
    BY <1>1 DEF IndexInv, SegmentOK
  <2>2. SnapshotOK' /\ EmptyingOK'
    <3>1. CASE job' = job
      BY <1>1, <3>1 DEF IndexInv, SnapshotOK, EmptyingOK, EmptyPc, SnapshotPc
    <3>2. CASE job'.pc \notin SnapshotPc \cup EmptyPc /\ job.pc # "idle"
      BY <1>1, <3>2 DEF IndexInv, SnapshotOK, EmptyingOK, EmptyPc, SnapshotPc
    <3> QED BY <1>1, <3>1, <3>2
  <2>3. job' = job \/ (~ Emptying /\ ~ Emptying')
    BY <1>1 DEF Emptying, EmptyPc
  <2>4. \A pk \in Pk : KeyOK(pk) => Index(pk)' = Index(pk) /\ (pk \notin live'.covered => pk \notin torn')
    BY <1>1, <2>3, IndexSame DEF KeyOK
  <2>5. Gone' = Gone
    BY <1>1 DEF Gone
  <2> QED BY <1>1, <2>1, <2>2, <2>4, <2>5, IndexKept, QueueKept
<1>2. ASSUME UNCHANGED <<sealed, torn, astray, job>>, live'.docs = live.docs, live'.tombs = live.tombs,
             live'.covered = live.covered, live'.visible = live.visible \/ live'.visible = live.docs,
             writer' = writer \/ ~ live.sealing
      PROVE  EmptyingOK'
  BY <1>2 DEF IndexInv, SnapshotOK, EmptyingOK, EmptyPc, SnapshotPc, Snapshot
<1>3. ASSUME NEW w \in Writer, Commit(w) \/ on_commit(w) PROVE IndexInv'
  <2>1. CASE on_commit_enter(w)
    <3>1. UNCHANGED <<rows, todo, live, torn, sealed, lost, astray, declared, job>> /\ ~ live.sealing
      BY <2>1 DEF on_commit_enter, history, excuses, GateOpen
    <3>2. EmptyingOK'
      BY <1>2, <3>1
    <3> QED BY <1>1, <3>1, <3>2
  <2> QED BY <1>3, <2>1, IndexCommit, IndexSkip, IndexApply DEF on_commit
<1>4. CASE persist_registry \/ UNCHANGED vars
  <2>1. UNCHANGED <<rows, todo, live, torn, sealed, lost, astray, declared, job, writer>>
    BY <1>4 DEF persist_registry, history, excuses, vars
  <2>2. EmptyingOK'
    BY <1>2, <2>1
  <2> QED BY <1>1, <2>1, <2>2
<1>5. CASE SealFail
  <2>1. live' = live \/ live' = [live EXCEPT !.sealing = FALSE]
    BY <1>5 DEF SealFail, abort_seal
  <2>2. live'.docs = live.docs /\ live'.tombs = live.tombs /\ live'.covered = live.covered /\ live'.visible = live.visible
    BY <2>1 DEF InputInv, LiveOK, LiveShape
  <2>3. ~ Emptying /\ job'.pc \notin SnapshotPc \cup EmptyPc /\ job.pc # "idle"
    BY <1>5 DEF SealFail, IdleJob, Emptying, SnapshotPc, EmptyPc
  <2>4. UNCHANGED <<rows, todo, torn, sealed, lost, astray, declared>>
    BY <1>5 DEF SealFail, history, excuses
  <2> QED BY <1>1, <2>2, <2>3, <2>4
<1>6. CASE maybe_compact \/ CompactFail
  <2>1. UNCHANGED <<rows, todo, torn, sealed, lost, astray, declared, live>>
    BY <1>6 DEF maybe_compact, CompactSkip, CompactPut, CompactPersist, Collect, CompactFail, history, excuses
  <2>2. job.pc \in {"compact", "compact_manifest", "compact_tombstones", "gc"}
    BY <1>6 DEF maybe_compact, CompactSkip, CompactPut, CompactPersist, Collect, CompactFail
  <2>3. job'.pc \in {"idle", "compact_manifest", "compact_tombstones", "gc"}
    <3>1. CASE CompactSkip \/ CompactFail
      BY <3>1 DEF CompactSkip, CompactFail, IdleJob
    <3>2. CASE CompactPut
      <4>1. PICK m \in Loads(manifest), d \in Loads(deletes) :
              LET c == compact(m.value, d.value, splits) IN
              job' = [IdleJob EXCEPT !.pc = "compact_manifest", !.manifest = c.manifest,
                          !.deletes = c.deletes, !.superseded = c.superseded]
        BY <3>2, Zenon DEF CompactPut
      <4> QED BY <4>1 DEF IdleJob
    <3>3. CASE CompactPersist
      BY <3>3 DEF CompactPersist, InputInv, JobShape
    <3>4. CASE Collect
      <4>1. PICK id : job' = IF job.superseded = {id} THEN IdleJob ELSE [job EXCEPT !.superseded = @ \ {id}]
        BY <3>4 DEF Collect
      <4> QED BY <3>4, <4>1 DEF Collect, IdleJob, InputInv, JobShape
    <3> QED BY <1>6, <3>1, <3>2, <3>3, <3>4 DEF maybe_compact
  <2>4. ~ Emptying /\ job'.pc \notin SnapshotPc \cup EmptyPc /\ job.pc # "idle"
    BY <2>2, <2>3 DEF Emptying, SnapshotPc, EmptyPc
  <2> QED BY <1>1, <2>1, <2>4
<1>7. ASSUME NEW x \in Searcher, SearchStart(x) \/ union_hits(x) PROVE IndexInv'
  <2>1. UNCHANGED <<rows, todo, torn, sealed, lost, astray, declared, job, writer>>
    BY <1>7 DEF SearchStart, union_hits, SearchCommit, SearchLive, SearchCovered, SearchManifest,
              SearchDeletes, SearchOpen, SearchEnd, history, excuses
  <2>2. live' = live \/ live' = [live EXCEPT !.dirty = FALSE] \/ live' = [live EXCEPT !.visible = live.docs]
    BY <1>7 DEF SearchStart, union_hits, SearchCommit, SearchLive, SearchCovered, SearchManifest,
                SearchDeletes, SearchOpen, SearchEnd, commit_and_reload
  <2>3. /\ live'.docs = live.docs /\ live'.tombs = live.tombs /\ live'.covered = live.covered
        /\ live'.visible = live.visible \/ live'.visible = live.docs
        /\ live'.sealing = live.sealing
    BY <2>2 DEF InputInv, LiveOK, LiveShape
  <2>4. EmptyingOK'
    BY <1>2, <2>1, <2>3
  <2> QED BY <1>1, <2>1, <2>3, <2>4
<1>8. CASE seal
  BY <1>8, IndexSealStart, IndexPuts, IndexClear, IndexEmpty DEF seal
<1> QED BY <1>3, <1>4, <1>5, <1>6, <1>7, <1>8, IndexInstall, IndexCrash DEF Next

\* The durable tier shows the version sealed last of a key the segment does not cover.
LEMMA UncoveredShown ==
    ASSUME TierInv, IndexInv, declared, NEW pk \in Pk \ Gone, pk \notin live.covered, pk \notin Pending, NEW t \in Text
    PROVE  Hit(manifest, deletes, splits, pk, t) <=> rows[pk] = t
<1>1. KeyOK(pk) /\ pk \notin Unreported
  BY UnreportedPends DEF IndexInv
<1>2. pk \notin torn /\ (sealed[pk] = t <=> rows[pk] = t)
  BY <1>1, IndexUncovered DEF KeyOK, Agrees
<1>3. Shows(manifest, deletes, splits, torn, sealed, pk)
  BY DEF TierInv, TierOK
<1> QED BY <1>2, <1>3 DEF Shows

\* A covered key that is not hidden is found exactly under the word of its row.
LEMMA CoveredSeen ==
    ASSUME IndexInv, declared, NEW s, s.covered = live.covered, s.tombs = live.tombs, s.docs = live.docs,
           NEW pk \in Pk \ Gone, pk \in live.covered, pk \notin Pending, pk \notin Hidden(s), NEW t \in Text
    PROVE  pk \in LiveHits(s, t) <=> rows[pk] = t
<1>1. KeyOK(pk) /\ pk \notin Unreported
  BY UnreportedPends DEF IndexInv
<1>2. Index(pk) = t <=> rows[pk] = t
  BY <1>1 DEF KeyOK, Agrees
<1>3. Hidden(s) = {k \in s.covered : Seen(s, k) # Told(s, k)}
  BY Excusing DEF Hidden, IndexInv, Disputes
<1>4. Seen(s, pk) = Told(s, pk)
  BY <1>3
<1>5. Told(s, pk) = Told(live, pk)
  BY DEF Told, LiveVersion
<1>6. Index(pk) = Told(live, pk)
  BY DEF Index
<1>7. pk \in LiveHits(s, t) <=> Seen(s, pk) = t
  BY FtsAssumption DEF LiveHits, Seen
<1> QED BY <1>2, <1>4, <1>5, <1>6, <1>7

LEMMA IndexExactNow == InputInv /\ TierInv /\ IndexInv => SearchNowExact
<1> SUFFICES ASSUME InputInv, TierInv, IndexInv, declared, NEW t \in Text,
                    NEW pk \in Pk \ (lost \cup astray \cup Pending \cup Hidden(Fresh))
             PROVE  pk \in UnionNow(t) <=> rows[pk] = t
  BY DEF SearchNowExact
<1>1. PICK s : s = Fresh
  OBVIOUS
<1>2. /\ s.covered = live.covered /\ s.tombs = live.tombs /\ s.docs = live.docs
      /\ s.visible = live.visible \/ s.visible = live.docs
  BY <1>1 DEF Fresh, commit_and_reload, InputInv, LiveOK, LiveShape
<1>3. pk \in UnionNow(t) <=> pk \in LiveHits(s, t) \/ (pk \notin live.covered /\ Hit(manifest, deletes, splits, pk, t))
  BY <1>1, HitsAreDurable DEF UnionNow
<1>4. pk \in Pk \ Gone /\ pk \notin Pending /\ pk \notin Hidden(s)
  BY <1>1 DEF Gone
<1>5. CASE pk \in live.covered
  BY <1>2, <1>3, <1>4, <1>5, CoveredSeen
<1>6. CASE pk \notin live.covered
  <2>1. pk \notin LiveHits(s, t)
    BY <1>2, <1>6 DEF IndexInv, SegmentOK, LiveHits
  <2>2. Hit(manifest, deletes, splits, pk, t) <=> rows[pk] = t
    BY <1>4, <1>6, UncoveredShown
  <2> QED BY <1>3, <1>6, <2>1, <2>2
<1> QED BY <1>5, <1>6

\* All of it: what no read fault and no hurried write disturbs.
EngineInv == DurableInv /\ InputInv /\ TierInv /\ PendingInv /\ IndexInv

LEMMA EngineInit == MaxReadFaults = 0 /\ Careful /\ Excused = Disputes /\ Init => EngineInv
BY DurableInit, InputInit, TierInit, PendingInit, IndexInit DEF EngineInv

LEMMA EngineNext == EngineInv /\ [Next]_vars => EngineInv'
BY DurableNext, InputNext, TierNext, PendingNext, IndexNext DEF EngineInv

\* Whatever a seal, a compaction or a restart is at, a search that nothing interrupts
\* finds a word exactly in the rows that hold it, but for rows whose change was
\* not reported or waits, and the rows of Disputes (union_hits over LiveSegment and
\* FtsIndex), provided no read of a blob fails, no key is inserted again before its delete is
\* sealed and no text is set to NULL (the segment keeps the tombstone, and on_commit
\* skips the NULL).
THEOREM SearchesExact == MaxReadFaults = 0 /\ Careful /\ Excused = Disputes /\ Spec => []SearchNowExact
<1>1. EngineInv => SearchNowExact
  BY IndexExactNow DEF EngineInv
<1> QED BY <1>1, EngineInit, EngineNext, PTL DEF Spec

-----------------------------------------------------------------------------
(* A search whose steps others interleave.                                 *)

SearchShape(q) ==
    q = [pc |-> q.pc, term |-> q.term, hits |-> q.hits, covered |-> q.covered, manifest |-> q.manifest,
         deletes |-> q.deletes, steady |-> q.steady]

Running(q) ==
    /\ SearchShape(q)
    /\ q.pc # "idle" => declared /\ q.term \in Text
    /\ q.pc = "idle" => q.steady = {}
    /\ q.hits \subseteq Pk
    /\ q.steady \subseteq Pk /\ q.steady \cap Pending = {}
    /\ q.pc \in {"deletes", "open"} /\ q.steady # {} => Ids(q.manifest) \subseteq Ids(manifest)

\* What a search knows, at each of its steps, of a key that no write touched since it
\* began.  A key it will look up in the durable tier left the segment before it
\* asked what the segment covers, and does not come back.
Watched(q, pk) ==
    /\ q.pc \in {"covered", "manifest", "deletes", "open"} => (pk \in q.hits => rows[pk] = q.term)
    /\ q.pc = "covered" => (rows[pk] = q.term /\ pk \notin q.hits => pk \notin live.covered)
    /\ q.pc \in {"manifest", "deletes", "open"} =>
          IF pk \in q.covered THEN rows[pk] = q.term => pk \in q.hits ELSE pk \notin live.covered
    /\ q.pc = "deletes" /\ pk \notin q.covered => (Hit(q.manifest, deletes, splits, pk, q.term) <=> rows[pk] = q.term)
    /\ q.pc = "open" /\ pk \notin q.covered => (Hit(q.manifest, q.deletes, splits, pk, q.term) <=> rows[pk] = q.term)
    /\ q.pc = "done" => (pk \in q.hits <=> rows[pk] = q.term)

\* An update only adds to the manifest.
StagedIds == job.pc = "manifest" => Ids(manifest) \subseteq Ids(job.manifest)

\* It has read the manifest.
Loaded(q) == q.pc \in {"deletes", "open"}

SearchInv ==
    /\ IsFiniteSet(Pk) /\ Cardinality(Pk) <= UnionLimit
    /\ search = [x \in Searcher |-> search[x]]
    /\ StagedIds
    /\ \A x \in Searcher : Running(search[x]) /\ \A pk \in search[x].steady \ Gone : Watched(search[x], pk)

LEMMA IdleSearchOK ==
    /\ SearchShape(IdleSearch) /\ IdleSearch.pc = "idle" /\ IdleSearch.hits = {} /\ IdleSearch.steady = {}
BY DEF IdleSearch, SearchShape

LEMMA IdleRuns == Running(IdleSearch) /\ \A pk \in IdleSearch.steady : Watched(IdleSearch, pk)
BY IdleSearchOK DEF Running

LEMMA SearchInit == IsFiniteSet(Pk) /\ Cardinality(Pk) <= UnionLimit /\ Init => SearchInv
<1> SUFFICES ASSUME IsFiniteSet(Pk), Cardinality(Pk) <= UnionLimit, Init PROVE SearchInv
  OBVIOUS
<1>1. search = [x \in Searcher |-> IdleSearch] /\ job.pc = "idle"
  BY DEF Init, EmptyTable, Quiet, IdleJob
<1>2. \A x \in Searcher : search[x] = IdleSearch
  BY <1>1
<1>3. search = [x \in Searcher |-> search[x]]
  BY <1>1
<1> QED BY <1>1, <1>2, <1>3, IdleRuns DEF SearchInv, StagedIds

\* A step of no searcher: rows and records of the watched keys stay, the segment covers
\* no new one of them, and what is named is still there and hidden or shown as it was.
SameSplits(m, s, u) == \A i \in DOMAIN m : s[m[i].id] = u[m[i].id]

LEMMA SearchKept ==
    ASSUME SearchInv, NEW q, NEW r, Running(q), SearchShape(r),
           r.steady \subseteq q.steady, r.steady \cap Pending' = {},
           r.pc = q.pc, r.term = q.term, r.hits = q.hits, r.covered = q.covered, r.manifest = q.manifest,
           r.deletes = q.deletes,
           q.pc # "idle" => declared',
           r.steady # {} /\ Loaded(q) => Ids(manifest) \subseteq Ids(manifest') /\ SameSplits(manifest, splits, splits'),
           \A pk \in q.steady \ Gone : Watched(q, pk),
           \A pk \in r.steady \ Gone' :
               /\ pk \notin Gone /\ rows'[pk] = rows[pk]
               /\ pk \notin live.covered => pk \notin live'.covered /\ (Loaded(q) => SameAt(deletes', deletes, pk))
    PROVE  Running(r)' /\ \A pk \in r.steady \ Gone' : Watched(r, pk)'
<1>1. Running(r)'
  BY DEF Running, SearchShape, Loaded
<1>2. ASSUME NEW pk \in r.steady \ Gone' PROVE Watched(r, pk)'
  <2>1. /\ Watched(q, pk) /\ rows'[pk] = rows[pk]
        /\ pk \notin live.covered => pk \notin live'.covered /\ (Loaded(q) => SameAt(deletes', deletes, pk))
    BY <1>2
  <2>2. ASSUME q.pc \in {"deletes", "open"} PROVE SameSplits(q.manifest, splits', splits)
    BY <1>2, <2>2 DEF Running, SameSplits, Ids, Loaded
  <2>3. ASSUME q.pc = "deletes", pk \notin q.covered
        PROVE  Hit(q.manifest, deletes', splits', pk, q.term) <=> rows[pk] = q.term
    <3>1. SameAt(deletes', deletes, pk)
      BY <2>1, <2>3 DEF Watched, Loaded
    <3>2. \A i \in DOMAIN q.manifest : splits'[q.manifest[i].id] = splits[q.manifest[i].id]
      BY <2>2, <2>3 DEF SameSplits
    <3>3. Hit(q.manifest, deletes', splits', pk, q.term) <=> Hit(q.manifest, deletes, splits, pk, q.term)
      BY <3>1, <3>2, HitDepends
    <3> QED BY <2>1, <2>3, <3>3 DEF Watched
  <2>4. ASSUME q.pc = "open", pk \notin q.covered
        PROVE  Hit(q.manifest, q.deletes, splits', pk, q.term) <=> rows[pk] = q.term
    <3>1. SameAt(q.deletes, q.deletes, pk)
      BY DEF SameAt
    <3>2. \A i \in DOMAIN q.manifest : splits'[q.manifest[i].id] = splits[q.manifest[i].id]
      BY <2>2, <2>4 DEF SameSplits
    <3>3. Hit(q.manifest, q.deletes, splits', pk, q.term) <=> Hit(q.manifest, q.deletes, splits, pk, q.term)
      BY <3>1, <3>2, HitDepends
    <3> QED BY <2>1, <2>4, <3>3 DEF Watched
  <2> QED BY <2>1, <2>3, <2>4 DEF Watched
<1> QED BY <1>1, <1>2

LEMMA StagedIdsNext == DurableInv /\ InputInv /\ TierInv /\ StagedIds /\ [Next]_vars => StagedIds'
<1> SUFFICES ASSUME DurableInv, InputInv, TierInv, StagedIds, [Next]_vars, job'.pc = "manifest"
             PROVE  Ids(manifest') \subseteq Ids(job'.manifest)
  BY DEF StagedIds, Ids
<1>1. CASE UNCHANGED <<job, manifest>>
  BY <1>1 DEF StagedIds
<1>2. CASE UpdatePut
  <2>1. PICK m \in Loads(manifest), d \in Loads(deletes) :
          job' = [job EXCEPT !.pc = "manifest",
                      !.manifest = Append(m.value, split_meta(mint_split_id(m.value),
                                                              max_generation(m.value) + 1, SplitOf(job.docs))),
                      !.deletes = delete_docs_at(d.value, DOMAIN job.docs, max_generation(m.value))]
    BY <1>2, Zenon DEF UpdatePut, SplitOf
  <2>2. m.value = manifest
    BY NoReadFails
  <2>3. PICK x : job'.manifest = Append(manifest, x)
    BY <2>1, <2>2 DEF InputInv, JobShape
  <2>4. PICK S : manifest \in Seq(S)
    BY DEF DurableInv, Backed, IsManifest
  <2>5. PICK n : n = Len(manifest) /\ n \in Nat /\ DOMAIN manifest = 1..n
    BY <2>4
  <2>6. manifest \in Seq(S \cup {x})
    BY <2>4
  <2>7. \A i \in 1..n : i \in DOMAIN Append(manifest, x) /\ Append(manifest, x)[i] = manifest[i]
    BY <2>5, <2>6
  <2>8. Ids(manifest) \subseteq Ids(Append(manifest, x))
    BY <2>5, <2>7 DEF Ids
  <2>9. manifest' = manifest
    BY <1>2 DEF UpdatePut
  <2> QED BY <2>3, <2>8, <2>9
<1>3. CASE SealStart \/ SealClear \/ SealEmpty \/ SealFail \/ Crash
  <2>1. CASE SealStart
    BY <2>1 DEF SealStart, IdleJob
  <2>2. CASE SealClear
    BY <2>2 DEF SealClear, InputInv, JobShape
  <2>3. CASE SealEmpty
    BY <2>3, EmptySteps DEF InputInv, JobShape, IdleJob
  <2>4. CASE SealFail \/ Crash
    BY <2>4 DEF SealFail, Crash, IdleJob
  <2> QED BY <1>3, <2>1, <2>2, <2>3, <2>4
<1>4. CASE UpdateManifest \/ UpdateTombstones \/ SealDelete
  BY <1>4 DEF UpdateManifest, UpdateTombstones, SealDelete, InputInv, JobShape
<1>5. CASE maybe_compact \/ CompactFail
  <2>1. CASE CompactSkip \/ CompactFail
    BY <2>1 DEF CompactSkip, CompactFail, IdleJob
  <2>2. CASE CompactPut
    <3>1. PICK m \in Loads(manifest), d \in Loads(deletes) :
            LET c == compact(m.value, d.value, splits) IN
            job' = [IdleJob EXCEPT !.pc = "compact_manifest", !.manifest = c.manifest,
                        !.deletes = c.deletes, !.superseded = c.superseded]
      BY <2>2, Zenon DEF CompactPut
    <3> QED BY <3>1 DEF IdleJob
  <2>3. CASE CompactPersist
    BY <2>3 DEF CompactPersist, InputInv, JobShape
  <2>4. CASE Collect
    <3>1. PICK id : job' = IF job.superseded = {id} THEN IdleJob ELSE [job EXCEPT !.superseded = @ \ {id}]
      BY <2>4 DEF Collect
    <3> QED BY <2>4, <3>1 DEF Collect, IdleJob, InputInv, JobShape
  <2> QED BY <1>5, <2>1, <2>2, <2>3, <2>4 DEF maybe_compact
<1>6. ASSUME NEW w \in Writer, Commit(w) \/ on_commit(w) PROVE UNCHANGED <<job, manifest>>
  BY <1>6 DEF Commit, on_commit, on_commit_skip, on_commit_enter, on_commit_apply, durableVars
<1>7. ASSUME NEW x \in Searcher, SearchStart(x) \/ union_hits(x) PROVE UNCHANGED <<job, manifest>>
  BY <1>7 DEF SearchStart, union_hits, SearchCommit, SearchLive, SearchCovered, SearchManifest,
              SearchDeletes, SearchOpen, SearchEnd, durableVars
<1>8. CASE persist_registry \/ UNCHANGED vars
  BY <1>1, <1>8 DEF persist_registry, vars, durableVars
<1>9. CASE install_def
  <2>1. job'.pc = job.pc /\ job'.manifest = job.manifest /\ manifest' = manifest
    BY <1>9, Superseded DEF InputInv
  <2> QED BY <2>1 DEF StagedIds
<1> QED BY <1>1, <1>2, <1>3, <1>4, <1>5, <1>6, <1>7, <1>8, <1>9 DEF Next, seal

\* The searches over such a step.
LEMMA SearchesKept ==
    ASSUME SearchInv, StagedIds', DOMAIN search' = Searcher, search' = [x \in Searcher |-> search'[x]],
           \A x \in Searcher : /\ search'[x] = [search[x] EXCEPT !.steady = search'[x].steady]
                               /\ search'[x].steady \subseteq search[x].steady
                               /\ search'[x].steady \cap Pending' = {}
                               /\ search'[x].steady # {} /\ Loaded(search[x]) =>
                                     Ids(manifest) \subseteq Ids(manifest') /\ SameSplits(manifest, splits, splits')
           , declared => declared',
           \A x \in Searcher : \A pk \in search'[x].steady \ Gone' :
               /\ declared => pk \notin Gone
               /\ rows'[pk] = rows[pk]
               /\ pk \notin live.covered =>
                     pk \notin live'.covered /\ (Loaded(search[x]) => SameAt(deletes', deletes, pk))
    PROVE  SearchInv'
<1>1. ASSUME NEW x \in Searcher
      PROVE  Running(search[x])' /\ \A pk \in (search[x].steady \ Gone)' : Watched(search[x], pk)'
  <2>1. PICK q, r : q = search[x] /\ r = search'[x]
    OBVIOUS
  <2>2. Running(q) /\ \A pk \in q.steady \ Gone : Watched(q, pk)
    BY <2>1 DEF SearchInv
  <2>3. r = [q EXCEPT !.steady = r.steady]
    BY <2>1
  <2>4. /\ SearchShape(r) /\ r.pc = q.pc /\ r.term = q.term /\ r.hits = q.hits /\ r.covered = q.covered
        /\ r.manifest = q.manifest /\ r.deletes = q.deletes
    BY <2>2, <2>3 DEF Running, SearchShape
  <2>5. q.pc # "idle" => declared /\ declared'
    BY <2>2 DEF Running
  <2>6. r.steady # {} => declared
    BY <2>1, <2>2, <2>5 DEF Running
  <2>7. Running(r)' /\ \A pk \in r.steady \ Gone' : Watched(r, pk)'
    BY <2>1, <2>2, <2>4, <2>5, <2>6, SearchKept
  <2>8. Running(r)' <=> Running(search[x])'
    BY <2>1 DEF Running, SearchShape
  <2>9. \A pk : Watched(r, pk)' <=> Watched(search[x], pk)'
    BY <2>1 DEF Watched
  <2> QED BY <2>1, <2>7, <2>8, <2>9
<1> QED BY <1>1 DEF SearchInv

\* A step that changes no searcher's record.
LEMMA SearchFunction ==
    ASSUME SearchInv, search' = search
    PROVE  /\ DOMAIN search' = Searcher /\ search' = [x \in Searcher |-> search'[x]]
           /\ \A x \in Searcher : /\ search'[x] = [search[x] EXCEPT !.steady = search'[x].steady]
                                  /\ search'[x].steady \subseteq search[x].steady
<1>1. search = [x \in Searcher |-> search[x]] /\ \A x \in Searcher : SearchShape(search[x])
  BY DEF SearchInv, Running
<1>2. DOMAIN search = Searcher
  BY <1>1
<1>3. \A x \in Searcher : search[x] = [search[x] EXCEPT !.steady = search[x].steady]
  BY <1>1 DEF SearchShape
<1> QED BY <1>1, <1>2, <1>3

LEMMA SearchQuiet ==
    ASSUME SearchInv, StagedIds', search' = search, Pending' \subseteq Pending, declared => declared',
           UNCHANGED <<manifest, rows>>, declared => Gone \ Pending \subseteq Gone',
           SameSplits(manifest, splits, splits'),
           \A pk \in Pk \ Pending : pk \notin live.covered => pk \notin live'.covered /\ SameAt(deletes', deletes, pk)
    PROVE  SearchInv'
<1>1. \A x \in Searcher : search[x].steady \subseteq Pk \ Pending
  BY DEF SearchInv, Running
<1>2. \A x \in Searcher : search'[x].steady \cap Pending' = {}
  BY <1>1
<1>3. ASSUME NEW x \in Searcher, NEW pk \in search'[x].steady \ Gone'
      PROVE  /\ declared => pk \notin Gone
             /\ rows'[pk] = rows[pk]
             /\ pk \notin live.covered => pk \notin live'.covered /\ SameAt(deletes', deletes, pk)
  BY <1>1, <1>3
<1> QED BY <1>2, <1>3, SearchFunction, SearchesKept

LEMMA SameDeletes ==
    ASSUME deletes' = deletes
    PROVE  \A pk : SameAt(deletes', deletes, pk)
BY DEF SameAt

LEMMA SameSplitsKept ==
    ASSUME splits' = splits
    PROVE  SameSplits(manifest, splits, splits')
BY DEF SameSplits

LEMMA SearchCommits ==
    ASSUME InputInv, PendingInv, SearchInv, StagedIds', NEW w \in Writer, Commit(w) \/ on_commit(w)
    PROVE  SearchInv'
<1>1. CASE Commit(w)
  <2>1. PICK c \in Commits :
          /\ todo[w] = <<>> /\ todo' = [todo EXCEPT ![w] = c]
          /\ rows' = [pk \in Pk |-> IF pk \in Changes(c)
                                    THEN c[CHOOSE i \in DOMAIN c : c[i].pk = pk].row ELSE rows[pk]]
          /\ search' = [x \in Searcher |-> [search[x] EXCEPT !.steady = @ \ Changes(c)]]
    BY <1>1 DEF Commit
  <2>2. UNCHANGED <<live, declared, manifest, deletes, splits, lost, astray>>
    BY <1>1 DEF Commit, durableVars, excuses
  <2>3. Pending' = Pending \cup Changes(c) /\ \A pk \in Pk \ Changes(c) : rows'[pk] = rows[pk]
    BY <2>1, ChangesQueued DEF InputInv
  <2>4. \A x \in Searcher : SearchShape(search[x]) /\ search[x].steady \subseteq Pk /\ search[x].steady \cap Pending = {}
    BY DEF SearchInv, Running
  <2>5. \A x \in Searcher : search'[x] = [search[x] EXCEPT !.steady = search[x].steady \ Changes(c)]
    BY <2>1
  <2>6. \A x \in Searcher : search'[x].steady = search[x].steady \ Changes(c)
    BY <2>4, <2>5 DEF SearchShape
  <2>7. DOMAIN search' = Searcher /\ search' = [x \in Searcher |-> search'[x]]
    BY <2>1
  <2>8. \A x \in Searcher : /\ search'[x] = [search[x] EXCEPT !.steady = search'[x].steady]
                            /\ search'[x].steady \subseteq search[x].steady
                            /\ search'[x].steady \cap Pending' = {}
                            /\ search'[x].steady \subseteq Pk \ Changes(c)
    BY <2>3, <2>4, <2>5, <2>6
  <2>9. SameSplits(manifest, splits, splits') /\ Ids(manifest) \subseteq Ids(manifest')
    BY <2>2 DEF SameSplits
  <2>10. ASSUME NEW x \in Searcher, NEW pk \in search'[x].steady \ Gone'
         PROVE  /\ declared => pk \notin Gone
                /\ rows'[pk] = rows[pk]
                /\ pk \notin live.covered => pk \notin live'.covered /\ SameAt(deletes', deletes, pk)
    BY <2>2, <2>3, <2>8, <2>10, SameDeletes DEF Gone
  <2> QED BY <2>2, <2>7, <2>8, <2>9, <2>10, SearchesKept
<1>2. CASE on_commit_skip(w)
  <2>1. /\ todo[w] # <<>> /\ todo' = [todo EXCEPT ![w] = Tail(@)] /\ search' = search /\ lost \subseteq lost'
        /\ UNCHANGED <<rows, live, declared, manifest, deletes, splits, astray>>
    BY <1>2 DEF on_commit_skip, durableVars
  <2>2. Pending' \subseteq Pending
    BY <2>1, QueueShrinks DEF InputInv
  <2> QED BY <2>1, <2>2, SameDeletes, SameSplitsKept, SearchQuiet DEF Gone
<1>3. CASE on_commit_enter(w)
  <2>1. UNCHANGED <<rows, todo, live, declared, manifest, deletes, splits, search, lost, astray>>
    BY <1>3 DEF on_commit_enter, durableVars, excuses
  <2> QED BY <2>1, QueueKept, SameDeletes, SameSplitsKept, SearchQuiet DEF Gone
<1>4. CASE on_commit_apply(w)
  <2>1. /\ writer # Nobody /\ writer.by = w /\ todo' = [todo EXCEPT ![w] = Tail(@)]
        /\ UNCHANGED <<rows, declared, manifest, deletes, splits, search>>
        /\ lost \ {writer.pk} \subseteq lost' /\ astray \ {writer.pk} \subseteq astray'
        /\ live' = IF writer.row = Absent THEN SegmentTombstone(live, writer.pk)
                   ELSE SegmentIndex(live, writer.pk, writer.row)
    BY <1>4 DEF on_commit_apply, durableVars
  <2>2. todo[w] # <<>> /\ writer.pk = Head(todo[w]).pk
    BY <2>1 DEF PendingInv, Handing
  <2>3. Pending' \subseteq Pending /\ writer.pk \in Pending
    BY <2>1, <2>2, QueueShrinks DEF InputInv
  <2>4. live'.covered = live.covered \cup {writer.pk}
    BY <2>1 DEF SegmentTombstone, SegmentIndex, InputInv, LiveOK, LiveShape
  <2> QED BY <2>1, <2>3, <2>4, SameDeletes, SameSplitsKept, SearchQuiet DEF Gone
<1> QED BY <1>1, <1>2, <1>3, <1>4 DEF on_commit

LEMMA SearchSeal ==
    ASSUME DurableInv, InputInv, TierInv, IndexInv, SearchInv, StagedIds', seal \/ SealFail
    PROVE  SearchInv'
<1>1. UNCHANGED <<rows, todo, declared, search>> /\ Gone \subseteq Gone'
  BY DEF seal, SealStart, UpdatePut, UpdateManifest, UpdateTombstones, SealDelete, SealClear, SealEmpty, SealFail,
         excuses, Gone
<1>2. Pending' = Pending
  BY <1>1, QueueKept
<1>3. CASE SealStart \/ SealClear \/ SealEmpty \/ SealFail
  <2>1. UNCHANGED <<manifest, deletes, splits>>
    BY <1>3 DEF SealStart, SealClear, SealEmpty, SealFail, durableVars
  <2>2. live'.covered \subseteq live.covered
    <3>1. CASE SealStart
      <4>1. PICK s : /\ s = live \/ s = commit_and_reload(live)
                     /\ live' = [s EXCEPT !.sealing = TRUE, !.dirty = FALSE]
        BY <3>1 DEF SealStart
      <4>2. s.covered = live.covered /\ s = [docs |-> s.docs, visible |-> s.visible, tombs |-> s.tombs,
              covered |-> s.covered, dirty |-> s.dirty, sealing |-> s.sealing]
        BY <4>1 DEF InputInv, LiveOK, LiveShape, commit_and_reload
      <4> QED BY <4>1, <4>2
    <3>2. CASE SealClear
      BY <3>2 DEF SealClear, InputInv, LiveOK, LiveShape
    <3>4. CASE SealEmpty
      BY <3>4, EmptySteps DEF InputInv, LiveOK, LiveShape
    <3>3. CASE SealFail
      BY <3>3 DEF SealFail, abort_seal, InputInv, LiveOK, LiveShape
    <3> QED BY <1>3, <3>1, <3>2, <3>3, <3>4
  <2> QED BY <1>1, <1>2, <2>1, <2>2, SameDeletes, SameSplitsKept, SearchQuiet
<1>4. CASE UpdatePut
  <2>1. PICK m \in Loads(manifest) : \E docs : splits' = With(splits, mint_split_id(m.value), docs)
    BY <1>4, Zenon DEF UpdatePut
  <2>2. PICK docs : splits' = With(splits, mint_split_id(manifest), docs)
    BY <2>1, NoReadFails
  <2>3. mint_split_id(manifest) \notin Ids(manifest) /\ Ids(manifest) \subseteq DOMAIN splits
    BY MintedIdIsNew DEF DurableInv, Backed
  <2>4. SameSplits(manifest, splits, splits')
    BY <2>2, <2>3, PutSplit DEF SameSplits
  <2>5. UNCHANGED <<manifest, deletes, live>>
    BY <1>4 DEF UpdatePut
  <2> QED BY <1>1, <1>2, <2>4, <2>5, SameDeletes, SearchQuiet
<1>5. CASE UpdateManifest
  <2>1. UNCHANGED <<deletes, splits, live>> /\ manifest' = job.manifest /\ job.pc = "manifest"
    BY <1>5 DEF UpdateManifest
  <2>2. Ids(manifest) \subseteq Ids(manifest') /\ SameSplits(manifest, splits, splits')
    BY <2>1 DEF SearchInv, StagedIds, SameSplits
  <2>3. \A x \in Searcher : search'[x].steady \cap Pending' = {}
    BY <1>1, <1>2 DEF SearchInv, Running
  <2>4. \A x \in Searcher : \A pk \in search'[x].steady \ Gone' :
               /\ declared => pk \notin Gone
               /\ rows'[pk] = rows[pk]
               /\ pk \notin live.covered => pk \notin live'.covered /\ SameAt(deletes', deletes, pk)
    BY <1>1, <2>1, SameDeletes
  <2> QED BY <1>1, <2>2, <2>3, <2>4, SearchFunction, SearchesKept
<1>6. CASE UpdateTombstones \/ SealDelete
  <2>1. UNCHANGED <<manifest, splits, live>>
    BY <1>6 DEF UpdateTombstones, SealDelete
  <2>2. DOMAIN job.docs \subseteq live.covered \cup lost /\ job.tombs \subseteq live.covered \cup lost
    BY <1>6 DEF UpdateTombstones, SealDelete, IndexInv, SnapshotOK, SnapshotPc
  <2>3. \A pk \in Pk \ (live.covered \cup lost) : SameAt(deletes', deletes, pk)
    <3>1. CASE UpdateTombstones
      <4>1. deletes' = job.deletes /\ job.pc = "tombstones"
        BY <3>1 DEF UpdateTombstones
      <4>2. \A pk \in Pk : pk \notin DOMAIN job.docs => SameAt(job.deletes, deletes, pk)
        BY <4>1 DEF TierInv, StagedOK, StagedTombstones
      <4> QED BY <2>2, <4>1, <4>2
    <3>2. CASE SealDelete
      <4>1. PICK m \in Loads(manifest), d \in Loads(deletes) :
              deletes' = delete_docs_at(d.value, job.tombs, max_generation(m.value))
        BY <3>2 DEF SealDelete
      <4>2. m.value = manifest /\ d.value = deletes
        BY NoReadFails
      <4>3. TombsOK(deletes) /\ max_generation(manifest) \in Nat
        BY GenerationIsGreatest DEF TierInv, TierOK, TombsBelow, DurableInv, Backed
      <4>4. \A pk : pk \notin job.tombs => SameAt(deletes', deletes, pk)
        BY <4>1, <4>2, <4>3, TombstonesRaised
      <4> QED BY <2>2, <4>4
    <3> QED BY <1>6, <3>1, <3>2
  <2>4. \A x \in Searcher : search'[x].steady \cap Pending' = {} /\ search'[x].steady \subseteq Pk
    BY <1>1, <1>2 DEF SearchInv, Running
  <2>5. \A x \in Searcher : \A pk \in search'[x].steady \ Gone' :
               /\ declared => pk \notin Gone
               /\ rows'[pk] = rows[pk]
               /\ pk \notin live.covered =>
                     pk \notin live'.covered /\ (Loaded(search[x]) => SameAt(deletes', deletes, pk))
    BY <1>1, <2>1, <2>3, <2>4 DEF Gone
  <2>6. Ids(manifest) \subseteq Ids(manifest') /\ SameSplits(manifest, splits, splits')
    BY <2>1, SameSplitsKept
  <2> QED BY <1>1, <2>4, <2>5, <2>6, SearchFunction, SearchesKept
<1> QED BY <1>3, <1>4, <1>5, <1>6 DEF seal

\* A compaction in view of a search takes every key out of it.
LEMMA SearchCompact ==
    ASSUME DurableInv, InputInv, TierInv, IndexInv, SearchInv, StagedIds', maybe_compact \/ CompactFail
    PROVE  SearchInv'
<1>1. UNCHANGED <<rows, todo, declared, live>> /\ Gone' = Gone
  BY DEF maybe_compact, CompactSkip, CompactPut, CompactPersist, Collect, CompactFail, excuses, Gone
<1>2. Pending' = Pending
  BY <1>1, QueueKept
<1>3. CASE CompactSkip \/ CompactFail
  <2>1. UNCHANGED <<manifest, deletes, splits, search>>
    BY <1>3 DEF CompactSkip, CompactFail, durableVars
  <2> QED BY <1>1, <1>2, <2>1, SameDeletes, SameSplitsKept, SearchQuiet
<1>4. CASE CompactPut
  <2>1. PICK c : c = compact(manifest, deletes, splits)
    OBVIOUS
  <2>2. UNCHANGED <<manifest, deletes, search>> /\ splits' = With(splits, c.id, c.split)
    <3>1. PICK m \in Loads(manifest), d \in Loads(deletes) :
            splits' = With(splits, compact(m.value, d.value, splits).id, compact(m.value, d.value, splits).split)
      BY <1>4, Zenon DEF CompactPut
    <3>2. m.value = manifest /\ d.value = deletes
      BY NoReadFails
    <3> QED BY <1>4, <2>1, <3>1, <3>2 DEF CompactPut
  <2>3. IsManifest(manifest) /\ Ids(manifest) \subseteq DOMAIN splits
    BY DEF DurableInv, Backed
  <2>4. c.id \notin Ids(manifest)
    <3>1. compact(manifest, deletes, splits).id = <<"compacted", max_generation(manifest) + 1>>
      BY CompactParts
    <3> QED BY <2>1, <2>3, <3>1, CompactedIdIsNew
  <2>5. SameSplits(manifest, splits, splits')
    BY <2>2, <2>3, <2>4, PutSplit DEF SameSplits
  <2> QED BY <1>1, <1>2, <2>2, <2>5, SameDeletes, SearchQuiet
<1>5. CASE CompactPersist \/ Collect
  <2>1. search' = [x \in Searcher |-> IF Loaded(search[x]) THEN [search[x] EXCEPT !.steady = {}] ELSE search[x]]
    BY <1>5 DEF CompactPersist, Collect, Disturb, IndexInv, Disputes, Loaded
  <2>2. ASSUME NEW x \in Searcher
        PROVE  /\ search'[x] = [search[x] EXCEPT !.steady = search'[x].steady]
               /\ search'[x].steady \subseteq search[x].steady
               /\ search'[x].steady \cap Pending' = {}
               /\ Loaded(search[x]) => search'[x].steady = {}
    <3>1. SearchShape(search[x]) /\ search[x].steady \cap Pending = {}
      BY DEF SearchInv, Running
    <3>2. CASE Loaded(search[x])
      <4>1. search'[x] = [search[x] EXCEPT !.steady = {}]
        BY <2>1, <3>2
      <4> QED BY <3>1, <4>1 DEF SearchShape
    <3>3. CASE ~ Loaded(search[x])
      <4>1. search'[x] = search[x]
        BY <2>1, <3>3
      <4> QED BY <1>2, <3>1, <3>3, <4>1 DEF SearchShape
    <3> QED BY <3>2, <3>3
  <2>3. DOMAIN search' = Searcher /\ search' = [x \in Searcher |-> search'[x]]
    BY <2>1
  <2>4. ASSUME NEW x \in Searcher, NEW pk \in search'[x].steady \ Gone'
        PROVE  /\ declared => pk \notin Gone
               /\ rows'[pk] = rows[pk]
               /\ pk \notin live.covered =>
                     pk \notin live'.covered /\ (Loaded(search[x]) => SameAt(deletes', deletes, pk))
    BY <1>1, <2>2, <2>4
  <2> QED BY <1>1, <2>2, <2>3, <2>4, SearchesKept
<1> QED BY <1>3, <1>4, <1>5 DEF maybe_compact

LEMMA SearchDefine ==
    ASSUME InputInv, SearchInv, StagedIds', install_def \/ persist_registry \/ UNCHANGED vars
    PROVE  SearchInv'
<1>1. UNCHANGED <<rows, todo, manifest, deletes, splits>> /\ (declared => declared')
  <2>1. CASE install_def
    <3>1. UNCHANGED <<rows, todo, manifest, deletes, splits>> /\ declared' = TRUE
      BY <2>1 DEF install_def, durableVars
    <3> QED BY <3>1
  <2>2. CASE persist_registry
    BY <2>2 DEF persist_registry, durableVars
  <2>3. CASE UNCHANGED vars
    BY <2>3 DEF vars
  <2> QED BY <2>1, <2>2, <2>3
<1>2. declared => Gone \subseteq Gone'
  BY DEF install_def, persist_registry, vars, excuses, Gone
<1>3. live'.covered \subseteq live.covered
  BY NewSegmentEmpty DEF install_def, persist_registry, vars
<1>4. CASE persist_registry \/ UNCHANGED vars
  <2>1. search' = search
    BY <1>4 DEF persist_registry, vars
  <2> QED BY <1>1, <1>2, <1>3, <2>1, QueueKept, SameDeletes, SameSplitsKept, SearchQuiet
<1>5. CASE install_def
  <2>1. search' = [x \in Searcher |-> IF search[x].pc \in {"commit", "live", "covered"}
                                     THEN [search[x] EXCEPT !.pc = "manifest", !.steady = {}] ELSE search[x]]
    BY <1>5 DEF install_def
  <2>2. search' = [x \in Searcher |-> search'[x]]
    BY <2>1
  <2>3. ASSUME NEW x \in Searcher
        PROVE  Running(search[x])' /\ \A pk \in (search[x].steady \ Gone)' : Watched(search[x], pk)'
    <3>1. PICK q, r : q = search[x] /\ r = search'[x]
      OBVIOUS
    <3>2. Running(q) /\ \A pk \in q.steady \ Gone : Watched(q, pk)
      BY <3>1 DEF SearchInv
    <3>3. Running(r)' /\ \A pk \in r.steady \ Gone' : Watched(r, pk)'
      <4>1. CASE q.pc \in {"commit", "live", "covered"}
        <5>1. r = [q EXCEPT !.pc = "manifest", !.steady = {}]
          BY <2>1, <3>1, <4>1
        <5>2. SearchShape(r) /\ r.pc = "manifest" /\ r.steady = {} /\ r.term = q.term /\ r.hits = q.hits
          BY <3>2, <5>1 DEF Running, SearchShape
        <5> QED BY <1>1, <3>2, <4>1, <5>2 DEF Running, SearchShape
      <4>2. CASE q.pc \notin {"commit", "live", "covered"}
        <5>1. r = q
          BY <2>1, <3>1, <4>2
        <5>2. q.steady # {} => declared
          BY <3>2 DEF Running
        <5>3. \A pk \in r.steady \ Gone' :
                 /\ pk \notin Gone /\ rows'[pk] = rows[pk]
                 /\ pk \notin live.covered => pk \notin live'.covered /\ (Loaded(q) => SameAt(deletes', deletes, pk))
          BY <1>1, <1>2, <1>3, <5>1, <5>2, SameDeletes
        <5>4. r.steady \cap Pending' = {} /\ SearchShape(r) /\ (q.pc # "idle" => declared')
          BY <1>1, <3>2, <5>1, QueueKept DEF Running
        <5>5. Ids(manifest) \subseteq Ids(manifest') /\ SameSplits(manifest, splits, splits')
          BY <1>1, SameSplitsKept
        <5> QED BY <3>2, <5>1, <5>3, <5>4, <5>5, SearchKept
      <4> QED BY <4>1, <4>2
    <3>4. Running(r)' <=> Running(search[x])'
      BY <3>1 DEF Running, SearchShape
    <3>5. \A pk : Watched(r, pk)' <=> Watched(search[x], pk)'
      BY <3>1 DEF Watched
    <3> QED BY <3>1, <3>3, <3>4, <3>5
  <2> QED BY <2>2, <2>3 DEF SearchInv
<1> QED BY <1>4, <1>5

LEMMA SearchCrash ==
    ASSUME SearchInv, StagedIds', Crash
    PROVE  SearchInv'
<1>1. search' = [x \in Searcher |-> IdleSearch]
  BY DEF Crash
<1>2. \A x \in Searcher : search'[x] = IdleSearch
  BY <1>1
<1>3. search' = [x \in Searcher |-> search'[x]]
  BY <1>1
<1>4. ASSUME NEW x \in Searcher
      PROVE  Running(search[x])' /\ \A pk \in (search[x].steady \ Gone)' : Watched(search[x], pk)'
  BY <1>2, IdleSearchOK DEF Running, SearchShape
<1> QED BY <1>3, <1>4 DEF SearchInv

\* A step of one search.
LEMMA SearchOwn ==
    ASSUME SearchInv, StagedIds', NEW y \in Searcher, NEW r, search' = [search EXCEPT ![y] = r],
           UNCHANGED <<rows, todo, declared, manifest, deletes, splits, lost, astray>>, live'.covered = live.covered,
           Running(r), \A pk \in r.steady \ Gone : Watched(r, pk)
    PROVE  SearchInv'
<1>1. search = [x \in Searcher |-> search[x]]
  BY DEF SearchInv
<1>2. DOMAIN search = Searcher
  BY <1>1
<1>3. search'[y] = r /\ \A x \in Searcher : x # y => search'[x] = search[x]
  BY <1>2
<1>4. search' = [x \in Searcher |-> search'[x]]
  BY <1>2
<1>5. Pending' = Pending /\ Gone' = Gone
  BY QueueKept DEF Gone
<1>6. ASSUME NEW x \in Searcher
      PROVE  Running(search[x])' /\ \A pk \in (search[x].steady \ Gone)' : Watched(search[x], pk)'
  <2>1. PICK q : q = search'[x]
    OBVIOUS
  <2>2. Running(q) /\ \A pk \in q.steady \ Gone : Watched(q, pk)
    BY <1>3, <2>1 DEF SearchInv
  <2>3. Running(search[x])'
    BY <1>5, <2>1, <2>2 DEF Running, SearchShape
  <2>4. ASSUME NEW pk \in q.steady \ Gone PROVE Watched(search[x], pk)'
    <3>1. Watched(q, pk)
      BY <2>2, <2>4
    <3> QED BY <2>1, <3>1 DEF Watched
  <2> QED BY <1>5, <2>1, <2>3, <2>4
<1> QED BY <1>4, <1>6 DEF SearchInv

LEMMA StartStep ==
    ASSUME InputInv, SearchInv, StagedIds', NEW x \in Searcher, SearchStart(x)
    PROVE  SearchInv'
<1>1. PICK t \in QueryTerm :
        search' = [search EXCEPT ![x] = [IdleSearch EXCEPT !.pc = IF live.dirty THEN "commit" ELSE "live", !.term = t,
                                            !.steady = Pk \ (lost \cup astray \cup Pending)]]
  BY DEF SearchStart
<1>2. PICK r : r = [IdleSearch EXCEPT !.pc = IF live.dirty THEN "commit" ELSE "live", !.term = t,
                                            !.steady = Pk \ (lost \cup astray \cup Pending)]
  OBVIOUS
<1>3. /\ SearchShape(r) /\ r.pc \in {"commit", "live"} /\ r.term = t /\ r.hits = {}
      /\ r.steady = Pk \ (lost \cup astray \cup Pending)
  BY <1>2 DEF IdleSearch, SearchShape
<1>4. declared /\ UNCHANGED <<rows, todo, declared, manifest, deletes, splits, lost, astray>> /\ live' = [live EXCEPT !.dirty = FALSE]
  BY DEF SearchStart, durableVars, excuses
<1>5. live'.covered = live.covered
  BY <1>4 DEF InputInv, LiveOK, LiveShape
<1>6. Running(r)
  BY <1>3, <1>4, FtsAssumption DEF Running
<1>7. \A pk : Watched(r, pk)
  BY <1>3 DEF Watched
<1> QED BY <1>1, <1>2, <1>4, <1>5, <1>6, <1>7, SearchOwn

LEMMA CommitStep ==
    ASSUME InputInv, SearchInv, StagedIds', NEW x \in Searcher, SearchCommit(x)
    PROVE  SearchInv'
<1>1. PICK q, r : q = search[x] /\ r = [q EXCEPT !.pc = "live"]
  OBVIOUS
<1>2. /\ q.pc = "commit" /\ search' = [search EXCEPT ![x] = r] /\ live' = commit_and_reload(live)
      /\ UNCHANGED <<rows, todo, declared, manifest, deletes, splits, lost, astray>>
  BY <1>1 DEF SearchCommit, durableVars, excuses
<1>3. live'.covered = live.covered
  BY <1>2 DEF commit_and_reload, InputInv, LiveOK, LiveShape
<1>4. Running(q)
  BY <1>1 DEF SearchInv
<1>5. SearchShape(r) /\ r.pc = "live" /\ r.term = q.term /\ r.hits = q.hits /\ r.steady = q.steady
  BY <1>1, <1>4 DEF Running, SearchShape
<1>6. Running(r)
  BY <1>2, <1>4, <1>5 DEF Running
<1>7. \A pk : Watched(r, pk)
  BY <1>5 DEF Watched
<1> QED BY <1>2, <1>3, <1>6, <1>7, SearchOwn

\* The hits of the live segment: a key that is covered when it is committed in
\* full is found there, or has another row.
LEMMA LiveStep ==
    ASSUME InputInv, IndexInv, SearchInv, StagedIds', NEW x \in Searcher, SearchLive(x)
    PROVE  SearchInv'
<1>1. PICK q, r : /\ q = search[x]
                  /\ r = [q EXCEPT !.pc = "covered", !.hits = LiveHits(live, q.term),
                              !.steady = q.steady \ Hidden(live)]
  OBVIOUS
<1>2. /\ q.pc = "live" /\ search' = [search EXCEPT ![x] = r]
      /\ UNCHANGED <<rows, todo, declared, manifest, deletes, splits, lost, astray, live>>
  BY <1>1 DEF SearchLive, durableVars, excuses
<1>3. Running(q)
  BY <1>1 DEF SearchInv
<1>4. /\ SearchShape(r) /\ r.pc = "covered" /\ r.term = q.term /\ r.hits = LiveHits(live, q.term)
      /\ r.steady = q.steady \ Hidden(live)
  BY <1>1, <1>3 DEF Running, SearchShape
<1>5. declared /\ q.term \in Text /\ q.steady \subseteq Pk \ Pending
  BY <1>2, <1>3 DEF Running
<1>6. Running(r)
  <2>1. r.hits \subseteq Pk
    BY <1>4 DEF LiveHits, InputInv, LiveOK, DocsOK
  <2> QED BY <1>3, <1>4, <1>5, <2>1 DEF Running
<1>7. ASSUME NEW pk \in r.steady \ Gone PROVE Watched(r, pk)
  <2>1. CASE pk \notin live.covered
    <3>1. pk \notin r.hits
      BY <1>4, <2>1 DEF LiveHits, IndexInv, SegmentOK
    <3> QED BY <1>4, <2>1, <3>1 DEF Watched
  <2>2. CASE pk \in live.covered
    <3>1. pk \in Pk \ Gone /\ pk \notin Pending /\ pk \notin Hidden(live)
      BY <1>4, <1>5, <1>7
    <3>2. pk \in r.hits <=> rows[pk] = q.term
      BY <1>4, <1>5, <2>2, <3>1, CoveredSeen
    <3> QED BY <1>4, <3>2 DEF Watched
  <2> QED BY <2>1, <2>2
<1> QED BY <1>2, <1>6, <1>7, SearchOwn

LEMMA CoveredStep ==
    ASSUME SearchInv, StagedIds', NEW x \in Searcher, SearchCovered(x)
    PROVE  SearchInv'
<1>1. PICK q, r : q = search[x] /\ r = [q EXCEPT !.pc = "manifest", !.covered = live.covered]
  OBVIOUS
<1>2. /\ q.pc = "covered" /\ search' = [search EXCEPT ![x] = r]
      /\ UNCHANGED <<rows, todo, declared, manifest, deletes, splits, lost, astray, live>>
  BY <1>1 DEF SearchCovered, durableVars, excuses
<1>3. Running(q) /\ \A pk \in q.steady \ Gone : Watched(q, pk)
  BY <1>1 DEF SearchInv
<1>4. /\ SearchShape(r) /\ r.pc = "manifest" /\ r.term = q.term /\ r.hits = q.hits /\ r.steady = q.steady
      /\ r.covered = live.covered
  BY <1>1, <1>3 DEF Running, SearchShape
<1>5. Running(r)
  BY <1>2, <1>3, <1>4 DEF Running
<1>6. ASSUME NEW pk \in r.steady \ Gone PROVE Watched(r, pk)
  <2>1. Watched(q, pk)
    BY <1>3, <1>4, <1>6
  <2> QED BY <1>2, <1>4, <2>1 DEF Watched
<1> QED BY <1>2, <1>5, <1>6, SearchOwn

LEMMA ManifestStep ==
    ASSUME InputInv, TierInv, IndexInv, SearchInv, StagedIds', NEW x \in Searcher, SearchManifest(x)
    PROVE  SearchInv'
<1>1. PICK q, r : q = search[x] /\ r = [q EXCEPT !.pc = "deletes", !.manifest = manifest]
  OBVIOUS
<1>2. /\ q.pc = "manifest" /\ search' = [search EXCEPT ![x] = r]
      /\ UNCHANGED <<rows, todo, declared, manifest, deletes, splits, lost, astray, live>>
  <2>1. PICK m \in Loads(manifest) : search' = [search EXCEPT ![x] = [@ EXCEPT !.pc = "deletes", !.manifest = m.value]]
    BY DEF SearchManifest
  <2>2. m.value = manifest
    BY NoReadFails
  <2>3. search' = [search EXCEPT ![x] = r]
    BY <1>1, <2>1, <2>2
  <2> QED BY <1>1, <2>3 DEF SearchManifest, durableVars, excuses
<1>3. Running(q) /\ \A pk \in q.steady \ Gone : Watched(q, pk)
  BY <1>1 DEF SearchInv
<1>4. /\ SearchShape(r) /\ r.pc = "deletes" /\ r.term = q.term /\ r.hits = q.hits /\ r.steady = q.steady
      /\ r.covered = q.covered /\ r.manifest = manifest
  BY <1>1, <1>3 DEF Running, SearchShape
<1>5. Running(r)
  BY <1>2, <1>3, <1>4 DEF Running
<1>6. ASSUME NEW pk \in r.steady \ Gone PROVE Watched(r, pk)
  <2>1. Watched(q, pk) /\ declared /\ q.term \in Text /\ pk \in Pk \ Gone /\ pk \notin Pending
    BY <1>2, <1>3, <1>4, <1>6 DEF Running
  <2>2. ASSUME pk \notin q.covered PROVE Hit(manifest, deletes, splits, pk, q.term) <=> rows[pk] = q.term
    <3>1. pk \notin live.covered
      BY <1>2, <2>1, <2>2 DEF Watched
    <3> QED BY <2>1, <3>1, UncoveredShown
  <2> QED BY <1>2, <1>4, <2>1, <2>2 DEF Watched
<1> QED BY <1>2, <1>5, <1>6, SearchOwn

LEMMA DeletesStep ==
    ASSUME InputInv, TierInv, SearchInv, StagedIds', NEW x \in Searcher, SearchDeletes(x)
    PROVE  SearchInv'
<1>1. PICK q, r : q = search[x] /\ r = [q EXCEPT !.pc = "open", !.deletes = deletes]
  OBVIOUS
<1>2. /\ q.pc = "deletes" /\ search' = [search EXCEPT ![x] = r]
      /\ UNCHANGED <<rows, todo, declared, manifest, deletes, splits, lost, astray, live>>
  <2>1. PICK d \in Loads(deletes) : search' = [search EXCEPT ![x] = [@ EXCEPT !.pc = "open", !.deletes = d.value]]
    BY DEF SearchDeletes
  <2>2. d.value = deletes
    BY NoReadFails
  <2>3. search' = [search EXCEPT ![x] = r]
    BY <1>1, <2>1, <2>2
  <2> QED BY <1>1, <2>3 DEF SearchDeletes, durableVars, excuses
<1>3. Running(q) /\ \A pk \in q.steady \ Gone : Watched(q, pk)
  BY <1>1 DEF SearchInv
<1>4. /\ SearchShape(r) /\ r.pc = "open" /\ r.term = q.term /\ r.hits = q.hits /\ r.steady = q.steady
      /\ r.covered = q.covered /\ r.manifest = q.manifest /\ r.deletes = deletes
  BY <1>1, <1>3 DEF Running, SearchShape
<1>5. Running(r)
  BY <1>2, <1>3, <1>4 DEF Running
<1>6. ASSUME NEW pk \in r.steady \ Gone PROVE Watched(r, pk)
  <2>1. Watched(q, pk)
    BY <1>3, <1>4, <1>6
  <2> QED BY <1>2, <1>4, <2>1 DEF Watched
<1> QED BY <1>2, <1>5, <1>6, SearchOwn

\* Nothing is cut from a result that is within the limit.
LEMMA NothingCut ==
    ASSUME SearchInv, NEW S \in SUBSET Pk, NEW h \in Truncations(S)
    PROVE  h = S
<1>1. IsFiniteSet(S) /\ Cardinality(S) <= Cardinality(Pk)
  BY FS_Subset DEF SearchInv
<1>2. Cardinality(S) \in Nat /\ Cardinality(Pk) \in Nat /\ UnionLimit \in Nat
  BY <1>1, FS_CardinalityType, FtsAssumption DEF SearchInv
<1>3. Cardinality(Pk) <= UnionLimit
  BY DEF SearchInv
<1>4. Cardinality(S) <= UnionLimit
  BY <1>1, <1>2, <1>3
<1> QED BY <1>4 DEF Truncations

LEMMA OpenStep ==
    ASSUME SearchInv, StagedIds', NEW x \in Searcher, SearchOpen(x)
    PROVE  SearchInv'
<1>1. PICK q : q = search[x]
  OBVIOUS
<1>2. q.pc = "open" /\ UNCHANGED <<rows, todo, declared, manifest, deletes, splits, lost, astray, live>>
  BY <1>1 DEF SearchOpen, durableVars, excuses
<1>3. Running(q) /\ \A pk \in q.steady \ Gone : Watched(q, pk)
  BY <1>1 DEF SearchInv
<1>4. CASE search' = [search EXCEPT ![x].pc = "failed"]
  <2>1. PICK r : r = [q EXCEPT !.pc = "failed"]
    OBVIOUS
  <2>2. search' = [search EXCEPT ![x] = r]
    BY <1>1, <1>4, <2>1
  <2>3. SearchShape(r) /\ r.pc = "failed" /\ r.term = q.term /\ r.hits = q.hits /\ r.steady = q.steady
    BY <1>3, <2>1 DEF Running, SearchShape
  <2>4. Running(r) /\ \A pk : Watched(r, pk)
    BY <1>2, <1>3, <2>3 DEF Running, Watched
  <2> QED BY <1>2, <2>2, <2>4, SearchOwn
<1>5. CASE \E h \in Truncations(DurableHits(q.manifest, q.deletes, splits, q.term)) :
           \E u \in Truncations(q.hits \cup (h \ q.covered)) :
               search' = [search EXCEPT ![x] = [@ EXCEPT !.pc = "done", !.hits = u]]
  <2>1. PICK h \in Truncations(DurableHits(q.manifest, q.deletes, splits, q.term)) :
           \E u \in Truncations(q.hits \cup (h \ q.covered)) :
               search' = [search EXCEPT ![x] = [@ EXCEPT !.pc = "done", !.hits = u]]
    BY <1>5
  <2>2. PICK u \in Truncations(q.hits \cup (h \ q.covered)) :
               search' = [search EXCEPT ![x] = [@ EXCEPT !.pc = "done", !.hits = u]]
    BY <2>1
  <2>3. DurableHits(q.manifest, q.deletes, splits, q.term) \in SUBSET Pk
    BY DEF DurableHits
  <2>4. h = DurableHits(q.manifest, q.deletes, splits, q.term)
    BY <2>3, NothingCut
  <2>5. q.hits \cup (h \ q.covered) \in SUBSET Pk
    BY <1>3, <2>3, <2>4 DEF Running
  <2>6. u = q.hits \cup (h \ q.covered)
    BY <2>5, NothingCut
  <2>7. PICK r : r = [q EXCEPT !.pc = "done", !.hits = u]
    OBVIOUS
  <2>8. search' = [search EXCEPT ![x] = r]
    BY <1>1, <2>2, <2>7
  <2>9. SearchShape(r) /\ r.pc = "done" /\ r.term = q.term /\ r.hits = u /\ r.steady = q.steady
    BY <1>3, <2>7 DEF Running, SearchShape
  <2>10. Running(r)
    BY <1>2, <1>3, <2>5, <2>6, <2>9 DEF Running
  <2>11. ASSUME NEW pk \in r.steady \ Gone PROVE Watched(r, pk)
    <3>1. Watched(q, pk) /\ pk \in Pk
      BY <1>3, <2>9, <2>11 DEF Running
    <3>2. pk \in h <=> Hit(q.manifest, q.deletes, splits, pk, q.term)
      BY <2>4, <3>1, HitsAreDurable
    <3>3. pk \in u <=> rows[pk] = q.term
      BY <1>2, <2>6, <3>1, <3>2 DEF Watched
    <3> QED BY <2>9, <3>3 DEF Watched
  <2> QED BY <1>2, <2>8, <2>10, <2>11, SearchOwn
<1> QED BY <1>1, <1>4, <1>5 DEF SearchOpen

LEMMA EndStep ==
    ASSUME SearchInv, StagedIds', NEW x \in Searcher, SearchEnd(x)
    PROVE  SearchInv'
<1>1. PICK r : r = IdleSearch
  OBVIOUS
<1>2. /\ search' = [search EXCEPT ![x] = r]
      /\ UNCHANGED <<rows, todo, declared, manifest, deletes, splits, lost, astray, live>>
  BY <1>1 DEF SearchEnd, durableVars, excuses
<1>3. Running(r) /\ r.steady = {}
  BY <1>1, IdleRuns, IdleSearchOK
<1> QED BY <1>2, <1>3, SearchOwn

SteadyInv == EngineInv /\ SearchInv

LEMMA SteadyNext == SteadyInv /\ [Next]_vars => SteadyInv'
<1> SUFFICES ASSUME SteadyInv, [Next]_vars PROVE SteadyInv'
  OBVIOUS
<1>1. DurableInv /\ InputInv /\ TierInv /\ PendingInv /\ IndexInv /\ SearchInv /\ StagedIds
  BY DEF SteadyInv, EngineInv, SearchInv
<1>2. EngineInv'
  BY EngineNext DEF SteadyInv
<1>3. StagedIds'
  BY <1>1, StagedIdsNext
<1>4. ASSUME NEW x \in Searcher, SearchStart(x) \/ union_hits(x) PROVE SearchInv'
  BY <1>1, <1>3, <1>4, StartStep, CommitStep, LiveStep, CoveredStep, ManifestStep, DeletesStep, OpenStep, EndStep
     DEF union_hits
<1>5. SearchInv'
  BY <1>1, <1>3, <1>4, SearchCommits, SearchSeal, SearchCompact, SearchDefine, SearchCrash DEF Next
<1> QED BY <1>2, <1>5 DEF SteadyInv

\* A search whose steps seals interleave answers exactly for every row that no
\* write and no compaction touched meanwhile (union_hits: live hits, coverage, manifest,
\* tombstones, splits, read in that order), under the hypotheses of SearchesExact and
\* as long as the table has no more rows than a result may have hits (UNION_LIMIT).
THEOREM SteadyRowsAnswered ==
    /\ MaxReadFaults = 0 /\ Careful /\ Excused = Disputes
    /\ IsFiniteSet(Pk) /\ Cardinality(Pk) <= UnionLimit
    /\ Spec
    => []SteadyRowsExact
<1>1. MaxReadFaults = 0 /\ Careful /\ Excused = Disputes /\ IsFiniteSet(Pk) /\ Cardinality(Pk) <= UnionLimit /\ Init => SteadyInv
  BY EngineInit, SearchInit DEF SteadyInv
<1>2. SteadyInv => SteadyRowsExact
  BY DEF SteadyInv, SearchInv, Watched, SteadyRowsExact, Gone
<1> QED BY <1>1, <1>2, SteadyNext, PTL DEF Spec

=============================================================================
