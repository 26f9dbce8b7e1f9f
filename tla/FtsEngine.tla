----------------------------- MODULE FtsEngine -----------------------------
(***************************************************************************)
(* The full-text index of one text column (crates/bluedb-engine:           *)
(* fts_engine.rs, live_segment.rs, fts.rs; crates/bluedb-fts: writer.rs,   *)
(* tombstones.rs, manifest.rs, policy.rs, merge.rs, gc.rs, search.rs).     *)
(* Commits are reported to a live segment in memory; a scheduler seals it  *)
(* into durable splits and compacts them; a search merges both tiers.      *)
(*                                                                         *)
(* A text is one word, and a search is for one word.  Scores are left out: *)
(* where the code cuts a result to a limit, the model keeps any subset of  *)
(* that size.  Every put, get and delete of a blob ends a step, and so     *)
(* does every point where a synchronous call takes or checks a flag that   *)
(* another thread sets.                                                    *)
(*                                                                         *)
(* External: tantivy (an index is the set of its documents, a commit makes *)
(* the buffered ones visible), SlateDB (a put is durable when it returns,  *)
(* and may fail), the SQL store, which reports a commit after it is        *)
(* durable (SqlStore.tla).                                                 *)
(***************************************************************************)
EXTENDS Integers, Sequences, FiniteSets, SequencesExt, FiniteSetsExt, Functions, TLC

CONSTANTS
    Pk, Text,        \* primary keys and words
    Null, Absent,    \* a row without a text; no row
    Commits,         \* the transactions: sequences of [pk, row]
    Writer, Searcher,
    Threads,         \* the worker threads of the runtime
    Careful,         \* whether a key is never re-inserted before the seal of its delete, nor its text set to NULL
    Excused,         \* the disagreements of Disputes below that the properties leave out
    UnionLimit,      \* UNION_LIMIT
    MaxSplits, MinSplits, MaxDeadPercent,  \* CompactionPolicy
    QueryTerm,       \* the words searched for
    MaxCommits, MaxSearches, MaxCreates,  \* bounds
    MaxFaults,       \* bound: failed puts and ends of the process, together
    MaxReadFaults    \* bound: failed reads of the manifest or the tombstones

VARIABLES
    rows,       \* the table
    todo,       \* per writer: changes committed and not yet handed to the index
    writer,     \* the writer inside LiveSegment::index or tombstone, past the gate
    live,       \* the live segment
    declared, registered,  \* the definition in memory, and in fts/_registry
    creating,   \* create_fulltext_index between install and persist
    manifest, deletes, splits,  \* the durable tier: manifest.json, deletes.json, split blobs
    job,        \* the seal scheduler
    search,     \* per searcher: union_hits
    sealed,     \* history: the version of each key the last sealed update or delete left
    torn,       \* history: keys whose update stopped between manifest and tombstones
    lost,       \* history: keys whose last change the index was not told of
    astray,     \* history: keys whose last change it was told of, and forgot or took in the wrong order
    used        \* how much of each bound is used

vars == <<rows, todo, writer, live, declared, registered, creating, manifest, deletes, splits,
          job, search, sealed, torn, lost, astray, used>>
durableVars == <<manifest, deletes, splits>>
history == <<sealed, torn>>
excuses == <<lost, astray>>

Row == Text \cup {Null, Absent}
TextOf(row) == IF row \in Text THEN row ELSE Absent

(* Where the code and its comments disagree (README.md, section 5): a       *)
(* change that came in while a seal took its snapshot is forgotten; reports *)
(* of two commits arrive in the wrong order; a search reads while a seal    *)
(* empties the segment, while another search has yet to reload the reader,  *)
(* or while a compaction replaces what it has already loaded.               *)
Disputes == {"forgotten", "reordered", "emptying", "reader", "compaction"}
Excuse(kind, S) == IF kind \in Excused THEN S ELSE {}

(* A transaction has one change per key (SqlStore.tla, record_change). *)
ASSUME FtsAssumption ==
    /\ Null # Absent /\ Null \notin Text /\ Absent \notin Text /\ Absent \notin Pk
    /\ \A c \in Commits : /\ c \in Seq([pk : Pk, row : Row])
                          /\ \A i, j \in DOMAIN c : c[i].pk = c[j].pk => i = j
    /\ QueryTerm \subseteq Text
    /\ UnionLimit \in Nat /\ MaxReadFaults \in Nat
    /\ Excused \subseteq Disputes

Nobody == [pk |-> Absent]

Bump(b, max) == used[b] < max /\ used' = [used EXCEPT ![b] = @ + 1]
-----------------------------------------------------------------------------
(* A blob or a document is put under its id, or deleted. *)
With(f, k, v) == [x \in DOMAIN f \cup {k} |-> IF x = k THEN v ELSE f[x]]
Without(f, k) == Restrict(f, DOMAIN f \ {k})
-----------------------------------------------------------------------------
(* The live segment.  docs is what the tantivy writer holds, visible what   *)
(* its reader was last reloaded to.                                         *)

NewSegment == [docs |-> <<>>, visible |-> <<>>, tombs |-> {}, covered |-> {},
               dirty |-> FALSE, sealing |-> FALSE]

(* LiveSegment::index; the pk stays in the tombstones if it is there. *)
SegmentIndex(s, pk, t) ==
    [s EXCEPT !.docs = With(@, pk, t), !.covered = @ \cup {pk}, !.dirty = TRUE]

\* Mutant: a deleted key is not recorded as covered.
SegmentTombstone_uncovered(s, pk) ==
    [s EXCEPT !.docs = Without(@, pk), !.tombs = @ \cup {pk}, !.dirty = TRUE]

SegmentTombstone(s, pk) ==
    [s EXCEPT !.docs = Without(@, pk), !.tombs = @ \cup {pk}, !.covered = @ \cup {pk}, !.dirty = TRUE]

commit_and_reload(s) == [s EXCEPT !.visible = s.docs]

LiveHits(s, term) == {pk \in DOMAIN s.visible : s.visible[pk] = term /\ pk \notin s.tombs}

(* What the segment says of a key it covers. *)
LiveVersion(s, pk) == IF pk \in DOMAIN s.docs /\ pk \notin s.tombs THEN s.docs[pk] ELSE Absent
-----------------------------------------------------------------------------
(* The durable tier.  A manifest is a sequence of [id, gen, num_docs], a    *)
(* split a sequence of [pk, text], the tombstones a function from keys to   *)
(* the generation of the delete.                                            *)

max_generation(m) == Max({0} \cup {m[i].gen : i \in DOMAIN m})

delete_docs_at(d, pks, gen) ==
    [pk \in DOMAIN d \cup pks |->
        IF pk \notin pks THEN d[pk] ELSE IF pk \notin DOMAIN d \/ d[pk] < gen THEN gen ELSE d[pk]]

\* Mutant: a delete hides only older generations.
is_deleted_at_strict(d, pk, gen) == pk \in DOMAIN d /\ gen < d[pk]

is_deleted_at(d, pk, gen) == pk \in DOMAIN d /\ gen <= d[pk]

(* mint_split_id: past the highest split- id of the manifest; compacted     *)
(* splits have ids of their own kind.                                       *)
mint_split_id(m) == <<"split", Max({-1} \cup {m[i].id[2] : i \in {j \in DOMAIN m : m[j].id[1] = "split"}}) + 1>>

split_meta(id, gen, docs) == [id |-> id, gen |-> gen, num_docs |-> Len(docs)]

num_docs(m) == FoldLeft(LAMBDA n, s : n + s.num_docs, 0, m)

should_compact(m, d) ==
    /\ Len(m) >= MinSplits
    /\ \/ Len(m) > MaxSplits
       \/ num_docs(m) > 0 /\ 100 * Cardinality(DOMAIN d) > MaxDeadPercent * num_docs(m)

(* Compactor::compact over every split: the live copies in one split one    *)
(* generation up, and the tombstones of what was dropped for good cleared.  *)
(* A copy is the number of its split and its place there.                   *)
Copies(m, s) == UNION {{i} \X DOMAIN s[m[i].id] : i \in DOMAIN m}
DocAt(m, s, c) == s[m[c[1]].id][c[2]]
compact(m, d, s) ==
    LET all == Copies(m, s)
        kept == {c \in all : ~ is_deleted_at(d, DocAt(m, s, c).pk, m[c[1]].gen)}
        dropped == {DocAt(m, s, c).pk : c \in all} \ {DocAt(m, s, c).pk : c \in kept}
        gen == max_generation(m) + 1
        order == SetToSeq(kept)
        docs == [n \in 1..Cardinality(kept) |-> DocAt(m, s, order[n])]
    IN  [split |-> docs, id |-> <<"compacted", gen>>,
         manifest |-> <<split_meta(<<"compacted", gen>>, gen, docs)>>,
         deletes |-> Restrict(d, DOMAIN d \ dropped),
         superseded |-> {m[i].id : i \in DOMAIN m}]

(* multi_split_search_filtered_ids: matching copies no tombstone hides; one *)
(* hit per id.                                                              *)
DurableHits(m, d, s, term) ==
    {pk \in Pk : \E i \in DOMAIN m : \E j \in DOMAIN s[m[i].id] :
        /\ s[m[i].id][j] = [pk |-> pk, text |-> term]
        /\ ~ is_deleted_at(d, pk, m[i].gen)}

(* Over-fetching by the tombstones, the cut to the limit is the only one.   *)
Truncations(S) == IF Cardinality(S) <= UnionLimit THEN {S} ELSE kSubset(UnionLimit, S)
-----------------------------------------------------------------------------
(* Commits. *)

Changes(c) == {c[i].pk : i \in DOMAIN c}
Pending == UNION {Changes(todo[w]) : w \in Writer}
Deleting == {pk \in Pk : \E w \in Writer : \E i \in DOMAIN todo[w] : todo[w][i] = [pk |-> pk, row |-> Absent]}

Unhurried(c) == \A i \in DOMAIN c :
    LET pk == c[i].pk IN
    /\ c[i].row \in Text => pk \notin Deleting /\ ~ (declared /\ pk \in live.tombs)
    /\ c[i].row = Null => rows[pk] = Absent

(* A transaction's changes are visible; they are reported afterwards, in no *)
(* order with those of other transactions.                                  *)
Commit(w) ==
    \E c \in Commits :
        /\ todo[w] = <<>>
        /\ Careful => Unhurried(c)
        /\ Bump("commits", MaxCommits)
        /\ rows' = [pk \in Pk |-> IF pk \in Changes(c)
                                  THEN c[CHOOSE i \in DOMAIN c : c[i].pk = pk].row ELSE rows[pk]]
        /\ todo' = [todo EXCEPT ![w] = c]
        /\ search' = [x \in Searcher |-> [search[x] EXCEPT !.steady = @ \ Changes(c)]]
        /\ UNCHANGED <<writer, live, declared, registered, creating, durableVars, job, history, excuses>>

(* on_commit without a definition, or for a row without a text: nothing is  *)
(* done.                                                                    *)
on_commit_skip(w) ==
    /\ todo[w] # <<>>
    /\ ~ declared \/ Head(todo[w]).row = Null
    /\ todo' = [todo EXCEPT ![w] = Tail(@)]
    /\ lost' = IF declared THEN lost ELSE lost \cup {Head(todo[w]).pk}
    /\ UNCHANGED <<rows, writer, live, declared, registered, creating, durableVars, job, search, history, astray, used>>

(* wait_for_seal_to_finish, and the check after the writer is locked. *)
GateOpen == ~ live.sealing

on_commit_enter(w) ==
    /\ todo[w] # <<>> /\ Head(todo[w]).row # Null
    /\ declared /\ writer = Nobody
    /\ GateOpen
    /\ writer' = [pk |-> Head(todo[w]).pk, row |-> Head(todo[w]).row, by |-> w]
    /\ UNCHANGED <<rows, todo, live, declared, registered, creating, durableVars, job, search, history, excuses, used>>

on_commit_apply(w) ==
    /\ writer # Nobody /\ writer.by = w
    /\ live' = IF writer.row = Absent THEN SegmentTombstone(live, writer.pk)
               ELSE SegmentIndex(live, writer.pk, writer.row)
    /\ IF writer.row = TextOf(rows[writer.pk])
       THEN lost' = lost \ {writer.pk} /\ astray' = astray \ {writer.pk}
       ELSE astray' = astray \cup Excuse("reordered", {writer.pk}) /\ UNCHANGED lost
    /\ writer' = Nobody
    /\ todo' = [todo EXCEPT ![w] = Tail(@)]
    /\ UNCHANGED <<rows, declared, registered, creating, durableVars, job, search, history, used>>
-----------------------------------------------------------------------------
(* Definitions: install_def supersedes the definition with a fresh segment, *)
(* then the registry is written.  Rows are not read back: what the table    *)
(* holds, and what the superseded segment had not sealed, is not indexed;   *)
(* what the splits of an index of the same name still show comes back.      *)

Shown(pk) == {t \in Text : pk \in DurableHits(manifest, deletes, splits, t)}

(* The seal and the searches that hold the superseded segment go on with    *)
(* it; what such a search answers is left open.                             *)
install_def ==
    /\ ~ creating /\ writer = Nobody
    /\ Bump("creates", MaxCreates)
    /\ declared' = TRUE /\ creating' = TRUE /\ live' = NewSegment
    /\ lost' = IF declared THEN lost \cup live.covered ELSE {pk \in Pk : rows[pk] # Absent \/ Shown(pk) # {}}
    /\ job' = [job EXCEPT !.own = FALSE]
    /\ search' = [x \in Searcher |-> IF search[x].pc \in {"commit", "live", "covered"}
                                     THEN [search[x] EXCEPT !.pc = "manifest", !.steady = {}] ELSE search[x]]
    /\ UNCHANGED <<rows, todo, writer, registered, durableVars, history, astray>>

persist_registry ==
    /\ creating
    /\ registered' = TRUE /\ creating' = FALSE
    /\ UNCHANGED <<rows, todo, writer, live, declared, durableVars, job, search, history, excuses, used>>
-----------------------------------------------------------------------------
(* Sealing (FtsEngine::seal over LiveSegment and FtsIndex).                 *)

(* own: whether the segment sealed is still the definition's. *)
IdleJob == [pc |-> "idle", own |-> TRUE, docs |-> <<>>, tombs |-> {}, manifest |-> <<>>, deletes |-> <<>>,
            superseded |-> {}]

(* load_manifest, load_tombstones: a failed read is taken for an absent     *)
(* blob.                                                                    *)
Loads(blob) == {[value |-> blob, faults |-> 0]}
    \cup (IF used["reads"] < MaxReadFaults THEN {[value |-> <<>>, faults |-> 1]} ELSE {})
Read(n) == used["reads"] + n <= MaxReadFaults /\ used' = [used EXCEPT !["reads"] = @ + n]

(* snapshot_for_seal: the gate closes; ensure_fresh commits only if the     *)
(* segment is marked dirty, and a commit waits for the writer.              *)
SealStart ==
    /\ job.pc = "idle" /\ declared /\ ~ live.sealing
    /\ live.dirty => writer = Nobody
    /\ LET s == IF live.dirty THEN commit_and_reload(live) ELSE live IN
       /\ live' = [s EXCEPT !.sealing = TRUE, !.dirty = FALSE]
       /\ job' = [IdleJob EXCEPT !.pc = IF DOMAIN s.visible \ s.tombs # {} THEN "put"
                                        ELSE IF s.tombs # {} THEN "delete" ELSE "finish",
                     !.docs = Restrict(s.visible, DOMAIN s.visible \ s.tombs), !.tombs = s.tombs]
    /\ UNCHANGED <<rows, todo, writer, declared, registered, creating, durableVars, search, history, excuses, used>>

(* FtsIndex::update: the split, then the manifest, then the tombstones. *)
UpdatePut ==
    /\ job.pc = "put"
    /\ \E m \in Loads(manifest), d \in Loads(deletes) :
        LET gen == max_generation(m.value)
            id == mint_split_id(m.value)
            docs == [i \in 1..Cardinality(DOMAIN job.docs) |->
                        LET pk == SetToSeq(DOMAIN job.docs)[i] IN [pk |-> pk, text |-> job.docs[pk]]]
        IN  /\ Read(m.faults + d.faults)
            /\ splits' = With(splits, id, docs)
            /\ job' = [job EXCEPT !.pc = "manifest",
                          !.manifest = Append(m.value, split_meta(id, gen + 1, docs)),
                          !.deletes = delete_docs_at(d.value, DOMAIN job.docs, gen)]
    /\ UNCHANGED <<rows, todo, writer, live, declared, registered, creating, manifest, deletes, search, history, excuses>>

UpdateManifest ==
    /\ job.pc = "manifest"
    /\ manifest' = job.manifest
    /\ torn' = torn \cup DOMAIN job.docs
    /\ job' = [job EXCEPT !.pc = "tombstones"]
    /\ UNCHANGED <<rows, todo, writer, live, declared, registered, creating, deletes, splits, search, sealed, excuses, used>>

UpdateTombstones ==
    /\ job.pc = "tombstones"
    /\ deletes' = job.deletes
    /\ torn' = torn \ DOMAIN job.docs
    /\ sealed' = [pk \in Pk |-> IF pk \in DOMAIN job.docs THEN job.docs[pk] ELSE sealed[pk]]
    /\ job' = [job EXCEPT !.pc = IF job.tombs # {} THEN "delete" ELSE "finish"]
    /\ UNCHANGED <<rows, todo, writer, live, declared, registered, creating, manifest, splits, search, excuses, used>>

(* FtsIndex::delete. *)
SealDelete ==
    /\ job.pc = "delete"
    /\ \E m \in Loads(manifest), d \in Loads(deletes) :
        /\ Read(m.faults + d.faults)
        /\ deletes' = delete_docs_at(d.value, job.tombs, max_generation(m.value))
    /\ torn' = torn \ job.tombs
    /\ sealed' = [pk \in Pk |-> IF pk \in job.tombs THEN Absent ELSE sealed[pk]]
    /\ job' = [job EXCEPT !.pc = "finish"]
    /\ UNCHANGED <<rows, todo, writer, live, declared, registered, creating, manifest, splits, search, excuses>>

(* What the snapshot says of a key it covers. *)
Snapshot(pk) == IF pk \in DOMAIN job.docs THEN job.docs[pk] ELSE Absent

(* The keys whose change came into the segment and not into the snapshot. *)
Missed == {pk \in live.covered : LiveVersion(live, pk) # Snapshot(pk)
                                 \/ (Snapshot(pk) = Absent /\ pk \notin job.tombs)}

(* finish_seal, under the writer's lock: the documents go.  A change that   *)
(* came in after the snapshot goes with them.                               *)
SealClear ==
    /\ job.pc = "finish"
    /\ job.own => writer = Nobody
    /\ IF job.own THEN live' = [live EXCEPT !.docs = <<>>] /\ astray' = astray \cup Excuse("forgotten", Missed)
       ELSE UNCHANGED <<live, astray>>
    /\ job' = [job EXCEPT !.pc = "reload"]
    /\ UNCHANGED <<rows, todo, writer, declared, registered, creating, durableVars, search, history, lost, used>>

(* Then the reader, the tombstones, the covered keys and the gate, one      *)
(* after the other.                                                         *)
Emptied(s, pc) ==
    CASE pc = "reload"  -> commit_and_reload(s)
      [] pc = "untomb"  -> [s EXCEPT !.tombs = {}]
      [] pc = "uncover" -> [s EXCEPT !.covered = {}]
      [] pc = "open"    -> [s EXCEPT !.dirty = FALSE, !.sealing = FALSE]
AfterStep == [reload |-> "untomb", untomb |-> "uncover", uncover |-> "open", open |-> "compact"]

SealEmpty ==
    /\ job.pc \in DOMAIN AfterStep
    /\ live' = IF job.own THEN Emptied(live, job.pc) ELSE live
    /\ job' = IF job.pc = "open" THEN [IdleJob EXCEPT !.pc = "compact"] ELSE [job EXCEPT !.pc = AfterStep[@]]
    /\ UNCHANGED <<rows, todo, writer, declared, registered, creating, durableVars, search, history, excuses, used>>

(* What a search can read of a covered key, and what the segment was last   *)
(* told of it; Hidden: the keys for which these differ.                     *)
Emptying == job.own /\ job.pc \in {"reload", "untomb", "uncover"}
Seen(s, pk) == IF pk \in DOMAIN s.visible /\ pk \notin s.tombs THEN s.visible[pk] ELSE Absent
Told(s, pk) == IF Emptying THEN Snapshot(pk) ELSE LiveVersion(s, pk)
Hidden(s) == Excuse(IF Emptying THEN "emptying" ELSE "reader", {pk \in s.covered : Seen(s, pk) # Told(s, pk)})

\* Mutant: a failed seal leaves the gate closed.
abort_seal_closed == live

abort_seal == [live EXCEPT !.sealing = FALSE]

(* A put of the seal fails. *)
SealFail ==
    /\ job.pc \in {"put", "manifest", "tombstones", "delete"}
    /\ Bump("faults", MaxFaults)
    /\ live' = IF job.own THEN abort_seal ELSE live
    /\ job' = [IdleJob EXCEPT !.pc = "compact"]
    /\ UNCHANGED <<rows, todo, writer, declared, registered, creating, durableVars, search, history, excuses>>
-----------------------------------------------------------------------------
(* Compaction (FtsIndex::maybe_compact), after every seal. *)

(* A search that has loaded the manifest may now read tombstones or splits  *)
(* that do not go with it.                                                  *)
Disturb == search' = [x \in Searcher |-> IF search[x].pc \in {"deletes", "open"} /\ "compaction" \in Excused
                                         THEN [search[x] EXCEPT !.steady = {}] ELSE search[x]]

(* plan_compaction: every split, if any. *)
Compacts(m, d) == should_compact(m, d) /\ m # <<>>

CompactSkip ==
    /\ job.pc = "compact"
    /\ \E m \in Loads(manifest), d \in Loads(deletes) :
        Read(m.faults + d.faults) /\ ~ Compacts(m.value, d.value)
    /\ job' = IdleJob
    /\ UNCHANGED <<rows, todo, writer, live, declared, registered, creating, durableVars, search, history, excuses>>

CompactPut ==
    /\ job.pc = "compact"
    /\ \E m \in Loads(manifest), d \in Loads(deletes) :
        LET c == compact(m.value, d.value, splits) IN
        /\ Read(m.faults + d.faults)
        /\ Compacts(m.value, d.value)
        /\ splits' = With(splits, c.id, c.split)
        /\ job' = [IdleJob EXCEPT !.pc = "compact_manifest", !.manifest = c.manifest,
                      !.deletes = c.deletes, !.superseded = c.superseded]
    /\ UNCHANGED <<rows, todo, writer, live, declared, registered, creating, manifest, deletes, search, history, excuses>>

CompactPersist ==
    /\ job.pc \in {"compact_manifest", "compact_tombstones"}
    /\ IF job.pc = "compact_manifest" THEN manifest' = job.manifest /\ UNCHANGED deletes
       ELSE deletes' = job.deletes /\ UNCHANGED manifest
    /\ job' = [job EXCEPT !.pc = IF job.pc = "compact_manifest" THEN "compact_tombstones" ELSE "gc"]
    /\ Disturb
    /\ UNCHANGED <<rows, todo, writer, live, declared, registered, creating, splits, history, excuses, used>>

\* Mutant: superseded splits are deleted while the manifest still names them.
CollectEarly ==
    /\ job.pc \in {"compact_manifest", "gc"}
    /\ \E id \in job.superseded :
        /\ splits' = Without(splits, id)
        /\ job' = IF job.superseded = {id} THEN IdleJob ELSE [job EXCEPT !.superseded = @ \ {id}]
    /\ Disturb
    /\ UNCHANGED <<rows, todo, writer, live, declared, registered, creating, manifest, deletes, history, excuses, used>>

(* gc_keys. *)
Collect ==
    /\ job.pc = "gc"
    /\ \E id \in job.superseded :
        /\ splits' = Without(splits, id)
        /\ job' = IF job.superseded = {id} THEN IdleJob ELSE [job EXCEPT !.superseded = @ \ {id}]
    /\ Disturb
    /\ UNCHANGED <<rows, todo, writer, live, declared, registered, creating, manifest, deletes, history, excuses, used>>

CompactFail ==
    /\ job.pc \in {"compact", "compact_manifest", "compact_tombstones", "gc"}
    /\ Bump("faults", MaxFaults)
    /\ job' = IdleJob
    /\ UNCHANGED <<rows, todo, writer, live, declared, registered, creating, durableVars, search, history, excuses>>
-----------------------------------------------------------------------------
(* Searches (union_hits).  steady: the keys whose row nothing touched since *)
(* the search began.                                                        *)

IdleSearch == [pc |-> "idle", term |-> Null, hits |-> {}, covered |-> {}, manifest |-> <<>>,
               deletes |-> <<>>, steady |-> {}]

SearchStart(x) ==
    /\ search[x].pc = "idle" /\ declared
    /\ Bump("searches", MaxSearches)
    /\ \E t \in QueryTerm :
        search' = [search EXCEPT ![x] = [IdleSearch EXCEPT !.pc = IF live.dirty THEN "commit" ELSE "live", !.term = t,
                                            !.steady = Pk \ (lost \cup astray \cup Pending)]]
    /\ live' = [live EXCEPT !.dirty = FALSE]
    /\ UNCHANGED <<rows, todo, writer, declared, registered, creating, durableVars, job, history, excuses>>

(* ensure_fresh, after it took the dirty mark. *)
SearchCommit(x) ==
    /\ search[x].pc = "commit" /\ writer = Nobody
    /\ live' = commit_and_reload(live)
    /\ search' = [search EXCEPT ![x].pc = "live"]
    /\ UNCHANGED <<rows, todo, writer, declared, registered, creating, durableVars, job, history, excuses, used>>

SearchLive(x) ==
    /\ search[x].pc = "live"
    /\ search' = [search EXCEPT ![x] = [@ EXCEPT !.pc = "covered", !.hits = LiveHits(live, search[x].term),
                     !.steady = search[x].steady \ Hidden(live)]]
    /\ UNCHANGED <<rows, todo, writer, live, declared, registered, creating, durableVars, job, history, excuses, used>>

\* Mutant: durable hits are not masked by what the live segment covers.
SearchCoveredNothing(x) ==
    /\ search[x].pc = "covered"
    /\ search' = [search EXCEPT ![x].pc = "manifest"]
    /\ UNCHANGED <<rows, todo, writer, live, declared, registered, creating, durableVars, job, history, excuses, used>>

SearchCovered(x) ==
    /\ search[x].pc = "covered"
    /\ search' = [search EXCEPT ![x] = [@ EXCEPT !.pc = "manifest", !.covered = live.covered]]
    /\ UNCHANGED <<rows, todo, writer, live, declared, registered, creating, durableVars, job, history, excuses, used>>

SearchManifest(x) ==
    /\ search[x].pc = "manifest"
    /\ \E m \in Loads(manifest) :
        /\ Read(m.faults)
        /\ search' = [search EXCEPT ![x] = [@ EXCEPT !.pc = "deletes", !.manifest = m.value]]
    /\ UNCHANGED <<rows, todo, writer, live, declared, registered, creating, durableVars, job, history, excuses>>

SearchDeletes(x) ==
    /\ search[x].pc = "deletes"
    /\ \E d \in Loads(deletes) :
        /\ Read(d.faults)
        /\ search' = [search EXCEPT ![x] = [@ EXCEPT !.pc = "open", !.deletes = d.value]]
    /\ UNCHANGED <<rows, todo, writer, live, declared, registered, creating, durableVars, job, history, excuses>>

(* open_splits: a split that is gone fails the search. *)
SearchOpen(x) ==
    /\ search[x].pc = "open"
    /\ LET q == search[x] IN
       IF \E i \in DOMAIN q.manifest : q.manifest[i].id \notin DOMAIN splits
       THEN search' = [search EXCEPT ![x].pc = "failed"]
       ELSE \E h \in Truncations(DurableHits(q.manifest, q.deletes, splits, q.term)) :
            \E u \in Truncations(q.hits \cup (h \ q.covered)) :
                search' = [search EXCEPT ![x] = [@ EXCEPT !.pc = "done", !.hits = u]]
    /\ UNCHANGED <<rows, todo, writer, live, declared, registered, creating, durableVars, job, history, excuses, used>>

SearchEnd(x) ==
    /\ search[x].pc \in {"done", "failed"}
    /\ search' = [search EXCEPT ![x] = IdleSearch]
    /\ UNCHANGED <<rows, todo, writer, live, declared, registered, creating, durableVars, job, history, excuses, used>>
-----------------------------------------------------------------------------
(* The process ends and FtsEngine::reopen rebuilds the definitions from the *)
(* registry, over empty live segments.                                      *)
Crash ==
    /\ Bump("faults", MaxFaults)
    /\ declared' = registered /\ creating' = FALSE
    /\ live' = NewSegment /\ writer' = Nobody
    /\ todo' = [w \in Writer |-> <<>>]
    /\ lost' = lost \cup Pending \cup live.covered
                    \cup (IF registered THEN {} ELSE {pk \in Pk : rows[pk] # Absent})
    /\ job' = IdleJob
    /\ search' = [x \in Searcher |-> IdleSearch]
    /\ UNCHANGED <<rows, registered, durableVars, history, astray>>

(* Nothing is running. *)
Quiet ==
    /\ todo = [w \in Writer |-> <<>>]
    /\ writer = Nobody
    /\ live = NewSegment
    /\ registered = declared /\ creating = FALSE
    /\ job = IdleJob
    /\ search = [x \in Searcher |-> IdleSearch]
    /\ torn = {} /\ lost = {} /\ astray = {}

EmptyTable ==
    /\ rows = [pk \in Pk |-> Absent] /\ sealed = rows
    /\ manifest = <<>> /\ deletes = <<>> /\ splits = <<>>

Bounds == {"commits", "searches", "creates", "faults", "reads"}
Init == EmptyTable /\ declared = FALSE /\ Quiet /\ used = [b \in Bounds |-> 0]

on_commit(w) == on_commit_skip(w) \/ on_commit_enter(w) \/ on_commit_apply(w)
seal == SealStart \/ UpdatePut \/ UpdateManifest \/ UpdateTombstones \/ SealDelete \/ SealClear \/ SealEmpty
maybe_compact == CompactSkip \/ CompactPut \/ CompactPersist \/ Collect
union_hits(x) == SearchCommit(x) \/ SearchLive(x) \/ SearchCovered(x) \/ SearchManifest(x)
                    \/ SearchDeletes(x) \/ SearchOpen(x) \/ SearchEnd(x)

Next ==
    \/ \E w \in Writer : Commit(w) \/ on_commit(w)
    \/ install_def \/ persist_registry
    \/ seal \/ SealFail \/ maybe_compact \/ CompactFail
    \/ \E x \in Searcher : SearchStart(x) \/ union_hits(x)
    \/ Crash

(* A report waits at the gate asleep, and keeps its thread (on_commit is    *)
(* called from async code): the seal goes on only on a thread that is left. *)
Waiting == {w \in Writer : declared /\ live.sealing /\ todo[w] # <<>> /\ Head(todo[w]).row # Null}
ThreadFree == Cardinality(Waiting) < Threads

(* The scheduler's ticks and the reports that are running go on; nothing    *)
(* makes a client commit or search, or a fault happen.  The gate is open    *)
(* from one seal to the next tick, seconds later, and a write looks at it   *)
(* every millisecond: it gets in.                                           *)
Fairness ==
    /\ \A w \in Writer : SF_vars(on_commit(w))
    /\ WF_vars(ThreadFree /\ seal) /\ WF_vars(maybe_compact)

Spec == Init /\ [][Next]_vars /\ Fairness
-----------------------------------------------------------------------------
(* Every split the manifest names is there to be opened, whatever put,      *)
(* delete or restart an update or a compaction stopped at (fts.rs: "Persist *)
(* the new split + advanced manifest/tombstones BEFORE GC"; split ids are   *)
(* used again after a compaction).                                          *)
ManifestNamesSplits == \A i \in DOMAIN manifest : manifest[i].id \in DOMAIN splits

(* The durable tier shows, of every key, the version its last complete      *)
(* update or delete left: a same-id update is a true replace, a delete      *)
(* stays deleted through compactions, and nothing sealed is lost, across    *)
(* failed puts and restarts.  A key whose update was cut between manifest   *)
(* and tombstones still shows one version or more.                          *)
SealedVersionsShown ==
    ManifestNamesSplits =>
    \A pk \in Pk : IF pk \in torn THEN Shown(pk) # {}
                   ELSE Shown(pk) = {sealed[pk]} \ {Absent}

(* What union_hits finds when nothing moves. *)
Fresh == IF live.dirty THEN commit_and_reload(live) ELSE live
UnionNow(term) == LiveHits(Fresh, term) \cup (DurableHits(manifest, deletes, splits, term) \ live.covered)

(* Whatever a seal or a compaction is at, a search that nothing interrupts  *)
(* finds a word exactly in the rows that hold it, but for rows whose change *)
(* was never reported or is still on its way, and the keys that Excused     *)
(* sets aside (union_hits: live hits, and durable hits the live segment     *)
(* does not cover).                                                         *)
SearchNowExact ==
    declared /\ ManifestNamesSplits =>
        \A t \in Text, pk \in Pk \ (lost \cup astray \cup Pending \cup Hidden(Fresh)) :
            pk \in UnionNow(t) <=> rows[pk] = t

(* A search whose steps seals and compactions interleave answers exactly    *)
(* for every row that no write and nothing in Excused touched meanwhile:    *)
(* live hits, coverage, manifest, tombstones and splits are read one after  *)
(* the other, in an order in which a row on its way to the durable tier is  *)
(* not missed.                                                              *)
SteadyRowsExact ==
    \A x \in Searcher : search[x].pc = "done" =>
        \A pk \in search[x].steady \ (lost \cup astray \cup Pending) :
            pk \in search[x].hits <=> rows[pk] = search[x].term

(* Every change the index is told of comes to be what the durable tier      *)
(* shows of its row: a write that waits at the gate gets through, and the   *)
(* segment is sealed, though seals fail on the way.                         *)
ChangesReachDurable ==
    \A pk \in Pk :
        declared /\ pk \in Pending \cup live.covered
            ~> ~ declared \/ pk \in lost \cup astray \/ Shown(pk) = {rows[pk]} \cap Text
=============================================================================
