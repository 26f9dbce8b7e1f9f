------------------------------ MODULE Evidence ------------------------------
(***************************************************************************)
(* Evidence chains and the graph they project to (crates/bluedb-evidence:  *)
(* chain.rs, graph.rs, store.rs; crates/bluedb-server: evidence_api.rs,    *)
(* graph_api.rs), over the store as the writer sees it and as it is        *)
(* durable.                                                                *)
(*                                                                         *)
(* Every write takes the database's write lease, reads, and writes one     *)
(* batch before it drops the lease: one step.  The flush that makes the    *)
(* batch durable comes after, without the lease, and the answer after the  *)
(* flush.  Readers see what is not durable yet.  The applies of the ledger *)
(* (crates/bluedb-ledger: ledger.rs) share the database and the lease, and *)
(* are there as far as that goes: which ids were created or burned.        *)
(*                                                                         *)
(* External: SlateDB (batches become durable in the order they were        *)
(* written), SHA-256 (Merkle.tla), the caller's event bytes.               *)
(***************************************************************************)
EXTENDS Merkle, EvidenceGraph

CONSTANTS
    Chain, Client,
    PlainChain,     \* chains that may have been created as plain
    Appends,        \* the append requests: [chain, events, key], events of [event, edges], edges as the caller wrote them
    GraphCalls,     \* the graph requests: [graph, upserts, deletes]
    MAX_PAGE,       \* entries of a page
    NoKey,          \* an append without an idempotency key
    Transfer,       \* ids of the ledger's transfers
    Mixed,          \* whether one behaviour has both ledger applies and requests of chains
    TrustUnflushed, \* whether answers and signatures given over what is not durable yet have to stay true
    MaxAppends, MaxApplies, MaxCalls,   \* bounds: appends; ledger applies; other calls
    MaxFaults       \* bound: failed or dropped requests and ends of the process, together

VARIABLES
    mem,      \* the store as the writer reads it
    disk,     \* the store as it is durable
    client,   \* per client: what it waits for
    acked,    \* history: the answers given
    appends, applies, calls, faults   \* how much of each bound is used

vars == <<mem, disk, client, acked, appends, applies, calls, faults>>

(* Per chain: mode, counter, entries, frontier, nodes, idempotency records; *)
(* the graph store; the ledger's ids.  History: the hard-deleted slots, and *)
(* the graphs changed otherwise than by appends to the chain of their name. *)
EmptyStore ==
    [mode |-> [c \in Chain |-> "none"], seq |-> [c \in Chain |-> 0], entries |-> [c \in Chain |-> <<>>],
     frontier |-> [c \in Chain |-> EmptyFrontier], nodes |-> [c \in Chain |-> <<>>],
     idem |-> [c \in Chain |-> <<>>], graph |-> EmptyGraph,
     ledger |-> <<>>, deleted |-> [c \in Chain |-> {}], edited |-> {}]

Idle == [pc |-> "idle"]
-----------------------------------------------------------------------------
(* Answering. *)

Calls(c) ==
    /\ client[c] = Idle
    /\ applies = 0 \/ Mixed
    /\ calls < MaxCalls /\ calls' = calls + 1
    /\ UNCHANGED <<appends, applies>>

(* The batch is written, not durable yet; the lease is dropped. *)
Written(c, store, answer) ==
    /\ mem' = store
    /\ client' = [client EXCEPT ![c] = [pc |-> "flush", answer |-> answer]]
    /\ UNCHANGED <<disk, acked, faults>>

(* Nothing is written, and the answer is given at once. *)
Answered(answers) == acked' = acked \cup answers /\ UNCHANGED <<mem, disk, client, faults>>
-----------------------------------------------------------------------------
(* Request bodies (evidence_api.rs, graph_api.rs): what an edge leaves out  *)
(* is defaulted; an operation or merge mode that is not known is refused.   *)

Given(j, field, default) == IF field \in DOMAIN j THEN j[field] ELSE default

edge_ok(j) == Given(j, "op", "upsert") \in {"upsert", "delete"} /\ Given(j, "merge", "set") \in {"set", "max"}
edge_of(j) ==
    [graph |-> j.graph, src |-> j.src, dst |-> j.dst, weight |-> Given(j, "weight", 0), etype |-> Given(j, "type", ""),
     op |-> IF Given(j, "op", "upsert") = "delete" THEN "delete" ELSE Given(j, "merge", "set")]

(* What the JSON decoders and the route pass on: lists of edges whose       *)
(* weights are i64; the edges of a graph request are of its graph.          *)
IsList(xs) == xs \in Seq(Range(xs))
Weights == MinWeight..MaxWeight
ASSUME EvidenceAssumption ==
    /\ MinWeight \in Int /\ MaxWeight \in Int /\ 0 \in Weights
    /\ \A body \in Appends :
         /\ body.chain \in Chain /\ IsList(body.events)
         /\ \A i \in DOMAIN body.events :
              LET edges == body.events[i].edges
              IN  IsList(edges) /\ \A j \in DOMAIN edges : Given(edges[j], "weight", 0) \in Weights
    /\ \A call \in GraphCalls : \A ds \in {call.upserts, call.deletes} :
         IsList(ds) /\ \A i \in DOMAIN ds : ds[i].graph = call.graph /\ ds[i].weight \in Weights

entries_ok(events) == \A i \in DOMAIN events : \A j \in DOMAIN events[i].edges : edge_ok(events[i].edges[j])
entries_of(events) ==
    [i \in DOMAIN events |-> [event |-> events[i].event,
                              edges |-> [j \in DOMAIN events[i].edges |-> edge_of(events[i].edges[j])]]]
-----------------------------------------------------------------------------
(* Chains. *)

verified(s, ch) == s.mode[ch] # "plain"

create_chain(c) ==
    /\ Calls(c)
    /\ \E ch \in Chain, mode \in {"verified", "plain"} :
        IF mem.mode[ch] # "none" THEN Answered({})    \* the same mode, or ChainModeConflict
        ELSE Written(c, [mem EXCEPT !.mode[ch] = mode], [op |-> "create"])

(* One entry of a batch: the record, the leaf, the nodes its push completes. *)
append_entry(s, ch, entry) ==
    LET seq == s.seq[ch] + 1
        hash == IF verified(s, ch) THEN leaf_hash(entry.event, entry.edges) ELSE Missing
        pushed == push_emit(s.frontier[ch], hash)
        record == [event |-> entry.event, edges |-> entry.edges, leaf_hash |-> hash, redacted |-> FALSE]
        stored == [s EXCEPT !.seq[ch] = seq, !.entries[ch] = put(@, seq, record)]
    IN  IF ~ verified(s, ch) THEN stored
        ELSE [stored EXCEPT !.frontier[ch] = pushed.frontier,
                 !.nodes[ch] = [k \in {e[1] : e \in pushed.emitted} |->
                                   (CHOOSE e \in pushed.emitted : e[1] = k)[2]] @@ @]

append_entries(s, ch, entries) ==
    LET Appended[n \in 0..Len(entries)] ==
            IF n = 0 THEN s ELSE append_entry(Appended[n - 1], ch, entries[n])
    IN  Appended[Len(entries)]

(* The edges of the first n entries, one after the other. *)
EdgesUpTo(entries, n) ==
    LET All[i \in 0..Len(entries)] == IF i = 0 THEN <<>> ELSE All[i - 1] \o entries[i].edges
    IN  All[n]
AllEdges(entries) == EdgesUpTo(entries, Len(entries))

(* The idempotency record: what fingerprint covers, and the answer. *)
idem_record(s, call) == [fingerprint |-> call.entries, base |-> s.seq[call.chain]]

\* Mutant: the record is written in a batch of its own, which the flush does not cover.
append_batch_no_record(s, call) ==
    [append_entries([s EXCEPT !.mode[call.chain] = IF @ = "none" THEN "verified" ELSE @],
                    call.chain, call.entries)
     EXCEPT !.graph = apply_edges(s.graph, AllEdges(call.entries)).store]

append_batch(s, call) ==
    LET ch == call.chain
        created == [s EXCEPT !.mode[ch] = IF @ = "none" THEN "verified" ELSE @]
        appended == append_entries(created, ch, call.entries)
        edges == AllEdges(call.entries)
        projected == [appended EXCEPT !.graph = apply_edges(s.graph, edges).store,
                                      !.edited = @ \cup ({d.graph : d \in Range(edges)} \ {ch})]
    IN  IF call.key = NoKey THEN projected
        ELSE [projected EXCEPT !.idem[ch] = put(@, call.key, idem_record(s, call))]

AppendAnswer(call, base) ==
    [op |-> "append", chain |-> call.chain, key |-> call.key, base |-> base, entries |-> call.entries]

(* A key that was seen: the recorded answer, whether it is durable or not;  *)
(* or IdemConflict.                                                         *)
Replay(call) ==
    LET ch == call.chain
        rec == mem.idem[ch][call.key]
        durable == call.key \in DOMAIN disk.idem[ch] /\ disk.idem[ch][call.key] = rec
    IN  Answered(IF rec.fingerprint = call.entries /\ (durable \/ TrustUnflushed)
                 THEN {AppendAnswer(call, rec.base)} ELSE {})

append(c) ==
    /\ client[c] = Idle
    /\ applies = 0 \/ Mixed
    /\ appends < MaxAppends /\ appends' = appends + 1
    /\ UNCHANGED <<applies, calls>>
    /\ \E body \in Appends :
        LET call == [chain |-> body.chain, entries |-> entries_of(body.events), key |-> body.key] IN
        IF ~ entries_ok(body.events) \/ body.events = <<>> THEN Answered({})
        ELSE IF call.key # NoKey /\ call.key \in DOMAIN mem.idem[call.chain] THEN Replay(call)
        ELSE Written(c, append_batch(mem, call), AppendAnswer(call, mem.seq[call.chain]))

redacted_entry(s, ch, seq) ==
    [s EXCEPT !.entries[ch][seq] = [@ EXCEPT !.event = "", !.redacted = TRUE]]

redact(c) ==
    /\ Calls(c)
    /\ \E ch \in Chain : \E seq \in 1..(mem.seq[ch] + 1) :
        IF seq \notin DOMAIN mem.entries[ch] THEN Answered({})    \* EntryNotFound
        ELSE Written(c, redacted_entry(mem, ch, seq), [op |-> "redact", chain |-> ch, seq |-> seq])

(* The edges of a hard-deleted entry, as deletes. *)
retractions(edges) ==
    [i \in DOMAIN edges |-> [graph |-> edges[i].graph, src |-> edges[i].src, dst |-> edges[i].dst,
                             weight |-> 0, etype |-> edges[i].etype, op |-> "delete"]]

hard_deleted(s, ch, seq, retract_edges) ==
    LET edges == s.entries[ch][seq].edges
    IN  [s EXCEPT !.entries[ch] = Restrict(@, DOMAIN @ \ {seq}), !.deleted[ch] = @ \cup {seq},
                  !.edited = @ \cup {edges[i].graph : i \in DOMAIN edges},
                  !.graph = IF retract_edges THEN apply_edges(@, retractions(edges)).store ELSE @]

hard_delete(c) ==
    /\ Calls(c)
    /\ \E ch \in Chain : \E seq \in 1..(mem.seq[ch] + 1), retract_edges \in BOOLEAN :
        IF verified(mem, ch) \/ seq \notin DOMAIN mem.entries[ch] THEN Answered({})
        ELSE Written(c, hard_deleted(mem, ch, seq, retract_edges), [op |-> "delete", chain |-> ch, seq |-> seq])

(* Graph::upsert, delete and mutate.  A batch without operations is not     *)
(* written.                                                                 *)
mutate(c) ==
    /\ Calls(c)
    /\ \E call \in GraphCalls :
        LET b == apply_edges(mem.graph, mutate_deltas(call.upserts, call.deletes))
        IN  IF b.changed = 0 /\ call.upserts = <<>> THEN Answered({})
            ELSE Written(c, [mem EXCEPT !.graph = b.store, !.edited = @ \cup {call.graph}], [op |-> "mutate"])

drop(c) ==
    /\ Calls(c)
    /\ \E g \in {id[1] : id \in DOMAIN mem.graph.edges} :
        Written(c, [mem EXCEPT !.graph = drop_graph(@, g), !.edited = @ \cup {g}], [op |-> "drop"])
-----------------------------------------------------------------------------
(* Ledger::create_transfers: an id that is new is created or burned, one    *)
(* that is not answers what it is.  A batch that changes nothing is not     *)
(* written, and then not flushed.                                           *)
apply(c) ==
    /\ client[c] = Idle
    /\ (appends = 0 /\ calls = 0) \/ Mixed
    /\ applies < MaxApplies /\ applies' = applies + 1
    /\ UNCHANGED <<appends, calls>>
    /\ \E batch \in (SUBSET Transfer) \ {{}} : \E outcome \in [batch \ DOMAIN mem.ledger -> {"created", "failed"}] :
        LET after == [id \in DOMAIN mem.ledger \cup batch |-> IF id \in DOMAIN mem.ledger THEN mem.ledger[id] ELSE outcome[id]]
            answer == [op |-> "apply", results |-> Restrict(after, batch)]
        IN  IF batch \subseteq DOMAIN mem.ledger
            THEN Answered(IF batch \subseteq DOMAIN disk.ledger \/ TrustUnflushed THEN {answer} ELSE {})
            ELSE Written(c, [mem EXCEPT !.ledger = after], answer)
-----------------------------------------------------------------------------
(* Reads. *)

digest(s, ch) == [size |-> s.frontier[ch].size, root |-> root(s.frontier[ch])]

leaves(s, ch) == [seq \in DOMAIN s.entries[ch] |-> s.entries[ch][seq].leaf_hash]

(* read_range, and read_from: the first entries past a seq. *)
Seqs(s, ch, lo, hi) == SelectSeq([i \in 1..s.seq[ch] |-> i], LAMBDA i : i \in DOMAIN s.entries[ch] /\ lo <= i /\ i <= hi)
read_from(s, ch, after, limit) ==
    LET all == Seqs(s, ch, after + 1, s.seq[ch]) IN SubSeq(all, 1, Min({limit, MAX_PAGE, Len(all)}))

(* A client that asks for page after page. *)
Paged(s, ch, limit) ==
    LET P[n \in 0..s.seq[ch]] ==
            LET read == P[n - 1] IN
            IF n = 0 THEN <<>>
            ELSE read \o read_from(s, ch, IF read = <<>> THEN 0 ELSE Last(read), limit)
    IN  P[s.seq[ch]]

inclusion(s, ch, seq, size) ==
    IF ~ verified(s, ch) THEN "not verified"
    ELSE IF size < 1 \/ size > s.seq[ch] \/ seq < 1 THEN "invalid"
    ELSE IF seq > size THEN "not found"
    ELSE incl(leaves(s, ch), s.nodes[ch], seq - 1, size)

consistency(s, ch, first, second) ==
    IF ~ verified(s, ch) THEN "not verified"
    ELSE IF first < 1 \/ first > second \/ second > s.seq[ch] THEN "invalid"
    ELSE subproof(leaves(s, ch), s.nodes[ch], first, second)

(* The signed tree head is the digest at hand; history: whether the leaves  *)
(* under it were durable.                                                   *)
digest_signed(c) ==
    /\ Calls(c)
    /\ \E ch \in Chain :
        Answered(IF verified(mem, ch)
                 THEN {[op |-> "sign", chain |-> ch, digest |-> digest(mem, ch),
                        durable |-> mem.frontier[ch] = disk.frontier[ch]]}
                 ELSE {})
-----------------------------------------------------------------------------
(* The flush of a request ends, and it is answered. *)
flush(c) ==
    /\ client[c].pc = "flush"
    /\ disk' = mem
    /\ acked' = acked \cup {client[c].answer}
    /\ client' = [client EXCEPT ![c] = Idle]
    /\ UNCHANGED <<mem, appends, applies, calls, faults>>

(* SlateDB flushes by itself. *)
background_flush ==
    /\ disk # mem
    /\ disk' = mem
    /\ UNCHANGED <<mem, client, acked, appends, applies, calls, faults>>

(* A flush fails or the request is dropped: no answer. *)
fail(c) ==
    /\ client[c].pc = "flush"
    /\ faults < MaxFaults /\ faults' = faults + 1
    /\ client' = [client EXCEPT ![c] = Idle]
    /\ UNCHANGED <<mem, disk, acked, appends, applies, calls>>

crash ==
    /\ faults < MaxFaults /\ faults' = faults + 1
    /\ mem' = disk
    /\ client' = [c \in Client |-> Idle]
    /\ UNCHANGED <<disk, acked, appends, applies, calls>>

(* Some chains were created as plain ones before. *)
Init ==
    /\ \E plain \in SUBSET PlainChain :
        mem = [EmptyStore EXCEPT !.mode = [c \in Chain |-> IF c \in plain THEN "plain" ELSE "none"]]
    /\ disk = mem
    /\ client = [c \in Client |-> Idle]
    /\ acked = {}
    /\ appends = 0 /\ applies = 0 /\ calls = 0 /\ faults = 0

Next ==
    \/ \E c \in Client : \/ create_chain(c) \/ append(c) \/ redact(c) \/ hard_delete(c)
                         \/ mutate(c) \/ drop(c) \/ digest_signed(c) \/ apply(c) \/ flush(c) \/ fail(c)
    \/ background_flush
    \/ crash

Spec == Init /\ [][Next]_vars
-----------------------------------------------------------------------------
(* What is read of a chain is what was appended: digest, inclusion and      *)
(* consistency proofs of a verified chain, assembled from the frontier and  *)
(* the persisted nodes, are those of the tree of its leaves, and a client   *)
(* that recomputes the roots from a proof gets the digests (chain.rs:       *)
(* digest, inclusion, consistency); a head signed over durable leaves stays *)
(* a prefix of the chain ("cannot later deny, or retroactively rewrite,     *)
(* what it signed", docs/evidence/chains.md; of one signed before the flush *)
(* this is not so, as TrustUnflushed shows); a client that pages through    *)
(* the chain reads every entry once.                                        *)
(* After appends of one or several entries, redactions, deletes, and a      *)
(* restart that lost a suffix; on the writer and on a replica, which reads  *)
(* what is durable.                                                         *)
Prefix(s, ch, n) == merkle_root([i \in 1..n |-> leaves(s, ch)[i]])
ProofsVerify(s, ch) ==
    LET head == s.seq[ch]
        leaf == leaves(s, ch)
        roots == [n \in 0..head |-> Prefix(s, ch, n)]
    IN  /\ DOMAIN leaf = 1..head
        /\ digest(s, ch) = [size |-> head, root |-> roots[head]]
        /\ \A size \in 1..head, seq \in 1..head : seq <= size =>
             RootOfInclusion(leaf[seq], seq - 1, size, inclusion(s, ch, seq, size)) = roots[size]
        /\ \A second \in 1..head, first \in 1..head : first <= second =>
             RootsOfConsistency(roots[first], first, second, consistency(s, ch, first, second))
                 = <<roots[first], roots[second]>>
HeadKept(s, a) == a.digest.size <= s.seq[a.chain] /\ Prefix(s, a.chain, a.digest.size) = a.digest.root
ChainReadsExact ==
    \A s \in {mem, disk} :
        /\ \A ch \in Chain : (verified(s, ch) => ProofsVerify(s, ch)) /\ Paged(s, ch, 1) = Seqs(s, ch, 1, s.seq[ch])
        /\ \A a \in acked : a.op = "sign" /\ (a.durable \/ (TrustUnflushed /\ s = mem)) => HeadKept(s, a)

(* An acknowledged write is not lost, not doubled and not undone: whatever  *)
(* fails or restarts afterwards, acknowledged entries keep their seq and    *)
(* their leaf ("an ack means the data survived", docs/evidence/chains.md),  *)
(* redacted payloads and deleted slots stay gone, two appends are answered  *)
(* with the same seqs only if one is the retry of the other under its       *)
(* idempotency key, and then always, and no seq is skipped.  What the       *)
(* ledger said of a transfer, created or failed, stays true                 *)
(* ("durable-before-ack", ledger.rs).                                       *)
Range1(a) == (a.base + 1)..(a.base + Len(a.entries))
EntryKept(s, ch, seq, entry) ==
    LET e == s.entries[ch][seq] IN
    /\ e.edges = entry.edges
    /\ e.redacted \/ e.event = entry.event
    /\ verified(s, ch) => e.leaf_hash = leaf_hash(entry.event, entry.edges)
AppendKept(s, a) ==
    \A i \in DOMAIN a.entries :
        IF a.base + i \in DOMAIN s.entries[a.chain] THEN EntryKept(s, a.chain, a.base + i, a.entries[i])
        ELSE a.base + i \in s.deleted[a.chain]
Kept(s, a) ==
    CASE a.op = "append" -> AppendKept(s, a)
      [] a.op = "redact" -> a.seq \in DOMAIN s.entries[a.chain] => s.entries[a.chain][a.seq].redacted
      [] a.op = "delete" -> a.seq \notin DOMAIN s.entries[a.chain]
      [] a.op = "apply" -> \A id \in DOMAIN a.results : id \in DOMAIN s.ledger /\ s.ledger[id] = a.results[id]
      [] OTHER -> TRUE
(* Two answers to appends of one chain. *)
AnsweredOnce(a, b) ==
    a.chain = b.chain => IF a.key = b.key /\ a.key # NoKey THEN a = b
                         ELSE Range1(a) \cap Range1(b) = {} \/ a = b
AcknowledgedKept ==
    /\ \A s \in {mem, disk} :
        /\ \A a \in acked : Kept(s, a)
        /\ \A ch \in Chain : DOMAIN s.entries[ch] = 1..s.seq[ch] \ s.deleted[ch]
    /\ \A a, b \in {x \in acked : x.op = "append"} : AnsweredOnce(a, b)

(* Every edge has its weight under its identity and its one key in either   *)
(* adjacency index, though several deltas of one batch change it and a      *)
(* restart loses a suffix (graph.rs, apply_edge_delta); and while a graph   *)
(* is only written by one chain's appends, replaying the chain rebuilds it  *)
(* ("the graph is a reproducible projection of the chain").                 *)
Replayed(s, ch) ==
    LET Graph[seq \in 0..s.seq[ch]] ==
            IF seq = 0 THEN EmptyGraph
            ELSE IF seq \notin DOMAIN s.entries[ch] THEN Graph[seq - 1]
            ELSE apply_edges(Graph[seq - 1], s.entries[ch][seq].edges).store
    IN  Graph[s.seq[ch]]
GraphExact ==
    \A s \in {mem, disk} :
        /\ Indexed(s.graph)
        /\ \A ch \in Chain : LET r == Replayed(s, ch).edges IN
             \A id \in DOMAIN r \cup DOMAIN s.graph.edges :
                 id[1] = ch /\ ch \notin s.edited =>
                     id \in DOMAIN r /\ id \in DOMAIN s.graph.edges /\ s.graph.edges[id] = r[id]

(* reachable and widest_path, which read the two indexes, answer what the   *)
(* edges connect: every node over edges of at least the floor, and the      *)
(* greatest bottleneck of any path (traverse.rs).  An edge of the smallest  *)
(* weight is reachable, but on no widest path: `nb > best` starts from      *)
(* i64::MIN.                                                                *)
TraversalsExact ==
    LET weights == {mem.graph.edges[id] : id \in DOMAIN mem.graph.edges} IN
    \A g \in {id[1] : id \in DOMAIN mem.graph.edges}, from \in Node, directed \in BOOLEAN :
        LET reach == [floor \in weights |-> Connected(mem.graph, g, {from}, floor, directed)] IN
        /\ \A floor \in weights : reachable(mem.graph, g, {from}, floor, directed) = reach[floor]
        /\ \A to \in Node \ {from} :
             widest_path(mem.graph, g, from, to, directed) = Max({None} \cup {w \in weights \ {MinWeight} : to \in reach[w]})
=============================================================================
