---------------------------- MODULE EvidenceGraph ----------------------------
(***************************************************************************)
(* The graph store (crates/bluedb-evidence: graph.rs, traverse.rs): edges  *)
(* under their identity, and again in the out and in adjacency indexes,    *)
(* where the weight is part of the key; and the two traversals, which read *)
(* the indexes only.                                                       *)
(*                                                                         *)
(* A store is a record of three key sets: edges, a function from           *)
(* <<graph, src, dst, type>> to weights; out, of <<graph, src, weight,     *)
(* dst, type>>; in, of <<graph, dst, weight, src, type>>.  A WriteBatch is *)
(* applied in order, the last operation on a key deciding.                 *)
(***************************************************************************)
EXTENDS Integers, Sequences, FiniteSets, SequencesExt, FiniteSetsExt, Functions, TLC

CONSTANTS
    Node,
    MinWeight, MaxWeight   \* i64::MIN and i64::MAX

EmptyGraph == [edges |-> <<>>, out |-> {}, in |-> {}]

Identity(d) == <<d.graph, d.src, d.dst, d.etype>>
out_key(id, w) == <<id[1], id[2], w, id[3], id[4]>>
in_key(id, w) == <<id[1], id[3], w, id[2], id[4]>>

(* A write of one key. *)
put(f, k, v) == [i \in DOMAIN f \cup {k} |-> IF i = k THEN v ELSE f[i]]

(* A batch under construction: the store as it will be, and the overlay     *)
(* through which later deltas see earlier ones.                             *)
NewBatch(committed) == [store |-> committed, overlay |-> <<>>, changed |-> 0]

None == MinWeight - 1    \* no such edge

\* Mutant: a delta sees what is committed, not what the batch holds.
CurrentCommitted(committed, b, id) ==
    IF id \in DOMAIN committed.edges THEN committed.edges[id] ELSE None

(* get_edge_weight through the overlay. *)
Current(committed, b, id) ==
    IF id \in DOMAIN b.overlay THEN b.overlay[id]
    ELSE IF id \in DOMAIN committed.edges THEN committed.edges[id] ELSE None

Unindexed(s, id, w) ==
    IF w = None THEN s ELSE [s EXCEPT !.out = @ \ {out_key(id, w)}, !.in = @ \ {in_key(id, w)}]

Removed(s, id, w) ==
    [edges |-> Restrict(s.edges, DOMAIN s.edges \ {id}), out |-> Unindexed(s, id, w).out, in |-> Unindexed(s, id, w).in]

apply_edge_delta(committed, b, d) ==
    LET id == Identity(d)
        w0 == Current(committed, b, id)
        w == IF d.op = "max" /\ w0 # None THEN Max({w0, d.weight}) ELSE d.weight
        cleared == IF w0 # w THEN Unindexed(b.store, id, w0) ELSE b.store
    IN  IF d.op # "delete"
        THEN [store |-> [edges |-> put(cleared.edges, id, w), out |-> cleared.out \cup {out_key(id, w)},
                         in |-> cleared.in \cup {in_key(id, w)}],
              overlay |-> put(b.overlay, id, w),
              changed |-> b.changed + (IF w0 # w THEN 1 ELSE 0)]
        ELSE IF w0 = None THEN b
        ELSE [store |-> Removed(b.store, id, w0),
              overlay |-> put(b.overlay, id, None),
              changed |-> b.changed + 1]

apply_edges(committed, deltas) ==
    LET Built[n \in 0..Len(deltas)] ==
            IF n = 0 THEN NewBatch(committed) ELSE apply_edge_delta(committed, Built[n - 1], deltas[n])
    IN  Built[Len(deltas)]

(* The deltas that Graph::mutate applies: upserts, then deletes. *)
mutate_deltas(upserts, deletes) == upserts \o deletes

(* Graph::drop_graph removes the keys of one graph from all three ranges.   *)
drop_graph(s, g) ==
    [edges |-> Restrict(s.edges, {id \in DOMAIN s.edges : id[1] # g}),
     out |-> {k \in s.out : k[1] # g}, in |-> {k \in s.in : k[1] # g}]

(* Every index key stands for an edge, and every edge has its two keys.     *)
Indexed(s) ==
    /\ s.out = {out_key(id, s.edges[id]) : id \in DOMAIN s.edges}
    /\ s.in = {in_key(id, s.edges[id]) : id \in DOMAIN s.edges}
-----------------------------------------------------------------------------
(* Traversals over one pinned view. *)

(* out_neighbors, and in_neighbors of an undirected traversal: pairs of a   *)
(* node and a weight.                                                       *)
scan_adjacency(index, g, u, floor) == {<<k[4], k[3]>> : k \in {x \in index : x[1] = g /\ x[2] = u /\ x[3] >= floor}}
Neighbors(s, g, u, floor, directed) ==
    scan_adjacency(s.out, g, u, floor) \cup (IF directed THEN {} ELSE scan_adjacency(s.in, g, u, floor))

(* reachable: level by level, each node once. *)
expand_level(s, g, nodes, floor, directed) ==
    UNION {{p[1] : p \in Neighbors(s, g, u, floor, directed)} : u \in nodes}
visit(s, g, floor, directed, q) ==
    LET found == expand_level(s, g, q.frontier, floor, directed)
    IN  [visited |-> q.visited \cup found, frontier |-> found \ q.visited]
reachable(s, g, from, floor, directed) ==
    LET Level[n \in 0..Cardinality(Node)] ==
            IF n = 0 THEN [visited |-> from, frontier |-> from] ELSE visit(s, g, floor, directed, Level[n - 1])
    IN  Level[Cardinality(Node)].visited

(* widest_path: best is the widest bottleneck known for a node, heap holds  *)
(* the nodes to expand; ties go to the greater node, which changes nothing. *)
WidestStart(from) == [best |-> (from :> MaxWeight), heap |-> {<<MaxWeight, from>>}, found |-> None]
\* Mutant: the first path found to a node is kept.
RelaxedFirst(best, bw, edges) ==
    [v \in {e[1] : e \in edges} \ DOMAIN best |-> Max({Min({bw, e[2]}) : e \in {x \in edges : x[1] = v}})]

Relaxed(best, bw, edges) ==
    LET reach == {e[1] : e \in edges}
        via(v) == Max({Min({bw, e[2]}) : e \in {x \in edges : x[1] = v}})
        better == {v \in reach : via(v) > (IF v \in DOMAIN best THEN best[v] ELSE MinWeight)}
    IN  [v \in better |-> via(v)]
WidestStep(s, g, to, directed, q) ==
    LET top == CHOOSE h \in q.heap : \A x \in q.heap : x[1] <= h[1]
        bw == top[1]
        u == top[2]
        new == Relaxed(q.best, bw, Neighbors(s, g, u, MinWeight, directed))
    IN  IF q.heap = {} \/ q.found # None THEN q
        ELSE IF q.best[u] # bw THEN [q EXCEPT !.heap = @ \ {top}]
        ELSE IF u = to THEN [q EXCEPT !.found = bw]
        ELSE [q EXCEPT !.best = new @@ @, !.heap = (@ \ {top}) \cup {<<new[v], v>> : v \in DOMAIN new}]

(* The bottleneck, MaxWeight for the node itself, None if not connected. *)
widest_path(s, g, from, to, directed) ==
    LET Rounds == Cardinality(Node) * Cardinality({k[3] : k \in s.out}) + 1
        Run[n \in 0..Rounds] == IF n = 0 THEN WidestStart(from) ELSE WidestStep(s, g, to, directed, Run[n - 1])
    IN  IF from = to THEN MaxWeight ELSE Run[Rounds].found
-----------------------------------------------------------------------------
(* Reference: what is connected, said without an algorithm.                 *)

Connected(s, g, from, floor, directed) ==
    LET ids == {id \in DOMAIN s.edges : id[1] = g /\ s.edges[id] >= floor}
        arcs == {<<id[2], id[3]>> : id \in ids} \cup (IF directed THEN {} ELSE {<<id[3], id[2]>> : id \in ids})
        closed == {S \in SUBSET Node : from \subseteq S /\ \A a \in arcs : a[1] \in S => a[2] \in S}
    IN  {v \in Node : \A S \in closed : v \in S}
=============================================================================
