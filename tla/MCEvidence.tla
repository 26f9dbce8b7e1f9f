----------------------------- MODULE MCEvidence -----------------------------
(* A chain c1 that appends create as verified, and c2, a plain one or not;  *)
(* every chain's events write the graph of its own name.  One batch changes *)
(* an edge twice, one sets and deletes it, one holds two events, one edge   *)
(* leaves out what has a default, one is refused; one key is used for two   *)
(* different batches; one edge has the smallest weight.                     *)
EXTENDS Evidence

Edge(g, s, d) == [graph |-> g, src |-> s, dst |-> d]
Weighed(g, s, d, w, merge) == [graph |-> g, src |-> s, dst |-> d, weight |-> w, merge |-> merge]
Gone(g, s, d) == [graph |-> g, src |-> s, dst |-> d, op |-> "delete"]
Event(e, edges) == [event |-> e, edges |-> edges]
Body(ch, events, key) == [chain |-> ch, events |-> events, key |-> key]

MCAppends == {
    Body("c1", <<>>, NoKey),
    Body("c1", <<Event("x", <<Weighed("c1", 1, 2, 1, "min")>>)>>, NoKey),
    Body("c1", <<Event("x", <<Weighed("c1", 1, 2, 1, "set")>>)>>, "k"),
    Body("c1", <<Event("y", <<>>), Event("x", <<Weighed("c1", 1, 2, 2, "max"), Weighed("c1", 2, 3, 1, "set")>>)>>, NoKey),
    Body("c1", <<Event("z", <<Weighed("c1", 2, 3, 2, "set"), Gone("c1", 2, 3)>>)>>, "k"),
    Body("c2", <<Event("x", <<Weighed("c2", 1, 2, 2, "set"), Edge("c2", 1, 2)>>)>>, NoKey)}

Deltas(js) == [i \in DOMAIN js |-> edge_of(js[i])]
GraphCall(g, upserts, deletes) == [graph |-> g, upserts |-> Deltas(upserts), deletes |-> Deltas(deletes)]
MCGraphCalls == {
    GraphCall("c1", <<Weighed("c1", 1, 3, 2, "set"), Weighed("c1", 3, 2, 2, "set")>>, <<Gone("c1", 1, 2)>>),
    GraphCall("c2", <<>>, <<Gone("c2", 1, 2)>>),
    GraphCall("c1", <<Weighed("c1", 1, 2, 1, "max"), Weighed("c1", 3, 1, MinWeight, "set")>>, <<>>)}

(* i64::MIN; a configuration cannot hold a negative number. *)
MCMinWeight == 0 - 1

Clients == Permutations(Client)
=============================================================================
