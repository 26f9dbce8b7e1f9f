------------------------------- MODULE Merkle -------------------------------
(***************************************************************************)
(* The RFC 6962 tree of a verified chain (crates/bluedb-evidence:          *)
(* merkle.rs, proof.rs): the frontier an append advances and the           *)
(* complete-subtree nodes it persists, and the digest and proofs that are  *)
(* assembled from what is persisted.                                       *)
(*                                                                         *)
(* SHA-256 is an injective constructor: a hash is the tuple of what was    *)
(* hashed.  A range of leaves is [lo, hi), 0-based as in the code; a       *)
(* missing node or entry is the value Missing, which no hash equals.       *)
(***************************************************************************)
EXTENDS Integers, Sequences, FiniteSets, SequencesExt, FiniteSetsExt

Missing == <<"missing">>
empty_root == <<"empty">>
node_hash(left, right) == <<"node", left, right>>

(* The edges are sorted by identity and operation before they are framed;   *)
(* the sort is stable.                                                      *)
Kind(e) == <<e.graph, e.src, e.dst, e.etype, e.op>>
Framed(edges) ==
    {<<Kind(edges[i]), [j \in DOMAIN SelectSeq(edges, LAMBDA x : Kind(x) = Kind(edges[i])) |->
                           SelectSeq(edges, LAMBDA x : Kind(x) = Kind(edges[i]))[j].weight]>> : i \in DOMAIN edges}
leaf_hash(event, edges) == <<"leaf", event, Framed(edges)>>

largest_pow2_lt(n) == Max({2 ^ i : i \in {j \in 0..n : 2 ^ j < n}})
-----------------------------------------------------------------------------
(* Frontier: size, and the roots of the perfect subtrees, largest first.    *)

EmptyFrontier == [size |-> 0, peaks |-> <<>>]

MaxLevel == 8    \* bound: levels of the tree

\* Mutant: only the topmost of the merged subtrees is persisted.
CarryMergeTop(size, c, level) ==
    IF c.level # level \/ (size \div 2 ^ level) % 2 = 0 THEN c
    ELSE LET hash == node_hash(Last(c.peaks), c.carry)
             start == c.start - 2 ^ level
         IN  [peaks |-> Front(c.peaks), carry |-> hash, level |-> level + 1, start |-> start,
              emitted |-> {<<<<level + 1, start \div 2 ^ (level + 1)>>, hash>>}]

(* One round of the carry loop: bit `level` of the old size is set, and so  *)
(* were all lower ones.                                                     *)
CarryMerge(size, c, level) ==
    IF c.level # level \/ (size \div 2 ^ level) % 2 = 0 THEN c
    ELSE LET hash == node_hash(Last(c.peaks), c.carry)
             start == c.start - 2 ^ level
         IN  [peaks |-> Front(c.peaks), carry |-> hash, level |-> level + 1, start |-> start,
              emitted |-> c.emitted \cup {<<<<level + 1, start \div 2 ^ (level + 1)>>, hash>>}]

(* push_emit: the new frontier, and the nodes to persist. *)
push_emit(f, leaf) ==
    LET c == FoldLeft(LAMBDA acc, level : CarryMerge(f.size, acc, level),
                      [peaks |-> f.peaks, carry |-> leaf, level |-> 0, start |-> f.size, emitted |-> {}],
                      [i \in 1..MaxLevel |-> i - 1])
    IN  [frontier |-> [size |-> f.size + 1, peaks |-> Append(c.peaks, c.carry)], emitted |-> c.emitted]

(* Frontier::root. *)
root(f) == IF f.peaks = <<>> THEN empty_root ELSE FoldRight(node_hash, Front(f.peaks), Last(f.peaks))
-----------------------------------------------------------------------------
(* Proofs from a chain's persisted parts: leaves (a function from seq) and  *)
(* nodes (a function from <<level, index>>).                                *)

Lookup(f, k) == IF k \in DOMAIN f THEN f[k] ELSE Missing
Level(n) == CHOOSE l \in 0..n : 2 ^ l = n
IsPowerOfTwo(n) == \E l \in 0..n : 2 ^ l = n

subtree_root(leaves, nodes, from, to) ==
    LET R[lo \in 0..to, hi \in 0..to] ==
            LET n == hi - lo
                k == largest_pow2_lt(n)
            IN  IF n = 1 THEN Lookup(leaves, lo + 1)
                ELSE IF IsPowerOfTwo(n) /\ lo % n = 0 THEN Lookup(nodes, <<Level(n), lo \div n>>)
                ELSE node_hash(R[lo, lo + k], R[lo + k, hi])
    IN  R[from, to]

(* proof::incl: the siblings on the way up from a leaf. *)
incl(leaves, nodes, index, size) ==
    LET P[lo \in 0..size, hi \in 0..size] ==
            LET mid == lo + largest_pow2_lt(hi - lo)
            IN  IF hi - lo = 1 THEN <<>>
                ELSE IF index < mid THEN Append(P[lo, mid], subtree_root(leaves, nodes, mid, hi))
                ELSE Append(P[mid, hi], subtree_root(leaves, nodes, lo, mid))
    IN  P[0, size]

(* proof::subproof: that the first `first` leaves are a prefix. *)
subproof(leaves, nodes, first, second) ==
    LET P[m \in 1..second, lo \in 0..second, hi \in 0..second, b \in BOOLEAN] ==
            LET k == largest_pow2_lt(hi - lo)
            IN  IF m = hi - lo THEN IF b THEN <<>> ELSE <<subtree_root(leaves, nodes, lo, hi)>>
                ELSE IF m <= k THEN Append(P[m, lo, lo + k, b], subtree_root(leaves, nodes, lo + k, hi))
                ELSE Append(P[m - k, lo + k, hi, FALSE], subtree_root(leaves, nodes, lo, lo + k))
    IN  P[first, 0, second, TRUE]
-----------------------------------------------------------------------------
(* Reference: the tree hash of RFC 6962, and what a client recomputes from  *)
(* a proof.                                                                 *)

merkle_root(leaves) ==
    LET R[lo \in 0..Len(leaves), hi \in 0..Len(leaves)] ==
            LET k == largest_pow2_lt(hi - lo)
            IN  IF hi - lo = 1 THEN leaves[hi] ELSE node_hash(R[lo, lo + k], R[lo + k, hi])
    IN  IF leaves = <<>> THEN empty_root ELSE R[0, Len(leaves)]

(* The root that an audit path leads to from a leaf. *)
RootOfInclusion(leaf, index, size, path) ==
    LET R[lo \in 0..size, hi \in 0..size, j \in 0..Len(path)] ==
            LET mid == lo + largest_pow2_lt(hi - lo)
            IN  IF hi - lo = 1 THEN leaf
                ELSE IF j = 0 THEN Missing
                ELSE IF index < mid THEN node_hash(R[lo, mid, j - 1], path[j])
                ELSE node_hash(path[j], R[mid, hi, j - 1])
    IN  R[0, size, Len(path)]

(* The two roots that a consistency proof leads to, given the older one. *)
RootsOfConsistency(older, first, second, proof) ==
    LET R[m \in 1..second, lo \in 0..second, hi \in 0..second, b \in BOOLEAN, j \in 0..Len(proof)] ==
            LET k == largest_pow2_lt(hi - lo)
            IN  IF m = hi - lo THEN IF b THEN <<older, older>>
                                    ELSE IF j = 0 THEN <<Missing, Missing>> ELSE <<proof[j], proof[j]>>
                ELSE IF j = 0 THEN <<Missing, Missing>>
                ELSE IF m <= k
                THEN LET r == R[m, lo, lo + k, b, j - 1] IN <<r[1], node_hash(r[2], proof[j])>>
                ELSE LET r == R[m - k, lo + k, hi, FALSE, j - 1]
                     IN  <<node_hash(proof[j], r[1]), node_hash(proof[j], r[2])>>
    IN  R[first, 0, second, TRUE, Len(proof)]
=============================================================================
