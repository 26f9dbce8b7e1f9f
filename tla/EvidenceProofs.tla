--------------------------- MODULE EvidenceProofs ---------------------------
(***************************************************************************)
(* Proofs about Evidence, for all chains, events, edges, weights, keys and *)
(* ledger ids, and any number of requests, failures and restarts: the      *)
(* graph is the replay of the chains (sections 1 to 7), and what was       *)
(* acknowledged stays (section 8).                                         *)
(*                                                                         *)
(* What a list of deltas does is a recursive function over its positions;  *)
(* that there is such a function, and that there is only one, is shown by  *)
(* the impossibility of a least counterexample (LeastNatural).  What was   *)
(* acknowledged is carried by an order of stores: memory is at all times a *)
(* later version of the disk (Later), each write makes a later version of  *)
(* memory, and a later version holds what an earlier one held (HeldLater). *)
(***************************************************************************)
EXTENDS Evidence, SequenceTheorems, WellFoundedInduction, TLAPS

-----------------------------------------------------------------------------
(* 1. Lists.                                                               *)

\* A set of naturals has a least element.
LEMMA LeastNatural ==
    ASSUME NEW T, T \subseteq Nat, T # {}
    PROVE  \E x \in T : \A y \in T : x <= y
<1> DEFINE R == OpToRel(<, Nat)
<1>1. IsWellFoundedOn(R, Nat)
  BY NatLessThanWellFounded
<1>2. \A x, y \in Nat : x < y => <<x, y>> \in R
  BY DEF OpToRel
<1> HIDE DEF R
<1>3. PICK x \in T : \A y \in T : ~(<<y, x>> \in R)
  BY <1>1, WFMin
<1>4. ASSUME NEW y \in T PROVE x <= y
  <2>1. x \in Nat /\ y \in Nat
    OBVIOUS
  <2>2. ~(y < x)
    BY <1>2, <1>3, <2>1, Zenon
  <2> QED BY <2>1, <2>2
<1> QED BY <1>4

\* r is the function apply_edges defines, up to the n-th delta.
IsBuilt(r, c, ds, n) ==
    r = [i \in 0..n |-> IF i = 0 THEN NewBatch(c) ELSE apply_edge_delta(c, r[i - 1], ds[i])]

LEMMA BuiltGoesOn ==
    ASSUME NEW c, NEW ds, NEW n \in Nat, NEW r, IsBuilt(r, c, ds, n)
    PROVE  \E h : IsBuilt(h, c, ds, n + 1)
<1>1. PICK h : h = [i \in 0..(n + 1) |-> IF i = 0 THEN NewBatch(c) ELSE apply_edge_delta(c, r[i - 1], ds[i])]
  OBVIOUS
<1>2. \A i \in 0..n : h[i] = r[i]
  <2>1. \A i \in 0..n : r[i] = IF i = 0 THEN NewBatch(c) ELSE apply_edge_delta(c, r[i - 1], ds[i])
    BY DEF IsBuilt
  <2>2. \A i \in 0..n : i \in 0..(n + 1)
    OBVIOUS
  <2> QED BY <1>1, <2>1, <2>2
<1>3. \A i \in 0..(n + 1) : i # 0 => h[i - 1] = r[i - 1]
  BY <1>2
<1>4. h = [i \in 0..(n + 1) |-> IF i = 0 THEN NewBatch(c) ELSE apply_edge_delta(c, h[i - 1], ds[i])]
  BY <1>1, <1>3
<1> QED BY <1>4 DEF IsBuilt

LEMMA BuiltExists ==
    ASSUME NEW c, NEW ds, NEW n \in Nat
    PROVE  \E r : IsBuilt(r, c, ds, n)
<1> DEFINE T == {k \in Nat : ~\E r : IsBuilt(r, c, ds, k)}
<1>1. SUFFICES ASSUME T # {} PROVE FALSE
  OBVIOUS
<1>2. \A k \in Nat : k \in T <=> ~\E r : IsBuilt(r, c, ds, k)
  OBVIOUS
<1>3. T \subseteq Nat
  OBVIOUS
<1> HIDE DEF T
<1>4. PICK k \in T : \A j \in T : k <= j
  BY <1>1, <1>3, LeastNatural
<1>5. k # 0
  <2>1. PICK r : r = [i \in 0..0 |-> NewBatch(c)]
    OBVIOUS
  <2>2. IsBuilt(r, c, ds, 0)
    BY <2>1 DEF IsBuilt
  <2> QED BY <1>2, <1>4, <2>2
<1>6. k - 1 \in Nat /\ ~(k <= k - 1) /\ (k - 1) + 1 = k
  BY <1>3, <1>4, <1>5
<1>7. PICK r : IsBuilt(r, c, ds, k - 1)
  BY <1>2, <1>4, <1>6
<1>8. \E h : IsBuilt(h, c, ds, (k - 1) + 1)
  BY <1>6, <1>7, BuiltGoesOn
<1> QED BY <1>2, <1>4, <1>6, <1>8

LEMMA BuiltByDeltas ==
    ASSUME NEW c, NEW ds, Len(ds) \in Nat
    PROVE  \E r : IsBuilt(r, c, ds, Len(ds)) /\ apply_edges(c, ds) = r[Len(ds)]
<1>1. apply_edges(c, ds) = (CHOOSE r : IsBuilt(r, c, ds, Len(ds)))[Len(ds)]
  BY DEF apply_edges, IsBuilt
<1>2. \E r : IsBuilt(r, c, ds, Len(ds))
  BY BuiltExists
<1> QED BY <1>1, <1>2

-----------------------------------------------------------------------------
(* 2. A delta.                                                             *)

Weight(E, id) == IF id \in DOMAIN E THEN E[id] ELSE None

\* What a delta makes of the weight of an edge.
Updated(w, d, id) ==
    IF id # Identity(d) THEN w
    ELSE IF d.op = "delete" THEN None
    ELSE IF d.op = "max" /\ w # None THEN Max({w, d.weight}) ELSE d.weight

IsId(id) == id = <<id[1], id[2], id[3], id[4]>>
EdgesOK(E) == \A id \in DOMAIN E : IsId(id) /\ E[id] \in Weights

GraphOK(g) == g = [edges |-> g.edges, out |-> g.out, in |-> g.in] /\ EdgesOK(g.edges) /\ Indexed(g)

\* Through the overlay a delta sees what the batch will leave.
BatchOK(c, b) ==
    /\ b = [store |-> b.store, overlay |-> b.overlay, changed |-> b.changed]
    /\ GraphOK(b.store)
    /\ \A id : Current(c, b, id) = Weight(b.store.edges, id)

LEMMA NoneIsNoWeight == None \notin Weights
BY EvidenceAssumption DEF None, Weights

LEMMA GreaterOfTwo ==
    ASSUME NEW v \in Weights, NEW w \in Weights
    PROVE  Max({v, w}) \in Weights
<1>1. v \in Int /\ w \in Int
  BY EvidenceAssumption DEF Weights
<1>2. \E x \in {v, w} : \A y \in {v, w} : x >= y
  BY <1>1
<1>3. Max({v, w}) \in {v, w}
  BY <1>2 DEF Max
<1> QED BY <1>3

LEMMA PutOne ==
    ASSUME NEW E, NEW k, NEW w, NEW F, F = put(E, k, w)
    PROVE  /\ DOMAIN F = DOMAIN E \cup {k} /\ F[k] = w
           /\ \A i \in DOMAIN E : i # k => F[i] = E[i]
           /\ Weight(F, k) = w
           /\ \A i : i # k => Weight(F, i) = Weight(E, i)
<1>1. DOMAIN F = DOMAIN E \cup {k} /\ \A i \in DOMAIN F : F[i] = IF i = k THEN w ELSE E[i]
  BY DEF put
<1> QED BY <1>1 DEF Weight

LEMMA PutEdgesOK ==
    ASSUME NEW E, EdgesOK(E), NEW k, IsId(k), NEW w \in Weights
    PROVE  EdgesOK(put(E, k, w))
<1>1. PICK F : F = put(E, k, w)
  OBVIOUS
<1>2. DOMAIN F = DOMAIN E \cup {k} /\ F[k] = w /\ \A i \in DOMAIN E : i # k => F[i] = E[i]
  BY <1>1 DEF put
<1> QED BY <1>1, <1>2 DEF EdgesOK

\* The keys tell edges and weights apart.
LEMMA KeysDiffer ==
    ASSUME NEW i, IsId(i), NEW j, IsId(j), NEW v, NEW w
    PROVE  /\ out_key(i, v) = out_key(j, w) => i = j /\ v = w
           /\ in_key(i, v) = in_key(j, w) => i = j /\ v = w
BY DEF IsId, out_key, in_key

OutKeys(E) == {out_key(id, E[id]) : id \in DOMAIN E}
InKeys(E) == {in_key(id, E[id]) : id \in DOMAIN E}

\* An edge put under its new weight, its key of the old one removed if there is one.
LEMMA OutKeysPut ==
    ASSUME NEW E, EdgesOK(E), NEW k, IsId(k), NEW w \in Weights, NEW O,
           O = OutKeys(E) \/ (k \in DOMAIN E /\ E[k] # w /\ O = OutKeys(E) \ {out_key(k, E[k])}),
           k \in DOMAIN E /\ E[k] # w => O = OutKeys(E) \ {out_key(k, E[k])}
    PROVE  O \cup {out_key(k, w)} = OutKeys(put(E, k, w))
<1>1. PICK F : F = put(E, k, w)
  OBVIOUS
<1>2. DOMAIN F = DOMAIN E \cup {k} /\ F[k] = w /\ \A i \in DOMAIN E : i # k => F[i] = E[i]
  BY <1>1 DEF put
<1>3. ASSUME NEW x \in O PROVE x \in OutKeys(F) \cup {out_key(k, w)}
  <2>1. PICK i \in DOMAIN E : x = out_key(i, E[i])
    BY DEF OutKeys
  <2>2. CASE i # k
    BY <1>2, <2>1, <2>2 DEF OutKeys
  <2>3. CASE i = k
    BY <2>1, <2>3
  <2> QED BY <2>2, <2>3
<1>4. out_key(k, w) \in OutKeys(F)
  BY <1>2 DEF OutKeys
<1>5. ASSUME NEW x \in OutKeys(F) PROVE x \in O \cup {out_key(k, w)}
  <2>1. PICK i \in DOMAIN F : x = out_key(i, F[i])
    BY DEF OutKeys
  <2>2. CASE i = k
    BY <1>2, <2>1, <2>2
  <2>3. CASE i # k
    <3>1. i \in DOMAIN E /\ x = out_key(i, E[i]) /\ x \in OutKeys(E)
      BY <1>2, <2>1, <2>3 DEF OutKeys
    <3>2. IsId(i)
      BY <3>1 DEF EdgesOK
    <3>3. x # out_key(k, E[k])
      BY <2>3, <3>1, <3>2, KeysDiffer
    <3> QED BY <3>1, <3>3
  <2> QED BY <2>2, <2>3
<1> QED BY <1>1, <1>3, <1>4, <1>5

LEMMA InKeysPut ==
    ASSUME NEW E, EdgesOK(E), NEW k, IsId(k), NEW w \in Weights, NEW O,
           O = InKeys(E) \/ (k \in DOMAIN E /\ E[k] # w /\ O = InKeys(E) \ {in_key(k, E[k])}),
           k \in DOMAIN E /\ E[k] # w => O = InKeys(E) \ {in_key(k, E[k])}
    PROVE  O \cup {in_key(k, w)} = InKeys(put(E, k, w))
<1>1. PICK F : F = put(E, k, w)
  OBVIOUS
<1>2. DOMAIN F = DOMAIN E \cup {k} /\ F[k] = w /\ \A i \in DOMAIN E : i # k => F[i] = E[i]
  BY <1>1 DEF put
<1>3. ASSUME NEW x \in O PROVE x \in InKeys(F) \cup {in_key(k, w)}
  <2>1. PICK i \in DOMAIN E : x = in_key(i, E[i])
    BY DEF InKeys
  <2>2. CASE i # k
    BY <1>2, <2>1, <2>2 DEF InKeys
  <2>3. CASE i = k
    BY <2>1, <2>3
  <2> QED BY <2>2, <2>3
<1>4. in_key(k, w) \in InKeys(F)
  BY <1>2 DEF InKeys
<1>5. ASSUME NEW x \in InKeys(F) PROVE x \in O \cup {in_key(k, w)}
  <2>1. PICK i \in DOMAIN F : x = in_key(i, F[i])
    BY DEF InKeys
  <2>2. CASE i = k
    BY <1>2, <2>1, <2>2
  <2>3. CASE i # k
    <3>1. i \in DOMAIN E /\ x = in_key(i, E[i]) /\ x \in InKeys(E)
      BY <1>2, <2>1, <2>3 DEF InKeys
    <3>2. IsId(i)
      BY <3>1 DEF EdgesOK
    <3>3. x # in_key(k, E[k])
      BY <2>3, <3>1, <3>2, KeysDiffer
    <3> QED BY <3>1, <3>3
  <2> QED BY <2>2, <2>3
<1> QED BY <1>1, <1>3, <1>4, <1>5

\* Edges removed with the keys they have.
LEMMA KeysRestricted ==
    ASSUME NEW E, EdgesOK(E), NEW S, S \subseteq DOMAIN E, NEW F, F = Restrict(E, S)
    PROVE  /\ DOMAIN F = S /\ EdgesOK(F)
           /\ \A id : Weight(F, id) = IF id \in S THEN Weight(E, id) ELSE None
           /\ OutKeys(F) = {out_key(id, E[id]) : id \in S}
           /\ InKeys(F) = {in_key(id, E[id]) : id \in S}
<1>1. DOMAIN F = S /\ \A id \in S : F[id] = E[id]
  BY DEF Restrict
<1> QED BY <1>1 DEF EdgesOK, Weight, OutKeys, InKeys

LEMMA KeysOfOthers ==
    ASSUME NEW E, EdgesOK(E), NEW k \in DOMAIN E
    PROVE  /\ OutKeys(E) \ {out_key(k, E[k])} = {out_key(id, E[id]) : id \in DOMAIN E \ {k}}
           /\ InKeys(E) \ {in_key(k, E[k])} = {in_key(id, E[id]) : id \in DOMAIN E \ {k}}
<1>1. \A i \in DOMAIN E : i # k => /\ out_key(i, E[i]) # out_key(k, E[k])
                                   /\ in_key(i, E[i]) # in_key(k, E[k])
  BY KeysDiffer DEF EdgesOK
<1> QED BY <1>1 DEF OutKeys, InKeys

LEMMA GraphShape ==
    ASSUME NEW E, EdgesOK(E), NEW g, g = [edges |-> E, out |-> OutKeys(E), in |-> InKeys(E)]
    PROVE  GraphOK(g) /\ g.edges = E
BY DEF GraphOK, Indexed, OutKeys, InKeys

LEMMA GraphKeys ==
    ASSUME NEW g, GraphOK(g), NEW E, E = g.edges
    PROVE  g = [edges |-> E, out |-> OutKeys(E), in |-> InKeys(E)] /\ EdgesOK(E)
BY DEF GraphOK, Indexed, OutKeys, InKeys

\* What an upsert does to the store: the key of the old weight goes, the new one comes.
LEMMA StorePut ==
    ASSUME NEW g, GraphOK(g), NEW E, E = g.edges, NEW k, IsId(k), NEW w \in Weights,
           NEW w0, w0 = Weight(E, k), NEW cl, cl = IF w0 # w THEN Unindexed(g, k, w0) ELSE g, NEW s,
           s = [edges |-> put(cl.edges, k, w), out |-> cl.out \cup {out_key(k, w)},
                in |-> cl.in \cup {in_key(k, w)}]
    PROVE  GraphOK(s) /\ s.edges = put(E, k, w)
<1>1. g = [edges |-> E, out |-> OutKeys(E), in |-> InKeys(E)] /\ EdgesOK(E)
  BY GraphKeys
<1>2. PICK F : F = put(E, k, w)
  OBVIOUS
<1>3. EdgesOK(F)
  BY <1>1, <1>2, PutEdgesOK
<1>4. PICK O, I : O = cl.out /\ I = cl.in
  OBVIOUS
<1>5. /\ cl.edges = E
      /\ k \in DOMAIN E /\ E[k] # w => /\ O = OutKeys(E) \ {out_key(k, E[k])}
                                       /\ I = InKeys(E) \ {in_key(k, E[k])}
      /\ ~(k \in DOMAIN E /\ E[k] # w) => O = OutKeys(E) /\ I = InKeys(E)
  <2>1. CASE k \in DOMAIN E /\ E[k] # w
    <3>1. w0 = E[k] /\ w0 # w /\ w0 # None
      BY <1>1, <2>1, NoneIsNoWeight DEF Weight, EdgesOK
    <3>2. cl = [g EXCEPT !.out = @ \ {out_key(k, w0)}, !.in = @ \ {in_key(k, w0)}]
      BY <3>1 DEF Unindexed
    <3>3. g.edges = E /\ g.out = OutKeys(E) /\ g.in = InKeys(E)
      BY <1>1
    <3>4. cl.edges = g.edges /\ cl.out = g.out \ {out_key(k, w0)} /\ cl.in = g.in \ {in_key(k, w0)}
      BY <1>1, <3>2
    <3>5. cl.edges = E /\ O = OutKeys(E) \ {out_key(k, E[k])} /\ I = InKeys(E) \ {in_key(k, E[k])}
      BY <1>4, <3>1, <3>3, <3>4, Zenon
    <3> QED BY <2>1, <3>5, Zenon
  <2>2. CASE ~(k \in DOMAIN E /\ E[k] # w)
    <3>1. w0 = w \/ w0 = None
      BY <2>2 DEF Weight
    <3>2. cl = g
      BY <3>1 DEF Unindexed
    <3>3. cl.edges = E /\ O = OutKeys(E) /\ I = InKeys(E)
      <4>1. g.edges = E /\ g.out = OutKeys(E) /\ g.in = InKeys(E)
        BY <1>1
      <4> QED BY <1>4, <3>2, <4>1, Zenon
    <3> QED BY <2>2, <3>3, Zenon
  <2> QED BY <2>1, <2>2
<1>6. O \cup {out_key(k, w)} = OutKeys(F)
  BY <1>1, <1>2, <1>5, OutKeysPut
<1>7. I \cup {in_key(k, w)} = InKeys(F)
  BY <1>1, <1>2, <1>5, InKeysPut
<1>8. s = [edges |-> F, out |-> OutKeys(F), in |-> InKeys(F)]
  BY <1>2, <1>4, <1>5, <1>6, <1>7
<1> QED BY <1>2, <1>3, <1>8, GraphShape

\* What a delete does.
LEMMA StoreRemoved ==
    ASSUME NEW g, GraphOK(g), NEW E, E = g.edges, NEW k \in DOMAIN E, NEW s,
           s = Removed(g, k, E[k])
    PROVE  GraphOK(s) /\ s.edges = Restrict(E, DOMAIN E \ {k})
<1>1. g = [edges |-> E, out |-> OutKeys(E), in |-> InKeys(E)] /\ EdgesOK(E)
  BY GraphKeys
<1>2. PICK F, S : S = DOMAIN E \ {k} /\ F = Restrict(E, S)
  OBVIOUS
<1>3. /\ EdgesOK(F)
      /\ OutKeys(F) = {out_key(id, E[id]) : id \in S}
      /\ InKeys(F) = {in_key(id, E[id]) : id \in S}
  BY <1>1, <1>2, KeysRestricted
<1>4. /\ OutKeys(E) \ {out_key(k, E[k])} = OutKeys(F)
      /\ InKeys(E) \ {in_key(k, E[k])} = InKeys(F)
  <2>1. /\ OutKeys(E) \ {out_key(k, E[k])} = {out_key(id, E[id]) : id \in DOMAIN E \ {k}}
        /\ InKeys(E) \ {in_key(k, E[k])} = {in_key(id, E[id]) : id \in DOMAIN E \ {k}}
    BY <1>1, KeysOfOthers
  <2> QED BY <1>2, <1>3, <2>1, Zenon
<1>5. E[k] # None
  BY <1>1, NoneIsNoWeight DEF EdgesOK
<1>6. PICK u : u = Unindexed(g, k, E[k])
  OBVIOUS
<1>7. u = [edges |-> E, out |-> OutKeys(F), in |-> InKeys(F)]
  <2>1. u = [g EXCEPT !.out = @ \ {out_key(k, E[k])}, !.in = @ \ {in_key(k, E[k])}]
    BY <1>5, <1>6 DEF Unindexed
  <2>2. u = [edges |-> E, out |-> g.out \ {out_key(k, E[k])}, in |-> g.in \ {in_key(k, E[k])}]
    BY <1>1, <2>1
  <2>3. g.out = OutKeys(E) /\ g.in = InKeys(E)
    BY <1>1
  <2> QED BY <1>4, <2>2, <2>3, Zenon
<1>8. s = [edges |-> F, out |-> OutKeys(F), in |-> InKeys(F)]
  BY <1>1, <1>2, <1>6, <1>7 DEF Removed
<1> QED BY <1>2, <1>3, <1>8, GraphShape

LEMMA DeltaApplied ==
    ASSUME NEW c, NEW b, BatchOK(c, b), NEW d, d.weight \in Weights,
           NEW n, n = apply_edge_delta(c, b, d)
    PROVE  /\ BatchOK(c, n)
           /\ \A id : Weight(n.store.edges, id) = Updated(Weight(b.store.edges, id), d, id)
<1>1. PICK k, w0, E : k = Identity(d) /\ w0 = Weight(E, k) /\ E = b.store.edges
  OBVIOUS
<1>2. IsId(k) /\ w0 = Current(c, b, k) /\ GraphOK(b.store) /\ EdgesOK(E)
  BY <1>1 DEF Identity, IsId, BatchOK, GraphOK
<1>3. w0 # None => w0 \in Weights /\ k \in DOMAIN E /\ E[k] = w0
  BY <1>1, <1>2 DEF Weight, EdgesOK
<1>4. CASE d.op # "delete"
  <2>1. PICK w : w = IF d.op = "max" /\ w0 # None THEN Max({w0, d.weight}) ELSE d.weight
    OBVIOUS
  <2>2. w \in Weights
    BY <1>3, <2>1, GreaterOfTwo
  <2>3. PICK cl : cl = IF w0 # w THEN Unindexed(b.store, k, w0) ELSE b.store
    OBVIOUS
  <2>4. n = [store |-> [edges |-> put(cl.edges, k, w), out |-> cl.out \cup {out_key(k, w)},
                        in |-> cl.in \cup {in_key(k, w)}],
             overlay |-> put(b.overlay, k, w), changed |-> b.changed + (IF w0 # w THEN 1 ELSE 0)]
    BY <1>1, <1>2, <1>4, <2>1, <2>3 DEF apply_edge_delta
  <2>5. PICK s, F, ov : s = n.store /\ F = put(E, k, w) /\ ov = put(b.overlay, k, w)
    OBVIOUS
  <2>6. GraphOK(s) /\ s.edges = F
    BY <1>1, <1>2, <2>2, <2>3, <2>4, <2>5, StorePut
  <2>7. Weight(F, k) = w /\ \A id : id # k => Weight(F, id) = Weight(E, id)
    BY <2>5 DEF put, Weight
  <2>8. \A id : Current(c, n, id) = Weight(F, id)
    <3>1. n.overlay = ov /\ DOMAIN ov = DOMAIN b.overlay \cup {k} /\ ov[k] = w
          /\ \A i \in DOMAIN b.overlay : i # k => ov[i] = b.overlay[i]
      BY <2>4, <2>5 DEF put
    <3>2. Current(c, n, k) = w
      BY <3>1 DEF Current
    <3>3. \A id : id # k => Current(c, n, id) = Current(c, b, id)
      BY <3>1 DEF Current
    <3>4. \A id : Current(c, b, id) = Weight(E, id)
      BY <1>1 DEF BatchOK
    <3> QED BY <2>7, <3>2, <3>3, <3>4
  <2>9. n = [store |-> n.store, overlay |-> n.overlay, changed |-> n.changed]
    BY <2>4
  <2>10. BatchOK(c, n)
    BY <2>5, <2>6, <2>8, <2>9 DEF BatchOK
  <2>11. Updated(w0, d, k) = w /\ \A id : id # k => Updated(Weight(E, id), d, id) = Weight(E, id)
    BY <1>1, <1>4, <2>1 DEF Updated
  <2> QED BY <1>1, <2>5, <2>6, <2>7, <2>10, <2>11
<1>5. CASE d.op = "delete" /\ w0 = None
  <2>1. n = b
    BY <1>1, <1>2, <1>5 DEF apply_edge_delta
  <2>2. \A id : Updated(Weight(E, id), d, id) = Weight(E, id)
    BY <1>1, <1>5 DEF Updated
  <2> QED BY <1>1, <2>1, <2>2
<1>6. CASE d.op = "delete" /\ w0 # None
  <2>1. PICK s, F, ov : /\ s = Removed(b.store, k, w0)
                        /\ F = Restrict(E, DOMAIN E \ {k}) /\ ov = put(b.overlay, k, None)
    OBVIOUS
  <2>2. n = [store |-> s, overlay |-> ov, changed |-> b.changed + 1]
    BY <1>1, <1>2, <1>6, <2>1 DEF apply_edge_delta
  <2>3. GraphOK(s) /\ s.edges = F
    <3>1. k \in DOMAIN E /\ E[k] = w0
      BY <1>3, <1>6
    <3>2. s = Removed(b.store, k, E[k])
      BY <2>1, <3>1, Zenon
    <3>3. PICK g : g = b.store
      OBVIOUS
    <3>4. GraphOK(g) /\ E = g.edges
      BY <1>1, <1>2, <3>3
    <3>5. s = Removed(g, k, E[k])
      BY <3>2, <3>3, Zenon
    <3>6. GraphOK(s) /\ s.edges = Restrict(E, DOMAIN E \ {k})
      BY <3>1, <3>4, <3>5, StoreRemoved
    <3> QED BY <2>1, <3>6
  <2>4. Weight(F, k) = None /\ \A id : id # k => Weight(F, id) = Weight(E, id)
    BY <2>1 DEF Restrict, Weight
  <2>5. \A id : Current(c, n, id) = Weight(F, id)
    <3>1. n.overlay = ov /\ DOMAIN ov = DOMAIN b.overlay \cup {k} /\ ov[k] = None
          /\ \A i \in DOMAIN b.overlay : i # k => ov[i] = b.overlay[i]
      BY <2>1, <2>2 DEF put
    <3>2. Current(c, n, k) = None
      BY <3>1 DEF Current
    <3>3. \A id : id # k => Current(c, n, id) = Current(c, b, id)
      BY <3>1 DEF Current
    <3>4. \A id : Current(c, b, id) = Weight(E, id)
      BY <1>1 DEF BatchOK
    <3> QED BY <2>4, <3>2, <3>3, <3>4
  <2>6. BatchOK(c, n)
    BY <2>2, <2>3, <2>5 DEF BatchOK
  <2>7. Updated(w0, d, k) = None /\ \A id : id # k => Updated(Weight(E, id), d, id) = Weight(E, id)
    BY <1>1, <1>6 DEF Updated
  <2> QED BY <1>1, <2>2, <2>3, <2>4, <2>6, <2>7
<1> QED BY <1>4, <1>5, <1>6

-----------------------------------------------------------------------------
(* 3. Lists of deltas.                                                     *)

\* Induction over the positions of a list.
LEMMA Upwards ==
    ASSUME NEW S, NEW n \in Nat, 0 \in S, \A k \in 0..n : k \in S /\ k + 1 \in 0..n => k + 1 \in S
    PROVE  \A k \in 0..n : k \in S
<1> DEFINE T == {k \in 0..n : k \notin S}
<1>1. SUFFICES ASSUME T # {} PROVE FALSE
  OBVIOUS
<1>2. T \subseteq Nat /\ \A k \in T : k \in 0..n /\ k \notin S
  OBVIOUS
<1>3. \A k \in 0..n : k \notin S => k \in T
  OBVIOUS
<1> HIDE DEF T
<1>4. PICK k \in T : \A j \in T : k <= j
  BY <1>1, <1>2, LeastNatural
<1>5. k # 0 /\ k \in 0..n
  BY <1>2
<1>6. PICK j : j = k - 1
  OBVIOUS
<1>7. j \in 0..n /\ j + 1 = k /\ ~(k <= j)
  BY <1>5, <1>6
<1>8. j \in S
  BY <1>3, <1>4, <1>7
<1> QED BY <1>2, <1>5, <1>7, <1>8

IsDeltas(ds) == /\ \E S : ds \in Seq(S)
                /\ \A i \in 1..Len(ds) : ds[i].weight \in Weights

\* h follows the weight of an edge through the first n deltas.
Follows(h, ds, id, n) == \A i \in 1..n : h[i] = Updated(h[i - 1], ds[i], id)

\* The deltas take the weight of an edge from w to v.
Takes(ds, id, w, v) == \E h : Follows(h, ds, id, Len(ds)) /\ h[0] = w /\ h[Len(ds)] = v

LEMMA FollowsOnce ==
    ASSUME NEW ds, NEW id, NEW n \in Nat, NEW h, NEW k, Follows(h, ds, id, n), Follows(k, ds, id, n), h[0] = k[0]
    PROVE  h[n] = k[n]
<1> DEFINE S == {i \in 0..n : h[i] = k[i]}
<1>1. \A i \in 0..n : i \in S <=> h[i] = k[i]
  OBVIOUS
<1> HIDE DEF S
<1>2. 0 \in S
  BY <1>1
<1>3. ASSUME NEW i \in 0..n, i \in S, i + 1 \in 0..n PROVE i + 1 \in S
  <2>1. i + 1 \in 1..n /\ (i + 1) - 1 = i
    BY <1>3
  <2>2. h[i + 1] = Updated(h[i], ds[i + 1], id) /\ k[i + 1] = Updated(k[i], ds[i + 1], id)
    BY <2>1 DEF Follows
  <2> QED BY <1>1, <1>3, <2>2
<1>4. \A i \in 0..n : i \in S
  BY <1>2, <1>3, Upwards
<1>5. n \in 0..n
  OBVIOUS
<1> QED BY <1>1, <1>4, <1>5

LEMMA TakesOnce ==
    ASSUME NEW ds, Len(ds) \in Nat, NEW id, NEW w, NEW v, NEW u, Takes(ds, id, w, v), Takes(ds, id, w, u)
    PROVE  v = u
BY FollowsOnce DEF Takes

\* Deltas of other edges change nothing.
LEMMA OthersTakeNothing ==
    ASSUME NEW ds, Len(ds) \in Nat, NEW id, \A i \in 1..Len(ds) : Identity(ds[i]) # id, NEW w
    PROVE  Takes(ds, id, w, w)
<1>1. PICK h : h = [i \in 0..Len(ds) |-> w]
  OBVIOUS
<1>2. \A i \in 1..Len(ds) : h[i] = w /\ h[i - 1] = w
  BY <1>1
<1>3. Follows(h, ds, id, Len(ds))
  BY <1>2 DEF Follows, Updated
<1>4. h[0] = w /\ h[Len(ds)] = w
  BY <1>1
<1> QED BY <1>3, <1>4 DEF Takes

LEMMA TakesSplit ==
    ASSUME NEW S, NEW a \in Seq(S), NEW b \in Seq(S), NEW id, NEW w, NEW u, Takes(a \o b, id, w, u)
    PROVE  \E v : Takes(a, id, w, v) /\ Takes(b, id, v, u)
<1>1. PICK la, lb : la = Len(a) /\ lb = Len(b)
  OBVIOUS
<1>2. la \in Nat /\ lb \in Nat /\ Len(a \o b) = la + lb
  BY <1>1
<1>3. /\ \A i \in 1..la : (a \o b)[i] = a[i]
      /\ \A i \in 1..lb : (a \o b)[la + i] = b[i]
  BY <1>1
<1>4. PICK h : Follows(h, a \o b, id, la + lb) /\ h[0] = w /\ h[la + lb] = u
  BY <1>2 DEF Takes
<1>5. \A i \in 1..(la + lb) : h[i] = Updated(h[i - 1], (a \o b)[i], id)
  BY <1>4 DEF Follows
<1>6. Follows(h, a, id, la)
  <2>1. \A i \in 1..la : i \in 1..(la + lb)
    BY <1>2
  <2> QED BY <1>3, <1>5, <2>1 DEF Follows
<1>7. PICK k : k = [i \in 0..lb |-> h[la + i]]
  OBVIOUS
<1>8. Follows(k, b, id, lb)
  <2>1. SUFFICES ASSUME NEW i \in 1..lb PROVE k[i] = Updated(k[i - 1], b[i], id)
    BY DEF Follows
  <2>2. la + i \in 1..(la + lb) /\ (la + i) - 1 = la + (i - 1) /\ i \in 0..lb /\ i - 1 \in 0..lb
    BY <1>2
  <2>3. k[i] = h[la + i] /\ k[i - 1] = h[la + (i - 1)]
    BY <1>7, <2>2
  <2>4. h[la + i] = Updated(h[(la + i) - 1], (a \o b)[la + i], id)
    BY <1>5, <2>2
  <2> QED BY <1>3, <2>2, <2>3, <2>4
<1>9. k[0] = h[la] /\ k[lb] = u
  BY <1>2, <1>4, <1>7
<1> QED BY <1>1, <1>4, <1>6, <1>8, <1>9 DEF Takes

\* A batch of deltas leaves a graph whose indexes fit, and takes every edge where the deltas take it.
LEMMA DeltasApplied ==
    ASSUME NEW c, GraphOK(c), NEW ds, IsDeltas(ds), NEW s, s = apply_edges(c, ds).store
    PROVE  /\ GraphOK(s)
           /\ \A id : Takes(ds, id, Weight(c.edges, id), Weight(s.edges, id))
<1>1. PICK n : n = Len(ds)
  OBVIOUS
<1>2. n \in Nat
  BY <1>1 DEF IsDeltas
<1>3. PICK r : IsBuilt(r, c, ds, n) /\ apply_edges(c, ds) = r[n]
  BY <1>1, <1>2, BuiltByDeltas
<1>4. r[0] = NewBatch(c) /\ \A i \in 0..n : i + 1 \in 0..n => r[i + 1] = apply_edge_delta(c, r[i], ds[i + 1])
  <2>1. \A i \in 0..n : r[i] = IF i = 0 THEN NewBatch(c) ELSE apply_edge_delta(c, r[i - 1], ds[i])
    BY <1>3 DEF IsBuilt
  <2>2. \A i \in 0..n : i + 1 # 0 /\ (i + 1) - 1 = i
    OBVIOUS
  <2> QED BY <1>2, <2>1, <2>2
<1>5. BatchOK(c, r[0]) /\ r[0].store = c
  BY <1>4 DEF NewBatch, BatchOK, Current, Weight
<1> DEFINE S == {i \in 0..n : BatchOK(c, r[i])}
<1>6. \A i \in 0..n : i \in S <=> BatchOK(c, r[i])
  OBVIOUS
<1> HIDE DEF S
<1>7. ASSUME NEW i \in 0..n, BatchOK(c, r[i]), i + 1 \in 0..n
      PROVE  /\ BatchOK(c, r[i + 1])
             /\ \A id : Weight(r[i + 1].store.edges, id) = Updated(Weight(r[i].store.edges, id), ds[i + 1], id)
  <2>1. ds[i + 1].weight \in Weights
    BY <1>1, <1>2, <1>7 DEF IsDeltas
  <2>2. r[i + 1] = apply_edge_delta(c, r[i], ds[i + 1])
    BY <1>4, <1>7
  <2> QED BY <1>7, <2>1, <2>2, DeltaApplied
<1>8. \A i \in 0..n : i \in S
  <2>1. 0 \in S
    BY <1>2, <1>5, <1>6
  <2>2. \A i \in 0..n : i \in S /\ i + 1 \in 0..n => i + 1 \in S
    BY <1>6, <1>7
  <2> QED BY <1>2, <2>1, <2>2, Upwards
<1>9. n \in 0..n /\ s = r[n].store
  BY <1>2, <1>3
<1>10. GraphOK(s)
  BY <1>6, <1>8, <1>9 DEF BatchOK
<1>11. ASSUME NEW id PROVE Takes(ds, id, Weight(c.edges, id), Weight(s.edges, id))
  <2>1. PICK h : h = [i \in 0..n |-> Weight(r[i].store.edges, id)]
    OBVIOUS
  <2>2. ASSUME NEW i \in 1..n PROVE h[i] = Updated(h[i - 1], ds[i], id)
    <3>1. PICK j : j = i - 1
      OBVIOUS
    <3>2. j \in 0..n /\ j + 1 \in 0..n /\ i = j + 1
      BY <1>2, <3>1
    <3>3. BatchOK(c, r[j])
      BY <1>6, <1>8, <3>2
    <3>4. Weight(r[j + 1].store.edges, id) = Updated(Weight(r[j].store.edges, id), ds[j + 1], id)
      BY <1>7, <3>2, <3>3
    <3>5. h[i] = Weight(r[j + 1].store.edges, id) /\ h[i - 1] = Weight(r[j].store.edges, id)
      BY <2>1, <3>1, <3>2
    <3> QED BY <3>2, <3>4, <3>5
  <2>3. Follows(h, ds, id, n)
    BY <2>2 DEF Follows
  <2>4. h[0] = Weight(c.edges, id) /\ h[n] = Weight(s.edges, id)
    BY <1>2, <1>5, <1>9, <2>1
  <2> QED BY <1>1, <2>3, <2>4 DEF Takes
<1> QED BY <1>10, <1>11

-----------------------------------------------------------------------------
(* 4. The replay of a chain.                                               *)

IsEntry(e) == e = [event |-> e.event, edges |-> e.edges, leaf_hash |-> e.leaf_hash, redacted |-> e.redacted]
EntriesOK(es) == \A q \in DOMAIN es : IsEntry(es[q]) /\ IsDeltas(es[q].edges)

\* What the entry at q does to the weight of an edge.
EntryTakes(es, q, id, w, v) == IF q \in DOMAIN es THEN Takes(es[q].edges, id, w, v) ELSE v = w

\* h follows the weight of an edge through the first n entries.
Replays(h, es, id, n) == h[0] = None /\ \A q \in 1..n : EntryTakes(es, q, id, h[q - 1], h[q])
Leaves(es, n, id, v) == \E h : Replays(h, es, id, n) /\ h[n] = v

LEMMA LeavesOnce ==
    ASSUME NEW es, EntriesOK(es), NEW n \in Nat, NEW id, NEW v, NEW u, Leaves(es, n, id, v), Leaves(es, n, id, u)
    PROVE  v = u
<1>1. PICK h : Replays(h, es, id, n) /\ h[n] = v
  BY DEF Leaves
<1>2. PICK k : Replays(k, es, id, n) /\ k[n] = u
  BY DEF Leaves
<1> DEFINE S == {i \in 0..n : h[i] = k[i]}
<1>3. \A i \in 0..n : i \in S <=> h[i] = k[i]
  OBVIOUS
<1> HIDE DEF S
<1>4. 0 \in S
  BY <1>1, <1>2, <1>3 DEF Replays
<1>5. ASSUME NEW i \in 0..n, i \in S, i + 1 \in 0..n PROVE i + 1 \in S
  <2>1. i + 1 \in 1..n /\ (i + 1) - 1 = i
    BY <1>5
  <2>2. EntryTakes(es, i + 1, id, h[i], h[i + 1]) /\ EntryTakes(es, i + 1, id, k[i], k[i + 1])
    BY <1>1, <1>2, <2>1 DEF Replays
  <2>3. h[i] = k[i]
    BY <1>3, <1>5
  <2>4. i + 1 \in DOMAIN es => Len(es[i + 1].edges) \in Nat
    BY DEF EntriesOK, IsDeltas
  <2>5. h[i + 1] = k[i + 1]
    BY <2>2, <2>3, <2>4, TakesOnce DEF EntryTakes
  <2> QED BY <1>3, <1>5, <2>5
<1>6. \A i \in 0..n : i \in S
  BY <1>4, <1>5, Upwards
<1>7. n \in 0..n
  OBVIOUS
<1> QED BY <1>1, <1>2, <1>3, <1>6, <1>7

\* One more entry.
LEMMA LeavesNext ==
    ASSUME NEW es, NEW n \in Nat, NEW id, NEW v, NEW u, Leaves(es, n, id, v), EntryTakes(es, n + 1, id, v, u)
    PROVE  Leaves(es, n + 1, id, u)
<1>1. PICK h : Replays(h, es, id, n) /\ h[n] = v
  BY DEF Leaves
<1>2. PICK k : k = [i \in 0..(n + 1) |-> IF i = n + 1 THEN u ELSE h[i]]
  OBVIOUS
<1>3. k[n + 1] = u /\ \A i \in 0..n : k[i] = h[i]
  BY <1>2
<1>4. k[0] = None
  BY <1>1, <1>3 DEF Replays
<1>5. ASSUME NEW q \in 1..(n + 1) PROVE EntryTakes(es, q, id, k[q - 1], k[q])
  <2>1. CASE q = n + 1
    <3>1. k[q] = u /\ k[q - 1] = v
      BY <1>1, <1>3, <2>1
    <3> QED BY <2>1, <3>1
  <2>2. CASE q # n + 1
    <3>1. q \in 1..n /\ q \in 0..n /\ q - 1 \in 0..n
      BY <2>2
    <3>2. k[q] = h[q] /\ k[q - 1] = h[q - 1]
      BY <1>3, <3>1
    <3> QED BY <1>1, <3>1, <3>2 DEF Replays
  <2> QED BY <2>1, <2>2
<1> QED BY <1>3, <1>4, <1>5 DEF Leaves, Replays

\* Other entries that do the same to the edge.
LEMMA LeavesSame ==
    ASSUME NEW es, NEW fs, NEW n \in Nat, NEW id, NEW v, Leaves(es, n, id, v),
           \A q \in 1..n : \A x, y : EntryTakes(es, q, id, x, y) => EntryTakes(fs, q, id, x, y)
    PROVE  Leaves(fs, n, id, v)
BY DEF Leaves, Replays

\* g is the function Replayed defines.
IsReplay(g, es, n) ==
    g = [q \in 0..n |-> IF q = 0 THEN EmptyGraph
                        ELSE IF q \notin DOMAIN es THEN g[q - 1]
                        ELSE apply_edges(g[q - 1], es[q].edges).store]

LEMMA ReplayGoesOn ==
    ASSUME NEW es, NEW n \in Nat, NEW r, IsReplay(r, es, n)
    PROVE  \E h : IsReplay(h, es, n + 1)
<1> DEFINE At(g, q) == IF q = 0 THEN EmptyGraph
                       ELSE IF q \notin DOMAIN es THEN g[q - 1]
                       ELSE apply_edges(g[q - 1], es[q].edges).store
<1>1. PICK h : h = [i \in 0..(n + 1) |-> At(r, i)]
  OBVIOUS
<1>2. \A i \in 0..n : h[i] = r[i]
  <2>1. \A i \in 0..n : r[i] = At(r, i)
    BY DEF IsReplay
  <2>2. \A i \in 0..n : i \in 0..(n + 1)
    OBVIOUS
  <2> HIDE DEF At
  <2> QED BY <1>1, <2>1, <2>2
<1>3. \A i \in 0..(n + 1) : At(h, i) = At(r, i)
  <2>1. \A i \in 0..(n + 1) : i # 0 => h[i - 1] = r[i - 1]
    BY <1>2
  <2> QED BY <2>1
<1>4. h = [i \in 0..(n + 1) |-> At(h, i)]
  <2> HIDE DEF At
  <2> QED BY <1>1, <1>3
<1> QED BY <1>4 DEF IsReplay

LEMMA ReplayExists ==
    ASSUME NEW es, NEW n \in Nat
    PROVE  \E r : IsReplay(r, es, n)
<1> DEFINE T == {k \in 0..n : \E r : IsReplay(r, es, k)}
<1>1. \A k \in 0..n : k \in T <=> \E r : IsReplay(r, es, k)
  OBVIOUS
<1> HIDE DEF T
<1>2. 0 \in T
  <2>1. PICK r : r = [i \in 0..0 |-> EmptyGraph]
    OBVIOUS
  <2>2. IsReplay(r, es, 0)
    BY <2>1 DEF IsReplay
  <2> QED BY <1>1, <2>2
<1>3. \A k \in 0..n : k \in T /\ k + 1 \in 0..n => k + 1 \in T
  BY <1>1, ReplayGoesOn
<1>4. \A k \in 0..n : k \in T
  BY <1>2, <1>3, Upwards
<1>5. n \in 0..n
  OBVIOUS
<1> QED BY <1>1, <1>4, <1>5

LEMMA ReplayLeaves ==
    ASSUME NEW s, NEW ch, NEW es, es = s.entries[ch], EntriesOK(es), NEW n \in Nat, n = s.seq[ch],
           NEW g, g = Replayed(s, ch)
    PROVE  GraphOK(g) /\ \A id : Leaves(es, n, id, Weight(g.edges, id))
<1>1. PICK r : IsReplay(r, es, n) /\ g = r[n]
  <2>1. g = (CHOOSE r : IsReplay(r, es, n))[n]
    BY DEF Replayed, IsReplay
  <2> QED BY <2>1, ReplayExists
<1>2. \A q \in 0..n : r[q] = IF q = 0 THEN EmptyGraph
                             ELSE IF q \notin DOMAIN es THEN r[q - 1]
                             ELSE apply_edges(r[q - 1], es[q].edges).store
  BY <1>1 DEF IsReplay
<1>3. r[0] = EmptyGraph
  BY <1>2
<1>4. ASSUME NEW q \in 1..n, GraphOK(r[q - 1])
      PROVE  GraphOK(r[q]) /\ \A id : EntryTakes(es, q, id, Weight(r[q - 1].edges, id), Weight(r[q].edges, id))
  <2>1. r[q] = IF q \notin DOMAIN es THEN r[q - 1] ELSE apply_edges(r[q - 1], es[q].edges).store
    BY <1>2
  <2>2. CASE q \notin DOMAIN es
    BY <1>4, <2>1, <2>2 DEF EntryTakes
  <2>3. CASE q \in DOMAIN es
    <3>1. IsDeltas(es[q].edges) /\ r[q] = apply_edges(r[q - 1], es[q].edges).store
      BY <2>1, <2>3 DEF EntriesOK
    <3> QED BY <1>4, <2>3, <3>1, DeltasApplied DEF EntryTakes
  <2> QED BY <2>2, <2>3
<1> DEFINE S == {q \in 0..n : GraphOK(r[q])}
<1>5. \A q \in 0..n : q \in S <=> GraphOK(r[q])
  OBVIOUS
<1> HIDE DEF S
<1>6. 0 \in S
  <2>1. GraphOK(EmptyGraph)
    BY DEF GraphOK, EdgesOK, Indexed, EmptyGraph
  <2> QED BY <1>3, <1>5, <2>1
<1>7. ASSUME NEW q \in 0..n, q \in S, q + 1 \in 0..n PROVE q + 1 \in S
  <2>1. q + 1 \in 1..n /\ (q + 1) - 1 = q
    BY <1>7
  <2> QED BY <1>4, <1>5, <1>7, <2>1
<1>8. \A q \in 0..n : q \in S
  BY <1>6, <1>7, Upwards
<1>9. n \in 0..n
  OBVIOUS
<1>10. ASSUME NEW id PROVE Leaves(es, n, id, Weight(g.edges, id))
  <2>1. PICK h : h = [q \in 0..n |-> Weight(r[q].edges, id)]
    OBVIOUS
  <2>2. h[0] = None
    BY <1>3, <2>1 DEF EmptyGraph, Weight
  <2>3. ASSUME NEW q \in 1..n PROVE EntryTakes(es, q, id, h[q - 1], h[q])
    <3>1. q \in 0..n /\ q - 1 \in 0..n
      OBVIOUS
    <3>2. GraphOK(r[q - 1])
      BY <1>5, <1>8, <3>1
    <3>3. h[q] = Weight(r[q].edges, id) /\ h[q - 1] = Weight(r[q - 1].edges, id)
      BY <2>1, <3>1
    <3> QED BY <1>4, <3>2, <3>3
  <2>4. h[n] = Weight(g.edges, id)
    BY <1>1, <1>9, <2>1
  <2> QED BY <2>2, <2>3, <2>4 DEF Leaves, Replays
<1> QED BY <1>1, <1>5, <1>8, <1>9, <1>10

-----------------------------------------------------------------------------
(* 5. The entries of an append.                                            *)

CallOK(es) == Len(es) \in Nat /\ \A i \in 1..Len(es) : IsDeltas(es[i].edges)

IsJoin(all, es, n) == all = [i \in 0..n |-> IF i = 0 THEN <<>> ELSE all[i - 1] \o es[i].edges]

LEMMA JoinGoesOn ==
    ASSUME NEW es, NEW n \in Nat, NEW r, IsJoin(r, es, n)
    PROVE  \E h : IsJoin(h, es, n + 1)
<1>1. PICK h : h = [i \in 0..(n + 1) |-> IF i = 0 THEN <<>> ELSE r[i - 1] \o es[i].edges]
  OBVIOUS
<1>2. \A i \in 0..n : h[i] = r[i]
  <2>1. \A i \in 0..n : r[i] = IF i = 0 THEN <<>> ELSE r[i - 1] \o es[i].edges
    BY DEF IsJoin
  <2>2. \A i \in 0..n : i \in 0..(n + 1)
    OBVIOUS
  <2>3. \A i \in 0..(n + 1) : h[i] = IF i = 0 THEN <<>> ELSE r[i - 1] \o es[i].edges
    BY <1>1
  <2> QED BY <2>1, <2>2, <2>3, Zenon
<1>3. \A i \in 0..(n + 1) : i # 0 => h[i - 1] = r[i - 1]
  BY <1>2
<1>4. h = [i \in 0..(n + 1) |-> IF i = 0 THEN <<>> ELSE h[i - 1] \o es[i].edges]
  BY <1>1, <1>3, Zenon
<1> QED BY <1>4 DEF IsJoin

LEMMA JoinExists ==
    ASSUME NEW es, NEW n \in Nat
    PROVE  \E r : IsJoin(r, es, n)
<1> DEFINE T == {k \in 0..n : \E r : IsJoin(r, es, k)}
<1>1. \A k \in 0..n : k \in T <=> \E r : IsJoin(r, es, k)
  OBVIOUS
<1> HIDE DEF T
<1>2. 0 \in T
  <2>1. PICK r : r = [i \in 0..0 |-> <<>>]
    OBVIOUS
  <2>2. IsJoin(r, es, 0)
    BY <2>1 DEF IsJoin
  <2> QED BY <1>1, <2>2
<1>3. \A k \in 0..n : k \in T /\ k + 1 \in 0..n => k + 1 \in T
  BY <1>1, JoinGoesOn
<1>4. \A k \in 0..n : k \in T
  BY <1>2, <1>3, Upwards
<1>5. n \in 0..n
  OBVIOUS
<1> QED BY <1>1, <1>4, <1>5

FromBoth(c, a, b) == \A i \in 1..Len(c) : (\E j \in 1..Len(a) : c[i] = a[j]) \/ (\E j \in 1..Len(b) : c[i] = b[j])

LEMMA DeltasJoined ==
    ASSUME NEW a, IsDeltas(a), NEW b, IsDeltas(b)
    PROVE  /\ IsDeltas(a \o b)
           /\ \A id, w, u : Takes(a \o b, id, w, u) => \E v : Takes(a, id, w, v) /\ Takes(b, id, v, u)
           /\ FromBoth(a \o b, a, b)
<1>1. PICK S, T : a \in Seq(S) /\ b \in Seq(T)
  BY DEF IsDeltas
<1>2. PICK U : U = S \cup T
  OBVIOUS
<1>3. a \in Seq(U) /\ b \in Seq(U)
  BY <1>1, <1>2
<1>4. a \o b \in Seq(U) /\ Len(a \o b) = Len(a) + Len(b) /\ Len(a) \in Nat /\ Len(b) \in Nat
  BY <1>3
<1>5. \A i \in 1..Len(a \o b) : (a \o b)[i] = IF i <= Len(a) THEN a[i] ELSE b[i - Len(a)]
  BY <1>3
<1>6. \A i \in 1..Len(a \o b) : (\E j \in 1..Len(a) : (a \o b)[i] = a[j]) \/ (\E j \in 1..Len(b) : (a \o b)[i] = b[j])
  <2>1. PICK c : c = a \o b
    OBVIOUS
  <2>2. Len(c) = Len(a) + Len(b) /\ \A i \in 1..Len(c) : c[i] = IF i <= Len(a) THEN a[i] ELSE b[i - Len(a)]
    BY <1>4, <1>5, <2>1, Zenon
  <2>3. \A i \in 1..Len(c) : (\E j \in 1..Len(a) : c[i] = a[j]) \/ (\E j \in 1..Len(b) : c[i] = b[j])
    <3>1. ASSUME NEW i \in 1..Len(c), i <= Len(a) PROVE \E j \in 1..Len(a) : c[i] = a[j]
      BY <1>4, <2>2, <3>1
    <3>2. ASSUME NEW i \in 1..Len(c), ~(i <= Len(a)) PROVE \E j \in 1..Len(b) : c[i] = b[j]
      <4>1. i - Len(a) \in 1..Len(b) /\ c[i] = b[i - Len(a)]
        BY <1>4, <2>2, <3>2
      <4> QED BY <4>1
    <3> QED BY <3>1, <3>2
  <2> QED BY <2>1, <2>3, Zenon
<1>7. IsDeltas(a \o b)
  BY <1>4, <1>6 DEF IsDeltas
<1>8. FromBoth(a \o b, a, b)
  BY <1>6, Zenon DEF FromBoth
<1> QED BY <1>3, <1>7, <1>8, TakesSplit

\* The edges of the first entries of an append, joined one entry at a time.
LEMMA EdgesJoined ==
    ASSUME NEW es, CallOK(es)
    PROVE  /\ EdgesUpTo(es, 0) = <<>>
           /\ \A n \in 0..Len(es) : n + 1 \in 0..Len(es) => EdgesUpTo(es, n + 1) = EdgesUpTo(es, n) \o es[n + 1].edges
           /\ \A n \in 0..Len(es) : IsDeltas(EdgesUpTo(es, n))
<1>1. PICK m : m = Len(es)
  OBVIOUS
<1>2. m \in Nat /\ \A i \in 1..m : IsDeltas(es[i].edges)
  BY <1>1 DEF CallOK
<1>3. PICK r : IsJoin(r, es, m) /\ \A n : EdgesUpTo(es, n) = r[n]
  <2>1. \A n : EdgesUpTo(es, n) = (CHOOSE r : IsJoin(r, es, m))[n]
    BY <1>1 DEF EdgesUpTo, IsJoin
  <2>2. IsJoin(CHOOSE r : IsJoin(r, es, m), es, m)
    BY <1>2, JoinExists
  <2> QED BY <2>1, <2>2
<1>4. \A i \in 0..m : r[i] = IF i = 0 THEN <<>> ELSE r[i - 1] \o es[i].edges
  BY <1>3 DEF IsJoin
<1>5. r[0] = <<>> /\ \A n \in 0..m : n + 1 \in 0..m => r[n + 1] = r[n] \o es[n + 1].edges
  <2>1. \A n \in 0..m : n + 1 # 0 /\ (n + 1) - 1 = n
    OBVIOUS
  <2>2. ASSUME NEW n \in 0..m, n + 1 \in 0..m PROVE r[n + 1] = r[n] \o es[n + 1].edges
    <3>1. r[n + 1] = IF n + 1 = 0 THEN <<>> ELSE r[(n + 1) - 1] \o es[n + 1].edges
      BY <1>4, <2>2, Zenon
    <3> QED BY <2>1, <3>1, Zenon
  <2>3. 0 \in 0..m
    BY <1>2
  <2>4. r[0] = <<>>
    BY <1>4, <2>3, Zenon
  <2> QED BY <2>2, <2>4, Zenon
<1> DEFINE S == {i \in 0..m : IsDeltas(r[i])}
<1>6. \A i \in 0..m : i \in S <=> IsDeltas(r[i])
  OBVIOUS
<1> HIDE DEF S
<1>7. 0 \in S
  <2>1. IsDeltas(<<>>)
    BY DEF IsDeltas
  <2> QED BY <1>2, <1>5, <1>6, <2>1
<1>8. ASSUME NEW n \in 0..m, n \in S, n + 1 \in 0..m PROVE n + 1 \in S
  <2>1. IsDeltas(r[n]) /\ IsDeltas(es[n + 1].edges) /\ r[n + 1] = r[n] \o es[n + 1].edges
    <3>1. n + 1 \in 1..m
      BY <1>8
    <3>2. r[n + 1] = r[n] \o es[n + 1].edges
      BY <1>5, <1>8, Zenon
    <3> QED BY <1>2, <1>6, <1>8, <3>1, <3>2, Zenon
  <2>2. IsDeltas(r[n + 1])
    <3>1. PICK a, b : a = r[n] /\ b = es[n + 1].edges
      OBVIOUS
    <3>2. IsDeltas(a \o b)
      BY <2>1, <3>1, DeltasJoined
    <3> QED BY <2>1, <3>1, <3>2, Zenon
  <2> QED BY <1>6, <1>8, <2>2, Zenon
<1>9. \A n \in 0..m : n \in S
  BY <1>2, <1>7, <1>8, Upwards
<1> QED BY <1>1, <1>3, <1>5, <1>6, <1>9

\* A store is a record of its parts.
Shape(s) ==
    /\ s = [mode |-> s.mode, seq |-> s.seq, entries |-> s.entries, frontier |-> s.frontier, nodes |-> s.nodes,
            idem |-> s.idem, graph |-> s.graph, ledger |-> s.ledger, deleted |-> s.deleted, edited |-> s.edited]
    /\ s.seq \in [Chain -> Nat]
    /\ s.entries = [c \in Chain |-> s.entries[c]]
    /\ \A c \in Chain : EntriesOK(s.entries[c])

\* The record of an entry that is new in s.
IsNew(s, ch, e, record) ==
    /\ record.edges = e.edges /\ record.event = e.event /\ record.redacted = FALSE
    /\ verified(s, ch) => record.leaf_hash = leaf_hash(e.event, e.edges)

\* t is s with one more entry in the chain.
OneMore(s, t, ch, e) ==
    /\ Shape(t) /\ t.graph = s.graph /\ t.edited = s.edited
    /\ t.mode = s.mode /\ t.deleted = s.deleted /\ t.idem = s.idem /\ t.ledger = s.ledger
    /\ t.seq = [s.seq EXCEPT ![ch] = s.seq[ch] + 1]
    /\ \A c \in Chain \ {ch} : t.entries[c] = s.entries[c]
    /\ \E record : IsNew(s, ch, e, record) /\ t.entries[ch] = put(s.entries[ch], s.seq[ch] + 1, record)

LEMMA EntryAppended ==
    ASSUME NEW s, Shape(s), NEW ch \in Chain, NEW e, IsDeltas(e.edges), NEW t, t = append_entry(s, ch, e)
    PROVE  OneMore(s, t, ch, e)
<1>1. PICK seq, hash, pushed, record :
        /\ seq = s.seq[ch] + 1
        /\ hash = IF verified(s, ch) THEN leaf_hash(e.event, e.edges) ELSE Missing
        /\ pushed = push_emit(s.frontier[ch], hash)
        /\ record = [event |-> e.event, edges |-> e.edges, leaf_hash |-> hash, redacted |-> FALSE]
  OBVIOUS
<1>2. PICK stored : stored = [s EXCEPT !.seq[ch] = seq, !.entries[ch] = put(@, seq, record)]
  OBVIOUS
<1>3. PICK nodes : nodes = [k \in {x[1] : x \in pushed.emitted} |-> (CHOOSE x \in pushed.emitted : x[1] = k)[2]] @@ stored.nodes[ch]
  OBVIOUS
<1>4. t = IF ~ verified(s, ch) THEN stored
          ELSE [stored EXCEPT !.frontier[ch] = pushed.frontier, !.nodes[ch] = nodes]
  BY <1>1, <1>2, <1>3 DEF append_entry
<1>5. PICK sq, en : sq = [s.seq EXCEPT ![ch] = seq] /\ en = [s.entries EXCEPT ![ch] = put(s.entries[ch], seq, record)]
  OBVIOUS
<1>6. stored = [s EXCEPT !.seq = sq, !.entries = en]
  BY <1>2, <1>5 DEF Shape
<1>7. stored = [mode |-> s.mode, seq |-> sq, entries |-> en, frontier |-> s.frontier, nodes |-> s.nodes,
                idem |-> s.idem, graph |-> s.graph, ledger |-> s.ledger, deleted |-> s.deleted, edited |-> s.edited]
  BY <1>6 DEF Shape
<1>8. PICK fr, no : t = [mode |-> s.mode, seq |-> sq, entries |-> en, frontier |-> fr, nodes |-> no,
                idem |-> s.idem, graph |-> s.graph, ledger |-> s.ledger, deleted |-> s.deleted, edited |-> s.edited]
  <2>1. CASE ~ verified(s, ch)
    BY <1>4, <1>7, <2>1
  <2>2. CASE verified(s, ch)
    <3>1. PICK fr, no : fr = [stored.frontier EXCEPT ![ch] = pushed.frontier] /\ no = [stored.nodes EXCEPT ![ch] = nodes]
      OBVIOUS
    <3>2. t = [stored EXCEPT !.frontier = fr, !.nodes = no]
      BY <1>4, <2>2, <3>1
    <3> QED BY <1>7, <3>2
  <2> QED BY <2>1, <2>2
<1>9. /\ t = [mode |-> t.mode, seq |-> t.seq, entries |-> t.entries, frontier |-> t.frontier, nodes |-> t.nodes,
              idem |-> t.idem, graph |-> t.graph, ledger |-> t.ledger, deleted |-> t.deleted, edited |-> t.edited]
      /\ t.seq = sq /\ t.entries = en /\ t.graph = s.graph /\ t.edited = s.edited
      /\ t.mode = s.mode /\ t.deleted = s.deleted /\ t.idem = s.idem /\ t.ledger = s.ledger
  BY <1>8
<1>10. s.seq \in [Chain -> Nat] /\ s.entries = [c \in Chain |-> s.entries[c]] /\ \A c \in Chain : EntriesOK(s.entries[c])
  BY DEF Shape
<1>11. PICK one : one = put(s.entries[ch], seq, record)
  OBVIOUS
<1>12. DOMAIN en = Chain /\ en[ch] = one /\ \A c \in Chain \ {ch} : en[c] = s.entries[c]
  BY <1>5, <1>10, <1>11
<1>13. en = [c \in Chain |-> en[c]]
  BY <1>5, <1>10
<1>14. EntriesOK(one)
  <2>1. DOMAIN one = DOMAIN s.entries[ch] \cup {seq} /\ one[seq] = record
        /\ \A q \in DOMAIN s.entries[ch] : q # seq => one[q] = s.entries[ch][q]
    BY <1>11 DEF put
  <2>2. record.edges = e.edges /\ IsEntry(record)
    BY <1>1 DEF IsEntry
  <2> QED BY <1>10, <2>1, <2>2 DEF EntriesOK
<1>15. sq \in [Chain -> Nat]
  BY <1>1, <1>5, <1>10
<1>16. Shape(t)
  BY <1>9, <1>10, <1>12, <1>13, <1>14, <1>15 DEF Shape
<1>17. IsNew(s, ch, e, record)
  BY <1>1 DEF IsNew
<1> QED BY <1>1, <1>5, <1>9, <1>11, <1>12, <1>16, <1>17 DEF OneMore

IsAppended(r, s, ch, es, n) == r = [i \in 0..n |-> IF i = 0 THEN s ELSE append_entry(r[i - 1], ch, es[i])]

LEMMA AppendedGoesOn ==
    ASSUME NEW s, NEW ch, NEW es, NEW n \in Nat, NEW r, IsAppended(r, s, ch, es, n)
    PROVE  \E h : IsAppended(h, s, ch, es, n + 1)
<1>1. PICK h : h = [i \in 0..(n + 1) |-> IF i = 0 THEN s ELSE append_entry(r[i - 1], ch, es[i])]
  OBVIOUS
<1>2. \A i \in 0..n : h[i] = r[i]
  <2>1. \A i \in 0..n : r[i] = IF i = 0 THEN s ELSE append_entry(r[i - 1], ch, es[i])
    BY DEF IsAppended
  <2>2. \A i \in 0..n : i \in 0..(n + 1)
    OBVIOUS
  <2> QED BY <1>1, <2>1, <2>2
<1>3. \A i \in 0..(n + 1) : i # 0 => h[i - 1] = r[i - 1]
  BY <1>2
<1>4. h = [i \in 0..(n + 1) |-> IF i = 0 THEN s ELSE append_entry(h[i - 1], ch, es[i])]
  BY <1>1, <1>3
<1> QED BY <1>4 DEF IsAppended

LEMMA AppendedExists ==
    ASSUME NEW s, NEW ch, NEW es, NEW n \in Nat
    PROVE  \E r : IsAppended(r, s, ch, es, n)
<1> DEFINE T == {k \in 0..n : \E r : IsAppended(r, s, ch, es, k)}
<1>1. \A k \in 0..n : k \in T <=> \E r : IsAppended(r, s, ch, es, k)
  OBVIOUS
<1> HIDE DEF T
<1>2. 0 \in T
  <2>1. PICK r : r = [i \in 0..0 |-> s]
    OBVIOUS
  <2>2. IsAppended(r, s, ch, es, 0)
    BY <2>1 DEF IsAppended
  <2> QED BY <1>1, <2>2
<1>3. \A k \in 0..n : k \in T /\ k + 1 \in 0..n => k + 1 \in T
  BY <1>1, AppendedGoesOn
<1>4. \A k \in 0..n : k \in T
  BY <1>2, <1>3, Upwards
<1>5. n \in 0..n
  OBVIOUS
<1> QED BY <1>1, <1>4, <1>5

\* t is s after the first n entries of an append: the replay of the chain goes where the edges so far take it.
Reached(s, t, ch, es, n) ==
    /\ Shape(t) /\ t.graph = s.graph /\ t.edited = s.edited
    /\ \A c \in Chain \ {ch} : t.seq[c] = s.seq[c] /\ t.entries[c] = s.entries[c]
    /\ \A id, w, v : Leaves(s.entries[ch], s.seq[ch], id, w) /\ Takes(EdgesUpTo(es, n), id, w, v)
                     => Leaves(t.entries[ch], t.seq[ch], id, v)

LEMMA ReachedNext ==
    ASSUME NEW s, NEW ch \in Chain, NEW es, CallOK(es), NEW n \in 0..Len(es), n + 1 \in 0..Len(es),
           NEW t, Reached(s, t, ch, es, n), NEW u, OneMore(t, u, ch, es[n + 1])
    PROVE  Reached(s, u, ch, es, n + 1)
<1>1. PICK a, b : a = EdgesUpTo(es, n) /\ b = es[n + 1].edges
  OBVIOUS
<1>2. IsDeltas(a) /\ EdgesUpTo(es, n + 1) = a \o b
  BY <1>1, EdgesJoined
<1>3. IsDeltas(b)
  <2>1. n + 1 \in 1..Len(es)
    BY DEF CallOK
  <2> QED BY <1>1, <2>1 DEF CallOK
<1>4. t.seq \in [Chain -> Nat] /\ \A c \in Chain \ {ch} : t.seq[c] = s.seq[c] /\ t.entries[c] = s.entries[c]
  BY DEF Reached, Shape
<1>5. PICK record : record.edges = b /\ u.entries[ch] = put(t.entries[ch], t.seq[ch] + 1, record)
  BY <1>1 DEF OneMore, IsNew
<1>6. /\ u.seq[ch] = t.seq[ch] + 1 /\ t.seq[ch] \in Nat
      /\ \A c \in Chain \ {ch} : u.seq[c] = t.seq[c] /\ u.entries[c] = t.entries[c]
  BY <1>4 DEF OneMore
<1>7. PICK old, new, k : old = t.entries[ch] /\ new = u.entries[ch] /\ k = t.seq[ch]
  OBVIOUS
<1>8. new = put(old, k + 1, record) /\ k \in Nat /\ u.seq[ch] = k + 1
  BY <1>5, <1>6, <1>7
<1>9. /\ k + 1 \in DOMAIN new /\ new[k + 1].edges = b
      /\ \A q \in 1..k : (q \in DOMAIN new <=> q \in DOMAIN old) /\ (q \in DOMAIN old => new[q] = old[q])
  <2>1. DOMAIN new = DOMAIN old \cup {k + 1} /\ new[k + 1] = record /\ \A q \in DOMAIN old : q # k + 1 => new[q] = old[q]
    BY <1>8 DEF put
  <2>2. \A q \in 1..k : q # k + 1
    BY <1>8
  <2> QED BY <1>5, <2>1, <2>2
<1>10. ASSUME NEW id, NEW w, NEW v, Leaves(s.entries[ch], s.seq[ch], id, w), Takes(EdgesUpTo(es, n + 1), id, w, v)
       PROVE  Leaves(u.entries[ch], u.seq[ch], id, v)
  <2>1. Takes(a \o b, id, w, v)
    BY <1>2, <1>10, Zenon
  <2>2. PICK x : Takes(a, id, w, x) /\ Takes(b, id, x, v)
    BY <1>2, <1>3, <2>1, DeltasJoined
  <2>3. Leaves(old, k, id, x)
    BY <1>1, <1>7, <1>10, <2>2 DEF Reached
  <2>4. \A q \in 1..k : \A y, z : EntryTakes(old, q, id, y, z) => EntryTakes(new, q, id, y, z)
    BY <1>9 DEF EntryTakes
  <2>5. Leaves(new, k, id, x)
    BY <1>8, <2>3, <2>4, LeavesSame
  <2>6. EntryTakes(new, k + 1, id, x, v)
    BY <1>9, <2>2 DEF EntryTakes
  <2>7. Leaves(new, k + 1, id, v)
    BY <1>8, <2>5, <2>6, LeavesNext
  <2> QED BY <1>7, <1>8, <2>7
<1>11. Shape(u) /\ u.graph = s.graph /\ u.edited = s.edited
  BY DEF OneMore, Reached
<1>12. \A c \in Chain \ {ch} : u.seq[c] = s.seq[c] /\ u.entries[c] = s.entries[c]
  BY <1>4, <1>6
<1> QED BY <1>10, <1>11, <1>12 DEF Reached

LEMMA EntriesAppended ==
    ASSUME NEW s, Shape(s), NEW ch \in Chain, NEW es, CallOK(es), NEW t, t = append_entries(s, ch, es)
    PROVE  Reached(s, t, ch, es, Len(es))
<1>1. PICK m : m = Len(es)
  OBVIOUS
<1>2. m \in Nat
  BY <1>1 DEF CallOK
<1>3. PICK r : IsAppended(r, s, ch, es, m) /\ t = r[m]
  <2>1. t = (CHOOSE r : IsAppended(r, s, ch, es, m))[m]
    BY <1>1 DEF append_entries, IsAppended
  <2> QED BY <1>2, <2>1, AppendedExists
<1>4. \A i \in 0..m : r[i] = IF i = 0 THEN s ELSE append_entry(r[i - 1], ch, es[i])
  BY <1>3 DEF IsAppended
<1>5. r[0] = s
  BY <1>2, <1>4
<1> DEFINE S == {i \in 0..m : Reached(s, r[i], ch, es, i)}
<1>6. \A i \in 0..m : i \in S <=> Reached(s, r[i], ch, es, i)
  OBVIOUS
<1> HIDE DEF S
<1>7. 0 \in S
  <2>1. \A id, w, v : Takes(<<>>, id, w, v) => v = w
    BY DEF Takes
  <2>2. EdgesUpTo(es, 0) = <<>>
    BY EdgesJoined
  <2>3. \A id, w, v : Takes(EdgesUpTo(es, 0), id, w, v) => v = w
    BY <2>1, <2>2, Zenon
  <2>4. Reached(s, s, ch, es, 0)
    BY <2>3 DEF Reached
  <2> QED BY <1>2, <1>5, <1>6, <2>4
<1>8. ASSUME NEW i \in 0..m, i \in S, i + 1 \in 0..m PROVE i + 1 \in S
  <2>1. Reached(s, r[i], ch, es, i)
    BY <1>6, <1>8
  <2>2. r[i + 1] = append_entry(r[i], ch, es[i + 1])
    <3>1. i + 1 # 0 /\ (i + 1) - 1 = i
      OBVIOUS
    <3> QED BY <1>4, <1>8, <3>1
  <2>3. IsDeltas(es[i + 1].edges)
    <3>1. i + 1 \in 1..Len(es)
      BY <1>1, <1>8
    <3> QED BY <3>1 DEF CallOK
  <2>4. Shape(r[i])
    BY <2>1 DEF Reached
  <2>5. OneMore(r[i], r[i + 1], ch, es[i + 1])
    BY <2>2, <2>3, <2>4, EntryAppended
  <2>6. Reached(s, r[i + 1], ch, es, i + 1)
    BY <1>1, <1>8, <2>1, <2>5, ReachedNext
  <2> QED BY <1>6, <1>8, <2>6
<1>9. \A i \in 0..m : i \in S
  BY <1>2, <1>7, <1>8, Upwards
<1>10. m \in 0..m
  BY <1>2
<1> QED BY <1>1, <1>3, <1>6, <1>9, <1>10

-----------------------------------------------------------------------------
(* 6. Stores.                                                              *)

\* The graph is the replay, edge by edge.
Projected(s, c) == \A id : id[1] = c => Leaves(s.entries[c], s.seq[c], id, Weight(s.graph.edges, id))

StoreInv(s) == Shape(s) /\ GraphOK(s.graph) /\ \A c \in Chain : c \notin s.edited => Projected(s, c)

LEMMA ProjectedIsReplayed ==
    ASSUME NEW s, StoreInv(s), NEW ch \in Chain, NEW r, r = Replayed(s, ch).edges,
           NEW id \in DOMAIN r \cup DOMAIN s.graph.edges, id[1] = ch, ch \notin s.edited
    PROVE  id \in DOMAIN r /\ id \in DOMAIN s.graph.edges /\ s.graph.edges[id] = r[id]
<1>1. PICK es, n, g : es = s.entries[ch] /\ n = s.seq[ch] /\ g = Replayed(s, ch)
  OBVIOUS
<1>2. EntriesOK(es) /\ n \in Nat
  BY <1>1 DEF StoreInv, Shape
<1>3. GraphOK(g) /\ Leaves(es, n, id, Weight(g.edges, id))
  BY <1>1, <1>2, ReplayLeaves
<1>4. Leaves(es, n, id, Weight(s.graph.edges, id))
  BY <1>1 DEF StoreInv, Projected
<1>5. Weight(g.edges, id) = Weight(s.graph.edges, id)
  BY <1>2, <1>3, <1>4, LeavesOnce
<1>6. EdgesOK(g.edges) /\ EdgesOK(s.graph.edges) /\ r = g.edges
  BY <1>1, <1>3 DEF GraphOK, StoreInv
<1> QED BY <1>5, <1>6, NoneIsNoWeight DEF Weight, EdgesOK

LEMMA SameGraph ==
    ASSUME NEW s, StoreInv(s), NEW t, Shape(t), t.seq = s.seq, t.entries = s.entries,
           t.graph = s.graph, t.edited = s.edited
    PROVE  StoreInv(t)
BY DEF StoreInv, Projected

\* Deltas of other graphs change no edge of this one.
LEMMA OtherGraphKept ==
    ASSUME NEW g, GraphOK(g), NEW ds, IsDeltas(ds), NEW h, h = apply_edges(g, ds).store,
           NEW id, \A i \in 1..Len(ds) : ds[i].graph # id[1]
    PROVE  Weight(h.edges, id) = Weight(g.edges, id)
<1>1. Len(ds) \in Nat
  BY DEF IsDeltas
<1>2. \A d : Identity(d)[1] = d.graph
  BY DEF Identity
<1>3. Takes(ds, id, Weight(g.edges, id), Weight(g.edges, id))
  BY <1>1, <1>2, OthersTakeNothing
<1>4. Takes(ds, id, Weight(g.edges, id), Weight(h.edges, id))
  BY DeltasApplied
<1> QED BY <1>1, <1>3, <1>4, TakesOnce

LEMMA BatchAppended ==
    ASSUME NEW s, StoreInv(s), NEW call, call.chain \in Chain, CallOK(call.entries), NEW t, t = append_batch(s, call)
    PROVE  StoreInv(t)
<1>1. PICK ch, es : ch = call.chain /\ es = call.entries
  OBVIOUS
<1>2. ch \in Chain /\ CallOK(es) /\ Shape(s) /\ GraphOK(s.graph)
  BY <1>1 DEF StoreInv
<1>3. PICK created : created = [s EXCEPT !.mode[ch] = IF @ = "none" THEN "verified" ELSE @]
  OBVIOUS
<1>4. /\ Shape(created) /\ created.seq = s.seq /\ created.entries = s.entries
      /\ created.graph = s.graph /\ created.edited = s.edited
  <2>1. PICK m : created = [s EXCEPT !.mode = m]
    BY <1>3
  <2> QED BY <1>2, <2>1 DEF Shape
<1>5. PICK appended : appended = append_entries(created, ch, es)
  OBVIOUS
<1>6. Reached(created, appended, ch, es, Len(es))
  BY <1>2, <1>4, <1>5, EntriesAppended
<1>7. PICK edges : edges = AllEdges(es)
  OBVIOUS
<1>8. edges = EdgesUpTo(es, Len(es)) /\ IsDeltas(edges)
  <2>1. Len(es) \in 0..Len(es)
    BY <1>2 DEF CallOK
  <2>2. edges = EdgesUpTo(es, Len(es))
    BY <1>7 DEF AllEdges
  <2>3. IsDeltas(EdgesUpTo(es, Len(es)))
    BY <1>2, <2>1, EdgesJoined
  <2> QED BY <2>2, <2>3, Zenon
<1>9. PICK g : g = apply_edges(s.graph, edges).store
  OBVIOUS
<1>10. PICK ed : ed = s.edited \cup ({d.graph : d \in Range(edges)} \ {ch})
  OBVIOUS
<1>11. PICK projected : projected = [appended EXCEPT !.graph = g, !.edited = ed]
  OBVIOUS
<1>12. t = IF call.key = NoKey THEN projected
           ELSE [projected EXCEPT !.idem[ch] = put(@, call.key, idem_record(s, call))]
  <2>1. appended.edited = s.edited
    BY <1>4, <1>6 DEF Reached
  <2>2. projected = [appended EXCEPT !.graph = g, !.edited = @ \cup ({d.graph : d \in Range(edges)} \ {ch})]
    BY <1>10, <1>11, <2>1, Zenon
  <2> QED BY <1>1, <1>3, <1>5, <1>7, <1>9, <2>2, Zenon DEF append_batch
<1>13. /\ Shape(projected) /\ projected.seq = appended.seq /\ projected.entries = appended.entries
       /\ projected.graph = g /\ projected.edited = ed
  <2>1. Shape(appended)
    BY <1>6 DEF Reached
  <2> QED BY <1>11, <2>1 DEF Shape
<1>14. /\ Shape(t) /\ t.seq = projected.seq /\ t.entries = projected.entries
       /\ t.graph = projected.graph /\ t.edited = projected.edited
  <2>1. CASE call.key = NoKey
    BY <1>12, <1>13, <2>1
  <2>2. CASE call.key # NoKey
    <3>1. PICK m : t = [projected EXCEPT !.idem = m]
      BY <1>12, <2>2
    <3> QED BY <1>13, <3>1 DEF Shape
  <2> QED BY <2>1, <2>2
<1>15. GraphOK(g) /\ \A id : Takes(edges, id, Weight(s.graph.edges, id), Weight(g.edges, id))
  BY <1>2, <1>8, <1>9, DeltasApplied
<1>16. ASSUME NEW c \in Chain, c \notin ed, NEW id, id[1] = c
       PROVE  Leaves(projected.entries[c], projected.seq[c], id, Weight(g.edges, id))
  <2>1. Leaves(s.entries[c], s.seq[c], id, Weight(s.graph.edges, id))
    BY <1>10, <1>16 DEF StoreInv, Projected
  <2>2. CASE c = ch
    <3>1. Takes(EdgesUpTo(es, Len(es)), id, Weight(s.graph.edges, id), Weight(g.edges, id))
      BY <1>8, <1>15, Zenon
    <3>2. Leaves(created.entries[ch], created.seq[ch], id, Weight(s.graph.edges, id))
      BY <1>4, <2>1, <2>2
    <3> QED BY <1>6, <1>13, <2>2, <3>1, <3>2 DEF Reached
  <2>3. CASE c # ch
    <3>1. ASSUME NEW i \in 1..Len(edges) PROVE edges[i].graph # id[1]
      <4>1. i \in DOMAIN edges
        BY <1>8 DEF IsDeltas
      <4>2. edges[i] \in Range(edges)
        BY <4>1 DEF Range
      <4> QED BY <1>10, <1>16, <2>3, <4>2
    <3>2. Weight(g.edges, id) = Weight(s.graph.edges, id)
      BY <1>2, <1>8, <1>9, <3>1, OtherGraphKept
    <3>3. projected.entries[c] = s.entries[c] /\ projected.seq[c] = s.seq[c]
      BY <1>4, <1>6, <1>13, <2>3 DEF Reached
    <3> QED BY <2>1, <3>2, <3>3
  <2> QED BY <2>2, <2>3
<1>17. StoreInv(projected)
  BY <1>13, <1>15, <1>16 DEF StoreInv, Projected
<1> QED BY <1>14, <1>17, SameGraph

LEMMA EntryRedacted ==
    ASSUME NEW s, StoreInv(s), NEW ch \in Chain, NEW seq \in DOMAIN s.entries[ch], NEW t, t = redacted_entry(s, ch, seq)
    PROVE  StoreInv(t)
<1>1. PICK es, e : es = s.entries[ch] /\ e = es[seq]
  OBVIOUS
<1>2. Shape(s) /\ EntriesOK(es) /\ IsEntry(e) /\ IsDeltas(e.edges)
  BY <1>1 DEF StoreInv, Shape, EntriesOK
<1>3. PICK f, fs, en : /\ f = [e EXCEPT !.event = "", !.redacted = TRUE]
                       /\ fs = [es EXCEPT ![seq] = f]
                       /\ en = [s.entries EXCEPT ![ch] = fs]
  OBVIOUS
<1>4. t = [s EXCEPT !.entries = en]
  BY <1>1, <1>3 DEF redacted_entry
<1>5. f = [event |-> "", edges |-> e.edges, leaf_hash |-> e.leaf_hash, redacted |-> TRUE]
  BY <1>2, <1>3 DEF IsEntry
<1>6. IsEntry(f) /\ f.edges = e.edges
  BY <1>5 DEF IsEntry
<1>7. DOMAIN fs = DOMAIN es /\ fs[seq] = f /\ \A q \in DOMAIN es : q # seq => fs[q] = es[q]
  BY <1>1, <1>3
<1>8. EntriesOK(fs) /\ \A q \in DOMAIN es : fs[q].edges = es[q].edges
  BY <1>1, <1>2, <1>6, <1>7 DEF EntriesOK
<1>9. en[ch] = fs /\ en = [c \in Chain |-> en[c]] /\ \A c \in Chain \ {ch} : en[c] = s.entries[c]
  BY <1>2, <1>3 DEF Shape
<1>10. \A c \in Chain : EntriesOK(en[c])
  BY <1>2, <1>8, <1>9 DEF Shape
<1>11. Shape(t) /\ t.seq = s.seq /\ t.entries = en /\ t.graph = s.graph /\ t.edited = s.edited
  BY <1>2, <1>4, <1>9, <1>10 DEF Shape
<1>12. ASSUME NEW c \in Chain, c \notin s.edited, NEW id, id[1] = c
       PROVE  Leaves(en[c], s.seq[c], id, Weight(s.graph.edges, id))
  <2>1. Leaves(s.entries[c], s.seq[c], id, Weight(s.graph.edges, id))
    BY <1>12 DEF StoreInv, Projected
  <2>2. CASE c = ch
    <3>1. \A q, x, y : EntryTakes(es, q, id, x, y) => EntryTakes(fs, q, id, x, y)
      BY <1>7, <1>8 DEF EntryTakes
    <3>2. s.seq[ch] \in Nat
      BY <1>2 DEF Shape
    <3> QED BY <1>1, <1>9, <2>1, <2>2, <3>1, <3>2, LeavesSame
  <2>3. CASE c # ch
    BY <1>9, <2>1, <2>3
  <2> QED BY <2>2, <2>3
<1> QED BY <1>11, <1>12 DEF StoreInv, Projected

LEMMA RetractionsAreDeltas ==
    ASSUME NEW edges, IsDeltas(edges), NEW ds, ds = retractions(edges)
    PROVE  IsDeltas(ds) /\ Len(ds) = Len(edges) /\ \A i \in 1..Len(edges) : ds[i].graph = edges[i].graph
<1>1. PICK n : n = Len(edges)
  OBVIOUS
<1>2. n \in Nat /\ DOMAIN edges = 1..n
  BY <1>1 DEF IsDeltas
<1>3. PICK S : S = {ds[i] : i \in 1..n}
  OBVIOUS
<1>4. DOMAIN ds = 1..n /\ ds = [i \in 1..n |-> ds[i]]
  BY <1>2 DEF retractions
<1>5. ds \in [1..n -> S]
  BY <1>3, <1>4
<1>6. ds \in Seq(S) /\ Len(ds) = n
  BY <1>2, <1>5, <1>4
<1>7. \A i \in 1..n : ds[i].graph = edges[i].graph /\ ds[i].weight = 0
  BY <1>2 DEF retractions
<1>8. 0 \in Weights
  BY EvidenceAssumption
<1> QED BY <1>1, <1>6, <1>7, <1>8 DEF IsDeltas

\* t is s without the entry, and with the graph g.
Gone(s, t, ch, seq, edges, g) ==
    /\ Shape(t) /\ t.seq = s.seq /\ t.graph = g
    /\ t.edited = s.edited \cup {edges[i].graph : i \in DOMAIN edges}
    /\ t.entries = [s.entries EXCEPT ![ch] = Restrict(s.entries[ch], DOMAIN s.entries[ch] \ {seq})]

\* An entry goes, with or without its edges: its graphs count as edited.
LEMMA EntryDeleted ==
    ASSUME NEW s, StoreInv(s), NEW ch \in Chain, NEW seq \in DOMAIN s.entries[ch], NEW edges, edges = s.entries[ch][seq].edges,
           NEW g, g = s.graph \/ g = apply_edges(s.graph, retractions(edges)).store,
           NEW t, Gone(s, t, ch, seq, edges, g)
    PROVE  StoreInv(t)
<1> USE DEF Gone
<1>1. PICK es, fs : es = s.entries[ch] /\ fs = Restrict(es, DOMAIN es \ {seq})
  OBVIOUS
<1>2. Shape(s) /\ EntriesOK(es) /\ IsDeltas(edges) /\ GraphOK(s.graph)
  BY <1>1 DEF StoreInv, Shape, EntriesOK
<1>3. DOMAIN edges = 1..Len(edges) /\ Len(edges) \in Nat
  BY <1>2 DEF IsDeltas
<1>4. DOMAIN fs = DOMAIN es \ {seq} /\ \A q \in DOMAIN fs : fs[q] = es[q]
  BY <1>1 DEF Restrict
<1>5. t.entries[ch] = fs /\ \A c \in Chain \ {ch} : t.entries[c] = s.entries[c]
  BY <1>1, <1>2 DEF Shape
<1>6. GraphOK(g)
  <2>1. CASE g = s.graph
    BY <1>2, <2>1
  <2>2. CASE g = apply_edges(s.graph, retractions(edges)).store
    <3>1. IsDeltas(retractions(edges))
      BY <1>2, RetractionsAreDeltas
    <3> QED BY <1>2, <2>2, <3>1, DeltasApplied
  <2> QED BY <2>1, <2>2
<1>7. ASSUME NEW c \in Chain, c \notin t.edited, NEW id, id[1] = c
      PROVE  Leaves(t.entries[c], t.seq[c], id, Weight(g.edges, id))
  <2>1. Leaves(s.entries[c], s.seq[c], id, Weight(s.graph.edges, id))
    BY <1>7 DEF StoreInv, Projected
  <2>2. \A i \in 1..Len(edges) : edges[i].graph # id[1]
    BY <1>3, <1>7
  <2>3. Weight(g.edges, id) = Weight(s.graph.edges, id)
    <3>1. CASE g = s.graph
      BY <3>1
    <3>2. CASE g = apply_edges(s.graph, retractions(edges)).store
      <4>1. PICK ds : ds = retractions(edges)
        OBVIOUS
      <4>2. IsDeltas(ds) /\ \A i \in 1..Len(ds) : ds[i].graph # id[1]
        BY <1>2, <2>2, <4>1, RetractionsAreDeltas
      <4> QED BY <1>2, <3>2, <4>1, <4>2, OtherGraphKept
    <3> QED BY <3>1, <3>2
  <2>4. CASE c = ch
    <3>1. \A d : Identity(d)[1] = d.graph
      BY DEF Identity
    <3>2. \A i \in 1..Len(edges) : Identity(edges[i]) # id
      BY <2>2, <3>1
    <3>3. \A x, y : Takes(edges, id, x, y) => y = x
      <4>1. ASSUME NEW x, NEW y, Takes(edges, id, x, y) PROVE y = x
        <5>1. Takes(edges, id, x, x)
          BY <1>3, <3>2, OthersTakeNothing
        <5> QED BY <1>3, <4>1, <5>1, TakesOnce
      <4> QED BY <4>1
    <3>4. \A q, x, y : EntryTakes(es, q, id, x, y) => EntryTakes(fs, q, id, x, y)
      BY <1>1, <1>4, <3>3 DEF EntryTakes
    <3>5. s.seq[ch] \in Nat
      BY <1>2 DEF Shape
    <3>6. PICK n, v : n = s.seq[ch] /\ v = Weight(s.graph.edges, id)
      OBVIOUS
    <3>7. n \in Nat /\ Leaves(es, n, id, v)
      BY <1>1, <2>1, <2>4, <3>5, <3>6
    <3>8. Leaves(fs, n, id, v)
      BY <3>4, <3>7, LeavesSame
    <3> QED BY <1>5, <2>3, <2>4, <3>6, <3>8
  <2>5. CASE c # ch
    BY <1>5, <2>1, <2>3, <2>5
  <2> QED BY <2>4, <2>5
<1> QED BY <1>6, <1>7 DEF StoreInv, Projected

\* A graph that is changed by its own requests counts as edited, the others keep their edges.
LEMMA GraphEdited ==
    ASSUME NEW s, StoreInv(s), NEW g, GraphOK(g), NEW name,
           \A id : id[1] # name => Weight(g.edges, id) = Weight(s.graph.edges, id),
           NEW t, t = [s EXCEPT !.graph = g, !.edited = s.edited \cup {name}]
    PROVE  StoreInv(t)
<1>1. /\ Shape(t) /\ t.seq = s.seq /\ t.entries = s.entries
      /\ t.graph = g /\ t.edited = s.edited \cup {name}
  BY DEF StoreInv, Shape
<1>2. ASSUME NEW c \in Chain, c \notin t.edited, NEW id, id[1] = c
      PROVE  Leaves(t.entries[c], t.seq[c], id, Weight(g.edges, id))
  <2>1. Leaves(s.entries[c], s.seq[c], id, Weight(s.graph.edges, id))
    BY <1>1, <1>2 DEF StoreInv, Projected
  <2>2. id[1] # name
    BY <1>1, <1>2
  <2> QED BY <1>1, <2>1, <2>2
<1> QED BY <1>1, <1>2 DEF StoreInv, Projected

LEMMA GraphDropped ==
    ASSUME NEW g, GraphOK(g), NEW name, NEW h, h = drop_graph(g, name)
    PROVE  GraphOK(h) /\ \A id : id[1] # name => Weight(h.edges, id) = Weight(g.edges, id)
<1>1. PICK E, S, F : E = g.edges /\ S = {id \in DOMAIN E : id[1] # name} /\ F = Restrict(E, S)
  OBVIOUS
<1>2. EdgesOK(E) /\ g.out = OutKeys(E) /\ g.in = InKeys(E)
  BY <1>1 DEF GraphOK, Indexed, OutKeys, InKeys
<1>3. /\ DOMAIN F = S /\ EdgesOK(F)
      /\ OutKeys(F) = {out_key(id, E[id]) : id \in S}
      /\ InKeys(F) = {in_key(id, E[id]) : id \in S}
      /\ \A id : Weight(F, id) = IF id \in S THEN Weight(E, id) ELSE None
  BY <1>1, <1>2, KeysRestricted
<1>4. \A id, w : out_key(id, w)[1] = id[1] /\ in_key(id, w)[1] = id[1]
  BY DEF out_key, in_key
<1>5. {k \in g.out : k[1] # name} = OutKeys(F)
  <2>1. ASSUME NEW k \in g.out, k[1] # name PROVE k \in OutKeys(F)
    <3>1. PICK id \in DOMAIN E : k = out_key(id, E[id])
      BY <1>2 DEF OutKeys
    <3>2. id \in S
      BY <1>1, <1>4, <2>1, <3>1
    <3> QED BY <1>3, <3>1, <3>2
  <2>2. ASSUME NEW k \in OutKeys(F) PROVE k \in g.out /\ k[1] # name
    <3>1. PICK id \in S : k = out_key(id, E[id])
      BY <1>3
    <3>2. id \in DOMAIN E /\ id[1] # name
      BY <1>1
    <3> QED BY <1>2, <1>4, <3>1, <3>2 DEF OutKeys
  <2> QED BY <2>1, <2>2
<1>6. {k \in g.in : k[1] # name} = InKeys(F)
  <2>1. ASSUME NEW k \in g.in, k[1] # name PROVE k \in InKeys(F)
    <3>1. PICK id \in DOMAIN E : k = in_key(id, E[id])
      BY <1>2 DEF InKeys
    <3>2. id \in S
      BY <1>1, <1>4, <2>1, <3>1
    <3> QED BY <1>3, <3>1, <3>2
  <2>2. ASSUME NEW k \in InKeys(F) PROVE k \in g.in /\ k[1] # name
    <3>1. PICK id \in S : k = in_key(id, E[id])
      BY <1>3
    <3>2. id \in DOMAIN E /\ id[1] # name
      BY <1>1
    <3> QED BY <1>2, <1>4, <3>1, <3>2 DEF InKeys
  <2> QED BY <2>1, <2>2
<1>7. h = [edges |-> F, out |-> OutKeys(F), in |-> InKeys(F)]
  BY <1>1, <1>5, <1>6, Zenon DEF drop_graph
<1>8. GraphOK(h) /\ h.edges = F
  BY <1>3, <1>7, GraphShape
<1>9. \A id : id[1] # name => Weight(F, id) = Weight(E, id)
  BY <1>1, <1>3 DEF Weight
<1> QED BY <1>1, <1>8, <1>9

-----------------------------------------------------------------------------
(* 7. Requests.                                                            *)

\* A function on the positions of a list is a list.
LEMMA ListOf ==
    ASSUME NEW xs, IsList(xs), NEW f, DOMAIN f = DOMAIN xs, f = [i \in DOMAIN f |-> f[i]]
    PROVE  /\ Len(xs) \in Nat /\ DOMAIN xs = 1..Len(xs)
           /\ (\E S : f \in Seq(S)) /\ Len(f) = Len(xs)
<1>1. PICK n : n = Len(xs)
  OBVIOUS
<1>2. n \in Nat /\ DOMAIN xs = 1..n
  BY <1>1 DEF IsList
<1>3. PICK S : S = {f[i] : i \in 1..n}
  OBVIOUS
<1>4. f \in [1..n -> S]
  BY <1>2, <1>3
<1>5. f \in Seq(S) /\ Len(f) = n
  BY <1>2, <1>4
<1> QED BY <1>1, <1>2, <1>5

LEMMA CallsOK ==
    ASSUME NEW body \in Appends, NEW es, es = entries_of(body.events)
    PROVE  CallOK(es) /\ body.chain \in Chain
<1>1. PICK xs : xs = body.events
  OBVIOUS
<1>2. IsList(xs) /\ body.chain \in Chain
  BY <1>1, EvidenceAssumption
<1>3. DOMAIN es = DOMAIN xs /\ es = [i \in DOMAIN es |-> es[i]]
  BY <1>1 DEF entries_of
<1>4. Len(es) \in Nat /\ Len(es) = Len(xs) /\ DOMAIN xs = 1..Len(xs)
  BY <1>2, <1>3, ListOf
<1>5. ASSUME NEW i \in DOMAIN xs PROVE IsDeltas(es[i].edges)
  <2>1. PICK js, ds : js = xs[i].edges /\ ds = es[i].edges
    OBVIOUS
  <2>2. IsList(js) /\ \A j \in DOMAIN js : Given(js[j], "weight", 0) \in Weights
    BY <1>1, <1>5, <2>1, EvidenceAssumption
  <2>3. ds = [j \in DOMAIN js |-> edge_of(js[j])]
    BY <1>1, <2>1 DEF entries_of
  <2>4. DOMAIN ds = DOMAIN js /\ ds = [j \in DOMAIN ds |-> ds[j]]
    BY <2>3
  <2>5. (\E S : ds \in Seq(S)) /\ DOMAIN js = 1..Len(js) /\ Len(ds) = Len(js)
    BY <2>2, <2>4, ListOf
  <2>6. \A j \in DOMAIN js : ds[j].weight \in Weights
    BY <2>2, <2>3 DEF edge_of
  <2> QED BY <2>1, <2>5, <2>6 DEF IsDeltas
<1> QED BY <1>2, <1>4, <1>5 DEF CallOK

LEMMA GraphCallsOK ==
    ASSUME NEW call \in GraphCalls, NEW ds, ds = mutate_deltas(call.upserts, call.deletes)
    PROVE  IsDeltas(ds) /\ \A i \in 1..Len(ds) : ds[i].graph = call.graph
<1>1. PICK a, b : a = call.upserts /\ b = call.deletes
  OBVIOUS
<1>2. /\ IsList(a) /\ \A i \in DOMAIN a : a[i].graph = call.graph /\ a[i].weight \in Weights
      /\ IsList(b) /\ \A i \in DOMAIN b : b[i].graph = call.graph /\ b[i].weight \in Weights
  BY <1>1, EvidenceAssumption
<1>3. /\ IsDeltas(a) /\ \A i \in 1..Len(a) : a[i].graph = call.graph
      /\ IsDeltas(b) /\ \A i \in 1..Len(b) : b[i].graph = call.graph
  BY <1>2 DEF IsDeltas, IsList
<1>4. ds = a \o b
  BY <1>1 DEF mutate_deltas
<1>5. IsDeltas(a \o b) /\ FromBoth(a \o b, a, b)
  BY <1>3, DeltasJoined
<1>6. IsDeltas(ds) /\ FromBoth(ds, a, b)
  BY <1>4, <1>5, Zenon
<1> QED BY <1>3, <1>6 DEF FromBoth

StoresInv == StoreInv(mem) /\ StoreInv(disk)

LEMMA StoresInit == Init => StoresInv
<1> SUFFICES ASSUME Init PROVE StoresInv
  OBVIOUS
<1>1. PICK m : mem = [EmptyStore EXCEPT !.mode = m]
  BY DEF Init
<1>2. mem = [mode |-> m, seq |-> [c \in Chain |-> 0], entries |-> [c \in Chain |-> <<>>],
             frontier |-> [c \in Chain |-> EmptyFrontier], nodes |-> [c \in Chain |-> <<>>],
             idem |-> [c \in Chain |-> <<>>], graph |-> EmptyGraph,
             ledger |-> <<>>, deleted |-> [c \in Chain |-> {}], edited |-> {}]
  BY <1>1 DEF EmptyStore
<1>3. Shape(mem)
  <2>1. EntriesOK(<<>>)
    BY DEF EntriesOK
  <2> QED BY <1>2, <2>1 DEF Shape
<1>4. GraphOK(mem.graph) /\ \A id : Weight(mem.graph.edges, id) = None
  <2>1. mem.graph = EmptyGraph
    BY <1>2
  <2> QED BY <2>1 DEF EmptyGraph, GraphOK, EdgesOK, Indexed, Weight
<1>5. \A c \in Chain : \A id : Leaves(mem.entries[c], mem.seq[c], id, None)
  <2>1. PICK h : h = [q \in 0..0 |-> None]
    OBVIOUS
  <2>2. h[0] = None /\ \A c \in Chain : mem.seq[c] = 0
    BY <1>2, <2>1
  <2> QED BY <2>2 DEF Leaves, Replays
<1>6. StoreInv(mem)
  BY <1>3, <1>4, <1>5 DEF StoreInv, Projected
<1>7. disk = mem
  BY DEF Init
<1> QED BY <1>6, <1>7 DEF StoresInv

LEMMA CreateKeeps ==
    ASSUME StoresInv, NEW c, create_chain(c)
    PROVE  StoresInv'
<1>1. CASE mem' = mem /\ disk' = disk
  BY <1>1 DEF StoresInv
<1>2. CASE disk' = disk /\ \E ch \in Chain : \E mode : mem' = [mem EXCEPT !.mode[ch] = mode]
  <2>1. PICK m : mem' = [mem EXCEPT !.mode = m]
    BY <1>2
  <2>2. StoreInv(mem)
    BY DEF StoresInv
  <2>3. /\ Shape(mem') /\ mem'.seq = mem.seq /\ mem'.entries = mem.entries
        /\ mem'.graph = mem.graph /\ mem'.edited = mem.edited
    BY <2>1, <2>2 DEF StoreInv, Shape
  <2>4. StoreInv(mem')
    BY <2>2, <2>3, SameGraph
  <2> QED BY <1>2, <2>4 DEF StoresInv
<1> QED BY <1>1, <1>2 DEF create_chain, Written, Answered

LEMMA AppendKeeps ==
    ASSUME StoresInv, NEW c, append(c)
    PROVE  StoresInv'
<1>1. CASE mem' = mem /\ disk' = disk
  BY <1>1 DEF StoresInv
<1>2. CASE disk' = disk /\ \E body \in Appends :
             mem' = append_batch(mem, [chain |-> body.chain, entries |-> entries_of(body.events), key |-> body.key])
  <2>1. PICK body \in Appends :
             mem' = append_batch(mem, [chain |-> body.chain, entries |-> entries_of(body.events), key |-> body.key])
    BY <1>2
  <2>2. PICK call : call = [chain |-> body.chain, entries |-> entries_of(body.events), key |-> body.key]
    OBVIOUS
  <2>3. call.chain \in Chain /\ CallOK(call.entries)
    <3>1. call.chain = body.chain /\ call.entries = entries_of(body.events)
      BY <2>2
    <3> QED BY <3>1, CallsOK
  <2>4. StoreInv(mem')
    BY <2>1, <2>2, <2>3, BatchAppended DEF StoresInv
  <2> QED BY <1>2, <2>4 DEF StoresInv
<1>3. (mem' = mem /\ disk' = disk) \/ (disk' = disk /\ \E body \in Appends :
         mem' = append_batch(mem, [chain |-> body.chain, entries |-> entries_of(body.events), key |-> body.key]))
  BY DEF append, Replay, Written, Answered
<1> QED BY <1>1, <1>2, <1>3

LEMMA RedactKeeps ==
    ASSUME StoresInv, NEW c, redact(c)
    PROVE  StoresInv'
<1>1. CASE mem' = mem /\ disk' = disk
  BY <1>1 DEF StoresInv
<1>2. CASE disk' = disk /\ \E ch \in Chain : \E seq \in DOMAIN mem.entries[ch] : mem' = redacted_entry(mem, ch, seq)
  BY <1>2, EntryRedacted DEF StoresInv
<1> QED BY <1>1, <1>2 DEF redact, Written, Answered

LEMMA HardDeleted ==
    ASSUME NEW s, StoreInv(s), NEW ch \in Chain, NEW seq \in DOMAIN s.entries[ch], NEW retract_edges \in BOOLEAN,
           NEW t, t = hard_deleted(s, ch, seq, retract_edges)
    PROVE  StoreInv(t)
<1>1. Shape(s)
  BY DEF StoreInv
<1>2. PICK edges : edges = s.entries[ch][seq].edges
  OBVIOUS
<1>3. PICK en, ed, de, g : /\ en = [s.entries EXCEPT ![ch] = Restrict(s.entries[ch], DOMAIN s.entries[ch] \ {seq})]
                           /\ ed = s.edited \cup {edges[i].graph : i \in DOMAIN edges}
                           /\ de = [s.deleted EXCEPT ![ch] = s.deleted[ch] \cup {seq}]
                           /\ g = IF retract_edges THEN apply_edges(s.graph, retractions(edges)).store ELSE s.graph
  OBVIOUS
<1>4. t = [s EXCEPT !.entries = en, !.deleted = de, !.edited = ed, !.graph = g]
  <2>1. t = [s EXCEPT !.entries[ch] = Restrict(s.entries[ch], DOMAIN s.entries[ch] \ {seq}),
                      !.deleted[ch] = s.deleted[ch] \cup {seq},
                      !.edited = s.edited \cup {edges[i].graph : i \in DOMAIN edges},
                      !.graph = IF retract_edges THEN apply_edges(s.graph, retractions(edges)).store ELSE s.graph]
    BY <1>1, <1>2 DEF hard_deleted, Shape
  <2> QED BY <1>1, <1>3, <2>1 DEF Shape
<1>5. t = [mode |-> s.mode, seq |-> s.seq, entries |-> en, frontier |-> s.frontier, nodes |-> s.nodes,
           idem |-> s.idem, graph |-> g, ledger |-> s.ledger, deleted |-> de, edited |-> ed]
  BY <1>1, <1>4 DEF Shape
<1>6. /\ t = [mode |-> t.mode, seq |-> t.seq, entries |-> t.entries, frontier |-> t.frontier,
              nodes |-> t.nodes, idem |-> t.idem, graph |-> t.graph, ledger |-> t.ledger,
              deleted |-> t.deleted, edited |-> t.edited]
      /\ t.seq = s.seq /\ t.entries = en /\ t.graph = g /\ t.edited = ed
  BY <1>5
<1>7. Shape(t)
  <2>1. PICK es, fs : es = s.entries[ch] /\ fs = Restrict(es, DOMAIN es \ {seq})
    OBVIOUS
  <2>2. EntriesOK(es)
    BY <1>1, <2>1 DEF Shape
  <2>3. EntriesOK(fs)
    <3>1. DOMAIN fs = DOMAIN es \ {seq} /\ \A q \in DOMAIN fs : fs[q] = es[q]
      BY <2>1 DEF Restrict
    <3> QED BY <2>2, <3>1 DEF EntriesOK
  <2>4. en = [x \in Chain |-> en[x]] /\ en[ch] = fs /\ \A x \in Chain \ {ch} : en[x] = s.entries[x]
    BY <1>1, <1>3, <2>1 DEF Shape
  <2>5. \A x \in Chain : EntriesOK(en[x])
    BY <1>1, <2>3, <2>4 DEF Shape
  <2>6. s.seq \in [Chain -> Nat]
    BY <1>1 DEF Shape
  <2> QED BY <1>6, <2>4, <2>5, <2>6 DEF Shape
<1>8. g = s.graph \/ g = apply_edges(s.graph, retractions(edges)).store
  BY <1>3
<1>9. Gone(s, t, ch, seq, edges, g)
  BY <1>3, <1>6, <1>7, Zenon DEF Gone
<1> QED BY <1>2, <1>8, <1>9, EntryDeleted

LEMMA HardDeleteKeeps ==
    ASSUME StoresInv, NEW c, hard_delete(c)
    PROVE  StoresInv'
<1>1. CASE mem' = mem /\ disk' = disk
  BY <1>1 DEF StoresInv
<1>2. CASE disk' = disk /\ \E ch \in Chain : \E seq \in DOMAIN mem.entries[ch] : \E retract_edges \in BOOLEAN :
             mem' = hard_deleted(mem, ch, seq, retract_edges)
  BY <1>2, HardDeleted DEF StoresInv
<1> QED BY <1>1, <1>2 DEF hard_delete, Written, Answered

LEMMA MutateKeeps ==
    ASSUME StoresInv, NEW c, mutate(c)
    PROVE  StoresInv'
<1>1. CASE mem' = mem /\ disk' = disk
  BY <1>1 DEF StoresInv
<1>2. CASE disk' = disk /\ \E call \in GraphCalls :
             mem' = [mem EXCEPT !.graph = apply_edges(mem.graph, mutate_deltas(call.upserts, call.deletes)).store,
                                !.edited = mem.edited \cup {call.graph}]
  <2>1. PICK call \in GraphCalls :
             mem' = [mem EXCEPT !.graph = apply_edges(mem.graph, mutate_deltas(call.upserts, call.deletes)).store,
                                !.edited = mem.edited \cup {call.graph}]
    BY <1>2
  <2>2. PICK ds, g, name : /\ ds = mutate_deltas(call.upserts, call.deletes)
                           /\ g = apply_edges(mem.graph, ds).store /\ name = call.graph
    OBVIOUS
  <2>3. IsDeltas(ds) /\ \A i \in 1..Len(ds) : ds[i].graph = name
    BY <2>2, GraphCallsOK
  <2>4. StoreInv(mem) /\ GraphOK(mem.graph)
    BY DEF StoresInv, StoreInv
  <2>5. GraphOK(g)
    BY <2>2, <2>3, <2>4, DeltasApplied
  <2>6. ASSUME NEW id, id[1] # name PROVE Weight(g.edges, id) = Weight(mem.graph.edges, id)
    <3>1. \A i \in 1..Len(ds) : ds[i].graph # id[1]
      BY <2>3, <2>6
    <3> QED BY <2>2, <2>3, <2>4, <3>1, OtherGraphKept
  <2>7. mem' = [mem EXCEPT !.graph = g, !.edited = mem.edited \cup {name}]
    BY <2>1, <2>2, Zenon
  <2>8. StoreInv(mem')
    BY <2>4, <2>5, <2>6, <2>7, GraphEdited
  <2> QED BY <1>2, <2>8 DEF StoresInv
<1>3. \/ mem' = mem /\ disk' = disk
      \/ disk' = disk /\ \E call \in GraphCalls :
             mem' = [mem EXCEPT !.graph = apply_edges(mem.graph, mutate_deltas(call.upserts, call.deletes)).store,
                                !.edited = mem.edited \cup {call.graph}]
  BY Zenon DEF mutate, Written, Answered
<1> QED BY <1>1, <1>2, <1>3

LEMMA DropKeeps ==
    ASSUME StoresInv, NEW c, drop(c)
    PROVE  StoresInv'
<1>1. PICK name : disk' = disk /\ mem' = [mem EXCEPT !.graph = drop_graph(mem.graph, name), !.edited = mem.edited \cup {name}]
  BY Zenon DEF drop, Written
<1>2. PICK g : g = drop_graph(mem.graph, name)
  OBVIOUS
<1>3. StoreInv(mem) /\ GraphOK(mem.graph)
  BY DEF StoresInv, StoreInv
<1>4. GraphOK(g) /\ \A id : id[1] # name => Weight(g.edges, id) = Weight(mem.graph.edges, id)
  BY <1>2, <1>3, GraphDropped
<1>5. mem' = [mem EXCEPT !.graph = g, !.edited = mem.edited \cup {name}]
  BY <1>1, <1>2, Zenon
<1>6. StoreInv(mem')
  BY <1>3, <1>4, <1>5, GraphEdited
<1> QED BY <1>1, <1>6 DEF StoresInv

LEMMA ApplyKeeps ==
    ASSUME StoresInv, NEW c, apply(c)
    PROVE  StoresInv'
<1>1. CASE mem' = mem /\ disk' = disk
  BY <1>1 DEF StoresInv
<1>2. CASE disk' = disk /\ \E after : mem' = [mem EXCEPT !.ledger = after]
  <2>1. PICK after : mem' = [mem EXCEPT !.ledger = after]
    BY <1>2
  <2>2. StoreInv(mem)
    BY DEF StoresInv
  <2>3. /\ Shape(mem') /\ mem'.seq = mem.seq /\ mem'.entries = mem.entries
        /\ mem'.graph = mem.graph /\ mem'.edited = mem.edited
    BY <2>1, <2>2 DEF StoreInv, Shape
  <2>4. StoreInv(mem')
    BY <2>2, <2>3, SameGraph
  <2> QED BY <1>2, <2>4 DEF StoresInv
<1>3. (mem' = mem /\ disk' = disk) \/ (disk' = disk /\ \E after : mem' = [mem EXCEPT !.ledger = after])
  BY Zenon DEF apply, Written, Answered
<1> QED BY <1>1, <1>2, <1>3

LEMMA StoresStep == StoresInv /\ [Next]_vars => StoresInv'
<1> SUFFICES ASSUME StoresInv, [Next]_vars PROVE StoresInv'
  OBVIOUS
<1>1. ASSUME NEW c \in Client, digest_signed(c) \/ fail(c) PROVE StoresInv'
  BY <1>1 DEF digest_signed, Answered, fail, StoresInv
<1>2. ASSUME NEW c \in Client, flush(c) PROVE StoresInv'
  BY <1>2 DEF flush, StoresInv
<1>3. CASE background_flush
  BY <1>3 DEF background_flush, StoresInv
<1>4. CASE crash
  BY <1>4 DEF crash, StoresInv
<1>5. CASE UNCHANGED vars
  BY <1>5 DEF vars, StoresInv
<1> QED BY <1>1, <1>2, <1>3, <1>4, <1>5, CreateKeeps, AppendKeeps, RedactKeeps, HardDeleteKeeps, MutateKeeps,
           DropKeeps, ApplyKeeps DEF Next

\* The indexes of the graph fit its edges, and a graph that only the appends of
\* its own chain wrote is the replay of that chain (chain.rs: append, redact,
\* hard_delete; graph.rs: apply_edge_delta), for all requests and whatever a
\* restart loses.
THEOREM GraphIsReplay == Spec => []GraphExact
<1>1. StoresInv => GraphExact
  <2>1. ASSUME NEW s, StoreInv(s)
        PROVE  /\ Indexed(s.graph)
               /\ \A ch \in Chain : LET r == Replayed(s, ch).edges IN
                    \A id \in DOMAIN r \cup DOMAIN s.graph.edges :
                        id[1] = ch /\ ch \notin s.edited =>
                            id \in DOMAIN r /\ id \in DOMAIN s.graph.edges /\ s.graph.edges[id] = r[id]
    <3>1. Indexed(s.graph)
      BY <2>1 DEF StoreInv, GraphOK
    <3> QED BY <2>1, <3>1, ProjectedIsReplayed
  <2> QED BY <2>1 DEF StoresInv, GraphExact
<1> QED BY <1>1, StoresInit, StoresStep, PTL DEF Spec

-----------------------------------------------------------------------------
(* 8. What is acknowledged.                                                *)

\* Chains without gaps.
ChainInv(s) ==
    \A ch \in Chain : DOMAIN s.entries[ch] = 1..s.seq[ch] \ s.deleted[ch] /\ s.deleted[ch] \subseteq 1..s.seq[ch]

\* An entry, redacted or not, of a later version of the store.
EntryLater(e, f) == /\ f.edges = e.edges /\ f.leaf_hash = e.leaf_hash
                    /\ f.redacted \/ (f.event = e.event /\ ~ e.redacted)

\* t is a later version of the store s.
Later(s, t) ==
    /\ \A ch \in Chain :
        /\ s.seq[ch] <= t.seq[ch]
        /\ s.deleted[ch] \subseteq t.deleted[ch]
        /\ \A q \in DOMAIN s.entries[ch] : \/ q \in t.deleted[ch]
                                           \/ q \in DOMAIN t.entries[ch] /\ EntryLater(s.entries[ch][q], t.entries[ch][q])
        /\ verified(t, ch) => verified(s, ch)
        /\ \A k \in DOMAIN s.idem[ch] : k \in DOMAIN t.idem[ch] /\ t.idem[ch][k] = s.idem[ch][k]
    /\ \A id \in DOMAIN s.ledger : id \in DOMAIN t.ledger /\ t.ledger[id] = s.ledger[id]

\* The answer that the record of an idempotency key stands for.
RecordAnswer(s, ch, k) ==
    [op |-> "append", chain |-> ch, key |-> k, base |-> s.idem[ch][k].base, entries |-> s.idem[ch][k].fingerprint]

IsAppendAnswer(a) ==
    /\ a = [op |-> "append", chain |-> a.chain, key |-> a.key, base |-> a.base, entries |-> a.entries]
    /\ a.chain \in Chain /\ a.base \in Nat /\ Len(a.entries) \in Nat /\ DOMAIN a.entries = 1..Len(a.entries)

\* What the store holds of an answer: what it says, within the chain, and its record.
HoldsAppend(s, a) ==
    /\ IsAppendAnswer(a) /\ AppendKept(s, a) /\ a.base + Len(a.entries) <= s.seq[a.chain]
    /\ a.key # NoKey => a.key \in DOMAIN s.idem[a.chain] /\ RecordAnswer(s, a.chain, a.key) = a
Held(s, a) ==
    /\ a.op = "append" => HoldsAppend(s, a)
    /\ a.op \in {"redact", "delete"} => a.chain \in Chain /\ a.seq \in 1..s.seq[a.chain]
    /\ Kept(s, a)

Records(s) == \A ch \in Chain : \A k \in DOMAIN s.idem[ch] : k # NoKey /\ Held(s, RecordAnswer(s, ch, k))

Flushing == {c \in Client : client[c].pc = "flush"}
Known == {a \in acked : a.op = "append"} \cup {a \in {client[c].answer : c \in Flushing} : a.op = "append"}
         \cup UNION {{RecordAnswer(mem, ch, k) : k \in DOMAIN mem.idem[ch]} : ch \in Chain}
Apart(a, b) == a.chain = b.chain => Range1(a) \cap Range1(b) = {} \/ a = b

\* The parts of a store that are functions of the chain.
Maps(s) == /\ s.seq \in [Chain -> Nat] /\ s.mode = [c \in Chain |-> s.mode[c]]
           /\ s.entries = [c \in Chain |-> s.entries[c]]
           /\ s.deleted = [c \in Chain |-> s.deleted[c]] /\ s.idem = [c \in Chain |-> s.idem[c]]

AckInv ==
    /\ Maps(mem) /\ Maps(disk) /\ client = [c \in Client |-> client[c]]
    /\ ChainInv(mem) /\ ChainInv(disk) /\ Later(disk, mem)
    /\ Records(mem) /\ Records(disk)
    /\ \A a \in acked : Held(disk, a)
    /\ \A c \in Flushing : Held(mem, client[c].answer)
    /\ \A a, b \in Known : Apart(a, b)

LEMMA LaterTwice ==
    ASSUME NEW s, NEW t, NEW u, Later(s, t), Later(t, u), Maps(s), Maps(t), Maps(u)
    PROVE  Later(s, u)
<1>1. ASSUME NEW ch \in Chain
      PROVE  /\ s.seq[ch] <= u.seq[ch] /\ s.deleted[ch] \subseteq u.deleted[ch]
             /\ verified(u, ch) => verified(s, ch)
  <2>1. s.seq[ch] \in Nat /\ t.seq[ch] \in Nat /\ u.seq[ch] \in Nat
    BY DEF Maps
  <2> QED BY <2>1 DEF Later
<1>2. ASSUME NEW ch \in Chain, NEW q \in DOMAIN s.entries[ch]
      PROVE  q \in u.deleted[ch] \/ (q \in DOMAIN u.entries[ch] /\ EntryLater(s.entries[ch][q], u.entries[ch][q]))
  BY DEF Later, EntryLater
<1>3. ASSUME NEW ch \in Chain, NEW k \in DOMAIN s.idem[ch]
      PROVE  k \in DOMAIN u.idem[ch] /\ u.idem[ch][k] = s.idem[ch][k]
  BY DEF Later
<1>4. \A id \in DOMAIN s.ledger : id \in DOMAIN u.ledger /\ u.ledger[id] = s.ledger[id]
  BY DEF Later
<1> QED BY <1>1, <1>2, <1>3, <1>4 DEF Later

\* A slot that was used stays used, and keeps its entry or is deleted.
LEMMA SlotLater ==
    ASSUME NEW s, NEW t, Later(s, t), Maps(s), Maps(t), ChainInv(s), ChainInv(t),
           NEW ch \in Chain, NEW q \in 1..s.seq[ch]
    PROVE  /\ q \in 1..t.seq[ch]
           /\ q \in DOMAIN t.entries[ch] => q \in DOMAIN s.entries[ch] /\ EntryLater(s.entries[ch][q], t.entries[ch][q])
           /\ q \notin DOMAIN t.entries[ch] => q \in t.deleted[ch]
<1>1. s.seq[ch] \in Nat /\ t.seq[ch] \in Nat /\ s.seq[ch] <= t.seq[ch]
  BY DEF Maps, Later
<1>2. q \in 1..t.seq[ch]
  BY <1>1
<1>3. /\ DOMAIN s.entries[ch] = 1..s.seq[ch] \ s.deleted[ch]
      /\ DOMAIN t.entries[ch] = 1..t.seq[ch] \ t.deleted[ch]
      /\ s.deleted[ch] \subseteq t.deleted[ch]
  BY DEF ChainInv, Later
<1>4. q \in DOMAIN t.entries[ch] => q \in DOMAIN s.entries[ch]
  BY <1>2, <1>3
<1>5. q \in DOMAIN t.entries[ch] => EntryLater(s.entries[ch][q], t.entries[ch][q])
  BY <1>3, <1>4 DEF Later
<1> QED BY <1>2, <1>3, <1>4, <1>5

LEMMA AppendLater ==
    ASSUME NEW s, NEW t, Later(s, t), Maps(s), Maps(t), ChainInv(s), ChainInv(t), NEW a, HoldsAppend(s, a)
    PROVE  HoldsAppend(t, a)
<1>1. PICK ch, n : ch = a.chain /\ n = Len(a.entries)
  OBVIOUS
<1>2. ch \in Chain /\ a.base \in Nat /\ n \in Nat /\ DOMAIN a.entries = 1..n /\ a.base + n <= s.seq[ch]
  BY <1>1 DEF HoldsAppend, IsAppendAnswer
<1>3. s.seq[ch] \in Nat /\ t.seq[ch] \in Nat /\ s.seq[ch] <= t.seq[ch]
  BY <1>2 DEF Maps, Later
<1>4. ASSUME NEW i \in 1..n
      PROVE  IF a.base + i \in DOMAIN t.entries[ch] THEN EntryKept(t, ch, a.base + i, a.entries[i])
             ELSE a.base + i \in t.deleted[ch]
  <2>1. PICK q : q = a.base + i
    OBVIOUS
  <2>2. q \in 1..s.seq[ch]
    BY <1>2, <1>3, <2>1
  <2>3. /\ q \in DOMAIN t.entries[ch] => q \in DOMAIN s.entries[ch] /\ EntryLater(s.entries[ch][q], t.entries[ch][q])
        /\ q \notin DOMAIN t.entries[ch] => q \in t.deleted[ch]
    BY <1>2, <2>2, SlotLater
  <2>4. CASE q \in DOMAIN t.entries[ch]
    <3>1. q \in DOMAIN s.entries[ch] /\ EntryLater(s.entries[ch][q], t.entries[ch][q])
      BY <2>3, <2>4
    <3>2. EntryKept(s, ch, q, a.entries[i])
      BY <1>1, <1>2, <2>1, <3>1 DEF HoldsAppend, AppendKept
    <3>3. verified(t, ch) => verified(s, ch)
      BY <1>2 DEF Later
    <3>4. EntryKept(t, ch, q, a.entries[i])
      BY <3>1, <3>2, <3>3 DEF EntryKept, EntryLater
    <3> QED BY <2>1, <2>4, <3>4
  <2>5. CASE q \notin DOMAIN t.entries[ch]
    BY <2>1, <2>3, <2>5
  <2> QED BY <2>4, <2>5
<1>5. AppendKept(t, a)
  BY <1>1, <1>2, <1>4 DEF AppendKept
<1>6. a.base + Len(a.entries) <= t.seq[a.chain]
  BY <1>1, <1>2, <1>3
<1>7. a.key # NoKey => a.key \in DOMAIN t.idem[a.chain] /\ RecordAnswer(t, a.chain, a.key) = a
  <2>1. a.key # NoKey => a.key \in DOMAIN s.idem[ch] /\ RecordAnswer(s, ch, a.key) = a
    BY <1>1 DEF HoldsAppend
  <2>2. \A k \in DOMAIN s.idem[ch] : k \in DOMAIN t.idem[ch] /\ t.idem[ch][k] = s.idem[ch][k]
    BY <1>2 DEF Later
  <2>3. \A k \in DOMAIN s.idem[ch] : RecordAnswer(t, ch, k) = RecordAnswer(s, ch, k)
    BY <2>2 DEF RecordAnswer
  <2> QED BY <1>1, <2>1, <2>2, <2>3, Zenon
<1> QED BY <1>5, <1>6, <1>7 DEF HoldsAppend

LEMMA HeldLater ==
    ASSUME NEW s, NEW t, Later(s, t), Maps(s), Maps(t), ChainInv(s), ChainInv(t), NEW a, Held(s, a)
    PROVE  Held(t, a)
<1>1. CASE a.op = "append"
  <2>1. HoldsAppend(t, a)
    BY <1>1, AppendLater DEF Held
  <2> QED BY <1>1, <2>1 DEF Held, Kept, HoldsAppend
<1>2. CASE a.op \in {"redact", "delete"}
  <2>1. PICK ch, q : ch = a.chain /\ q = a.seq
    OBVIOUS
  <2>2. ch \in Chain /\ q \in 1..s.seq[ch]
    BY <1>2, <2>1 DEF Held
  <2>3. /\ q \in 1..t.seq[ch]
        /\ q \in DOMAIN t.entries[ch] => q \in DOMAIN s.entries[ch] /\ EntryLater(s.entries[ch][q], t.entries[ch][q])
    BY <2>2, SlotLater
  <2>4. Kept(s, a)
    BY DEF Held
  <2>5. CASE a.op = "redact"
    <3>1. q \in DOMAIN s.entries[ch] => s.entries[ch][q].redacted
      BY <2>1, <2>4, <2>5 DEF Kept
    <3>2. q \in DOMAIN t.entries[ch] => t.entries[ch][q].redacted
      BY <2>3, <3>1 DEF EntryLater
    <3> QED BY <2>1, <2>2, <2>3, <2>5, <3>2 DEF Held, Kept
  <2>6. CASE a.op = "delete"
    <3>1. q \notin DOMAIN s.entries[ch]
      BY <2>1, <2>4, <2>6 DEF Kept
    <3> QED BY <2>1, <2>2, <2>3, <2>6, <3>1 DEF Held, Kept
  <2> QED BY <1>2, <2>5, <2>6
<1>3. CASE a.op = "apply"
  <2>1. \A id \in DOMAIN a.results : id \in DOMAIN s.ledger /\ s.ledger[id] = a.results[id]
    BY <1>3 DEF Held, Kept
  <2>2. \A id \in DOMAIN a.results : id \in DOMAIN t.ledger /\ t.ledger[id] = a.results[id]
    BY <2>1 DEF Later
  <2> QED BY <1>3, <2>2 DEF Held, Kept
<1>4. CASE a.op \notin {"append", "redact", "delete", "apply"}
  BY <1>4 DEF Held, Kept
<1> QED BY <1>1, <1>2, <1>3, <1>4

\* t is a later version of s, and well formed.
Version(s, t) == Maps(t) /\ ChainInv(t) /\ Later(s, t)
SameKeys(s, t) == \A ch \in Chain : DOMAIN t.idem[ch] = DOMAIN s.idem[ch]

LEMMA SameChains ==
    ASSUME NEW s, Maps(s), ChainInv(s), NEW t, t.seq = s.seq, t.entries = s.entries, t.deleted = s.deleted, t.idem = s.idem,
           t.mode = [c \in Chain |-> t.mode[c]], \A c \in Chain : verified(t, c) => verified(s, c),
           \A id \in DOMAIN s.ledger : id \in DOMAIN t.ledger /\ t.ledger[id] = s.ledger[id]
    PROVE  Version(s, t) /\ SameKeys(s, t)
<1>1. Maps(t) /\ ChainInv(t) /\ SameKeys(s, t)
  BY DEF Maps, ChainInv, SameKeys
<1>2. \A c \in Chain : s.seq[c] <= t.seq[c]
  BY DEF Maps
<1>3. \A e : EntryLater(e, e)
  BY DEF EntryLater
<1>4. Later(s, t)
  BY <1>2, <1>3 DEF Later
<1> QED BY <1>1, <1>4 DEF Version

LEMMA RedactedVersion ==
    ASSUME NEW s, Shape(s), Maps(s), ChainInv(s), NEW ch \in Chain, NEW seq \in DOMAIN s.entries[ch],
           NEW t, t = redacted_entry(s, ch, seq), NEW a, a = [op |-> "redact", chain |-> ch, seq |-> seq]
    PROVE  Version(s, t) /\ SameKeys(s, t) /\ Held(t, a)
<1>1. PICK es, e : es = s.entries[ch] /\ e = es[seq]
  OBVIOUS
<1>2. IsEntry(e)
  BY <1>1 DEF Shape, EntriesOK
<1>3. PICK f, fs, en : /\ f = [e EXCEPT !.event = "", !.redacted = TRUE]
                       /\ fs = [es EXCEPT ![seq] = f]
                       /\ en = [s.entries EXCEPT ![ch] = fs]
  OBVIOUS
<1>4. t = [s EXCEPT !.entries = en]
  BY <1>1, <1>3 DEF redacted_entry
<1>5. f = [event |-> "", edges |-> e.edges, leaf_hash |-> e.leaf_hash, redacted |-> TRUE]
  BY <1>2, <1>3 DEF IsEntry
<1>6. EntryLater(e, f) /\ f.redacted
  BY <1>5 DEF EntryLater
<1>7. DOMAIN fs = DOMAIN es /\ fs[seq] = f /\ \A q \in DOMAIN es : q # seq => fs[q] = es[q]
  BY <1>1, <1>3
<1>8. en[ch] = fs /\ en = [c \in Chain |-> en[c]] /\ \A c \in Chain \ {ch} : en[c] = s.entries[c]
  BY <1>3 DEF Maps
<1>9. /\ t.seq = s.seq /\ t.entries = en /\ t.mode = s.mode /\ t.deleted = s.deleted
      /\ t.idem = s.idem /\ t.ledger = s.ledger
  BY <1>4 DEF Shape
<1>10. Maps(t)
  BY <1>8, <1>9 DEF Maps
<1>11. \A c \in Chain : DOMAIN en[c] = DOMAIN s.entries[c]
  BY <1>1, <1>7, <1>8
<1>12. ChainInv(t) /\ SameKeys(s, t)
  BY <1>9, <1>11 DEF ChainInv, SameKeys
<1>13. \A c \in Chain : \A q \in DOMAIN s.entries[c] : EntryLater(s.entries[c][q], en[c][q])
  <2>1. \A x : EntryLater(x, x)
    BY DEF EntryLater
  <2> QED BY <1>1, <1>6, <1>7, <1>8, <2>1
<1>14. \A c \in Chain : s.seq[c] <= t.seq[c]
  BY <1>9 DEF Maps
<1>15. Later(s, t)
  BY <1>9, <1>11, <1>13, <1>14 DEF Later, verified
<1>16. seq \in 1..t.seq[ch]
  BY <1>9 DEF ChainInv
<1>17. Held(t, a)
  <2>1. a.op = "redact" /\ a.chain = ch /\ a.seq = seq
    OBVIOUS
  <2>2. t.entries[ch][seq].redacted
    BY <1>6, <1>7, <1>8, <1>9
  <2> QED BY <1>16, <2>1, <2>2 DEF Held, Kept
<1> QED BY <1>10, <1>12, <1>15, <1>17 DEF Version

LEMMA DeletedVersion ==
    ASSUME NEW s, Shape(s), Maps(s), ChainInv(s), NEW ch \in Chain, NEW seq \in DOMAIN s.entries[ch], NEW retract_edges \in BOOLEAN,
           NEW t, t = hard_deleted(s, ch, seq, retract_edges), NEW a, a = [op |-> "delete", chain |-> ch, seq |-> seq]
    PROVE  Version(s, t) /\ SameKeys(s, t) /\ Held(t, a)
<1>1. PICK en, de : /\ en = [s.entries EXCEPT ![ch] = Restrict(s.entries[ch], DOMAIN s.entries[ch] \ {seq})]
                    /\ de = [s.deleted EXCEPT ![ch] = s.deleted[ch] \cup {seq}]
  OBVIOUS
<1>2. PICK g, ed : t = [s EXCEPT !.entries = en, !.deleted = de, !.edited = ed, !.graph = g]
  <2>1. PICK edges : edges = s.entries[ch][seq].edges
    OBVIOUS
  <2>2. PICK g, ed : /\ ed = s.edited \cup {edges[i].graph : i \in DOMAIN edges}
                     /\ g = IF retract_edges THEN apply_edges(s.graph, retractions(edges)).store ELSE s.graph
    OBVIOUS
  <2>3. t = [s EXCEPT !.entries[ch] = Restrict(s.entries[ch], DOMAIN s.entries[ch] \ {seq}),
                      !.deleted[ch] = s.deleted[ch] \cup {seq},
                      !.edited = s.edited \cup {edges[i].graph : i \in DOMAIN edges},
                      !.graph = IF retract_edges THEN apply_edges(s.graph, retractions(edges)).store ELSE s.graph]
    BY <2>1 DEF hard_deleted, Shape
  <2>4. t = [s EXCEPT !.entries = en, !.deleted = de, !.edited = ed, !.graph = g]
    BY <1>1, <2>2, <2>3 DEF Shape
  <2> QED BY <2>4
<1>3. /\ t.seq = s.seq /\ t.entries = en /\ t.mode = s.mode /\ t.deleted = de
      /\ t.idem = s.idem /\ t.ledger = s.ledger
  BY <1>2 DEF Shape
<1>4. PICK es, fs : es = s.entries[ch] /\ fs = Restrict(es, DOMAIN es \ {seq})
  OBVIOUS
<1>5. DOMAIN fs = DOMAIN es \ {seq} /\ \A q \in DOMAIN fs : fs[q] = es[q]
  BY <1>4 DEF Restrict
<1>6. /\ en[ch] = fs /\ en = [c \in Chain |-> en[c]] /\ \A c \in Chain \ {ch} : en[c] = s.entries[c]
      /\ de[ch] = s.deleted[ch] \cup {seq} /\ de = [c \in Chain |-> de[c]] /\ \A c \in Chain \ {ch} : de[c] = s.deleted[c]
  BY <1>1, <1>4 DEF Maps
<1>7. Maps(t)
  BY <1>3, <1>6 DEF Maps
<1>8. \A c \in Chain : DOMAIN s.entries[c] = 1..s.seq[c] \ s.deleted[c] /\ s.deleted[c] \subseteq 1..s.seq[c]
  BY DEF ChainInv
<1>9. \A c \in Chain : DOMAIN en[c] = 1..s.seq[c] \ de[c] /\ de[c] \subseteq 1..s.seq[c]
  <2>1. ASSUME NEW c \in Chain, c # ch PROVE DOMAIN en[c] = 1..s.seq[c] \ de[c] /\ de[c] \subseteq 1..s.seq[c]
    BY <1>6, <1>8, <2>1
  <2>2. DOMAIN en[ch] = 1..s.seq[ch] \ de[ch] /\ de[ch] \subseteq 1..s.seq[ch]
    BY <1>4, <1>5, <1>6, <1>8
  <2> QED BY <2>1, <2>2
<1>10. ChainInv(t) /\ SameKeys(s, t)
  BY <1>3, <1>9 DEF ChainInv, SameKeys
<1>11. \A c \in Chain : \A q \in DOMAIN s.entries[c] :
          q \in de[c] \/ (q \in DOMAIN en[c] /\ EntryLater(s.entries[c][q], en[c][q]))
  <2>1. \A x : EntryLater(x, x)
    BY DEF EntryLater
  <2> QED BY <1>4, <1>5, <1>6, <2>1
<1>12. \A c \in Chain : s.seq[c] <= t.seq[c] /\ s.deleted[c] \subseteq de[c]
  BY <1>3, <1>6 DEF Maps
<1>13. Later(s, t)
  BY <1>3, <1>11, <1>12 DEF Later, verified
<1>14. seq \in 1..t.seq[ch] /\ seq \notin DOMAIN t.entries[ch]
  BY <1>3, <1>5, <1>6, <1>8
<1>15. Held(t, a)
  <2>1. a.op = "delete" /\ a.chain = ch /\ a.seq = seq
    OBVIOUS
  <2> QED BY <1>14, <2>1 DEF Held, Kept
<1> QED BY <1>7, <1>10, <1>13, <1>15 DEF Version

\* t is s after the first n entries of an append.
Grown(s, t, ch, es, n) ==
    /\ Shape(t) /\ t.mode = s.mode /\ t.deleted = s.deleted /\ t.idem = s.idem /\ t.ledger = s.ledger
    /\ t.seq = [s.seq EXCEPT ![ch] = s.seq[ch] + n]
    /\ \A c \in Chain \ {ch} : t.entries[c] = s.entries[c]
    /\ DOMAIN t.entries[ch] = DOMAIN s.entries[ch] \cup ((s.seq[ch] + 1)..(s.seq[ch] + n))
    /\ \A q \in DOMAIN s.entries[ch] : t.entries[ch][q] = s.entries[ch][q]
    /\ \A i \in 1..n : IsNew(s, ch, es[i], t.entries[ch][s.seq[ch] + i])

LEMMA GrownNext ==
    ASSUME NEW s, Maps(s), ChainInv(s), NEW ch \in Chain, NEW es, NEW n \in Nat,
           NEW t, Grown(s, t, ch, es, n), NEW u, OneMore(t, u, ch, es[n + 1])
    PROVE  Grown(s, u, ch, es, n + 1)
<1>1. PICK old, mid, new, k : old = s.entries[ch] /\ mid = t.entries[ch] /\ new = u.entries[ch] /\ k = s.seq[ch]
  OBVIOUS
<1>2. k \in Nat /\ s.seq \in [Chain -> Nat] /\ DOMAIN old \subseteq 1..k
  BY <1>1 DEF Maps, ChainInv
<1>3. t.seq = [s.seq EXCEPT ![ch] = k + n] /\ t.seq[ch] = k + n
  BY <1>1, <1>2 DEF Grown
<1>4. u.seq = [s.seq EXCEPT ![ch] = k + (n + 1)]
  <2>1. u.seq = [t.seq EXCEPT ![ch] = (k + n) + 1]
    BY <1>3 DEF OneMore
  <2>2. (k + n) + 1 = k + (n + 1)
    BY <1>2
  <2> QED BY <1>2, <1>3, <2>1, <2>2
<1>5. PICK record : IsNew(t, ch, es[n + 1], record) /\ new = put(mid, (k + n) + 1, record)
  BY <1>1, <1>3 DEF OneMore
<1>6. /\ DOMAIN new = DOMAIN mid \cup {(k + n) + 1} /\ new[(k + n) + 1] = record
      /\ \A q \in DOMAIN mid : q # (k + n) + 1 => new[q] = mid[q]
  BY <1>5 DEF put
<1>7. /\ DOMAIN mid = DOMAIN old \cup ((k + 1)..(k + n)) /\ \A q \in DOMAIN old : mid[q] = old[q]
      /\ \A i \in 1..n : IsNew(s, ch, es[i], mid[k + i])
  BY <1>1 DEF Grown
<1>8. DOMAIN new = DOMAIN old \cup ((k + 1)..(k + (n + 1)))
  BY <1>2, <1>6, <1>7
<1>9. \A q \in DOMAIN old : new[q] = old[q]
  <2>1. ASSUME NEW q \in DOMAIN old PROVE q \in DOMAIN mid /\ q # (k + n) + 1
    BY <1>2, <1>7
  <2> QED BY <1>6, <1>7, <2>1
<1>10. verified(t, ch) = verified(s, ch)
  BY DEF Grown, verified
<1>11. ASSUME NEW i \in 1..(n + 1) PROVE IsNew(s, ch, es[i], new[k + i])
  <2>1. CASE i = n + 1
    <3>1. new[k + i] = record
      <4>1. k + i = (k + n) + 1
        BY <1>2, <2>1
      <4> QED BY <1>6, <4>1
    <3> QED BY <1>5, <1>10, <2>1, <3>1 DEF IsNew
  <2>2. CASE i # n + 1
    <3>1. i \in 1..n /\ k + i \in (k + 1)..(k + n) /\ k + i # (k + n) + 1
      BY <1>2, <2>2
    <3>2. new[k + i] = mid[k + i]
      BY <1>6, <1>7, <3>1
    <3> QED BY <1>7, <3>1, <3>2
  <2> QED BY <2>1, <2>2
<1>12. /\ Shape(u) /\ u.mode = s.mode /\ u.deleted = s.deleted /\ u.idem = s.idem /\ u.ledger = s.ledger
       /\ \A c \in Chain \ {ch} : u.entries[c] = s.entries[c]
  BY DEF OneMore, Grown
<1> QED BY <1>1, <1>4, <1>8, <1>9, <1>11, <1>12 DEF Grown

LEMMA EntriesGrown ==
    ASSUME NEW s, Shape(s), Maps(s), ChainInv(s), NEW ch \in Chain, NEW es, CallOK(es), NEW t, t = append_entries(s, ch, es)
    PROVE  Grown(s, t, ch, es, Len(es))
<1>1. PICK m : m = Len(es)
  OBVIOUS
<1>2. m \in Nat
  BY <1>1 DEF CallOK
<1>3. PICK r : IsAppended(r, s, ch, es, m) /\ t = r[m]
  <2>1. t = (CHOOSE r : IsAppended(r, s, ch, es, m))[m]
    BY <1>1 DEF append_entries, IsAppended
  <2> QED BY <1>2, <2>1, AppendedExists
<1>4. \A i \in 0..m : r[i] = IF i = 0 THEN s ELSE append_entry(r[i - 1], ch, es[i])
  BY <1>3 DEF IsAppended
<1>5. r[0] = s
  BY <1>2, <1>4
<1> DEFINE S == {i \in 0..m : Grown(s, r[i], ch, es, i)}
<1>6. \A i \in 0..m : i \in S <=> Grown(s, r[i], ch, es, i)
  OBVIOUS
<1> HIDE DEF S
<1>7. 0 \in S
  <2>1. s.seq[ch] \in Nat /\ s.seq \in [Chain -> Nat]
    BY DEF Maps
  <2>2. s.seq = [s.seq EXCEPT ![ch] = s.seq[ch] + 0]
    BY <2>1
  <2>3. (s.seq[ch] + 1)..(s.seq[ch] + 0) = {}
    BY <2>1
  <2>4. Grown(s, s, ch, es, 0)
    BY <2>2, <2>3 DEF Grown
  <2> QED BY <1>2, <1>5, <1>6, <2>4
<1>8. ASSUME NEW i \in 0..m, i \in S, i + 1 \in 0..m PROVE i + 1 \in S
  <2>1. Grown(s, r[i], ch, es, i)
    BY <1>6, <1>8
  <2>2. r[i + 1] = append_entry(r[i], ch, es[i + 1])
    <3>1. i + 1 # 0 /\ (i + 1) - 1 = i
      OBVIOUS
    <3> QED BY <1>4, <1>8, <3>1
  <2>3. IsDeltas(es[i + 1].edges)
    <3>1. i + 1 \in 1..Len(es)
      BY <1>1, <1>8
    <3> QED BY <3>1 DEF CallOK
  <2>4. Shape(r[i]) /\ i \in Nat
    BY <2>1 DEF Grown
  <2>5. OneMore(r[i], r[i + 1], ch, es[i + 1])
    BY <2>2, <2>3, <2>4, EntryAppended
  <2>6. Grown(s, r[i + 1], ch, es, i + 1)
    BY <2>1, <2>4, <2>5, GrownNext
  <2> QED BY <1>6, <1>8, <2>6
<1>9. \A i \in 0..m : i \in S
  BY <1>2, <1>7, <1>8, Upwards
<1>10. m \in 0..m
  BY <1>2
<1> QED BY <1>1, <1>3, <1>6, <1>9, <1>10

\* The same keys, or the key of the call with its record.
KeysAfter(s, t, call) ==
    \A c \in Chain : \A k \in DOMAIN t.idem[c] :
        k \in DOMAIN s.idem[c] \/ (c = call.chain /\ k = call.key /\ k # NoKey /\ t.idem[c][k] = idem_record(s, call))

LEMMA AppendedVersion ==
    ASSUME NEW s, Shape(s), Maps(s), ChainInv(s), NEW call, call.chain \in Chain, CallOK(call.entries),
           DOMAIN call.entries = 1..Len(call.entries),
           call.key = NoKey \/ call.key \notin DOMAIN s.idem[call.chain],
           NEW t, t = append_batch(s, call), NEW a, a = AppendAnswer(call, s.seq[call.chain])
    PROVE  Version(s, t) /\ KeysAfter(s, t, call) /\ Held(t, a)
<1>1. PICK ch, es, k, n : ch = call.chain /\ es = call.entries /\ k = s.seq[ch] /\ n = Len(es)
  OBVIOUS
<1>2. ch \in Chain /\ CallOK(es) /\ n \in Nat /\ DOMAIN es = 1..n
  BY <1>1 DEF CallOK
<1>3. k \in Nat /\ s.seq \in [Chain -> Nat] /\ DOMAIN s.entries[ch] = 1..k \ s.deleted[ch] /\ s.deleted[ch] \subseteq 1..k
  BY <1>1, <1>2 DEF Maps, ChainInv
<1>4. PICK created, md : /\ created = [s EXCEPT !.mode[ch] = IF @ = "none" THEN "verified" ELSE @]
                         /\ md = [s.mode EXCEPT ![ch] = IF s.mode[ch] = "none" THEN "verified" ELSE s.mode[ch]]
  OBVIOUS
<1>5. created = [s EXCEPT !.mode = md]
  BY <1>4 DEF Shape
<1>6. /\ Shape(created) /\ created.mode = md /\ created.seq = s.seq /\ created.entries = s.entries
      /\ created.deleted = s.deleted /\ created.idem = s.idem /\ created.ledger = s.ledger
  BY <1>5 DEF Shape
<1>7. md = [c \in Chain |-> md[c]] /\ \A c \in Chain : md[c] # "plain" => s.mode[c] # "plain"
  BY <1>2, <1>4 DEF Maps
<1>8. Maps(created) /\ ChainInv(created)
  BY <1>6, <1>7 DEF Maps, ChainInv
<1>9. PICK appended : appended = append_entries(created, ch, es)
  OBVIOUS
<1>10. Grown(created, appended, ch, es, n)
  BY <1>1, <1>2, <1>6, <1>8, <1>9, EntriesGrown
<1>11. PICK g, ed : t = IF call.key = NoKey THEN [appended EXCEPT !.graph = g, !.edited = ed]
                        ELSE [[appended EXCEPT !.graph = g, !.edited = ed] EXCEPT !.idem[ch] = put(@, call.key, idem_record(s, call))]
  <2>1. PICK edges : edges = AllEdges(es)
    OBVIOUS
  <2>2. PICK g, ed : g = apply_edges(s.graph, edges).store /\ ed = appended.edited \cup ({d.graph : d \in Range(edges)} \ {ch})
    OBVIOUS
  <2>3. t = IF call.key = NoKey THEN [appended EXCEPT !.graph = g, !.edited = ed]
            ELSE [[appended EXCEPT !.graph = g, !.edited = ed] EXCEPT !.idem[ch] = put(@, call.key, idem_record(s, call))]
    BY <1>1, <1>4, <1>9, <2>1, <2>2, Zenon DEF append_batch
  <2> QED BY <2>3
<1>12. PICK projected : projected = [appended EXCEPT !.graph = g, !.edited = ed]
  OBVIOUS
<1>13. /\ projected.mode = md /\ projected.seq = appended.seq /\ projected.entries = appended.entries
       /\ projected.deleted = s.deleted /\ projected.idem = s.idem /\ projected.ledger = s.ledger
       /\ Shape(projected)
  <2>1. /\ Shape(appended) /\ appended.mode = md /\ appended.deleted = s.deleted
        /\ appended.idem = s.idem /\ appended.ledger = s.ledger
    BY <1>6, <1>10 DEF Grown
  <2> QED BY <1>12, <2>1 DEF Shape
<1>14. PICK im : im = IF call.key = NoKey THEN s.idem ELSE [s.idem EXCEPT ![ch] = put(s.idem[ch], call.key, idem_record(s, call))]
  OBVIOUS
<1>15. /\ t.mode = md /\ t.seq = appended.seq /\ t.entries = appended.entries
       /\ t.deleted = s.deleted /\ t.idem = im /\ t.ledger = s.ledger
  <2>1. CASE call.key = NoKey
    BY <1>11, <1>12, <1>13, <1>14, <2>1
  <2>2. CASE call.key # NoKey
    <3>1. t = [projected EXCEPT !.idem[ch] = put(projected.idem[ch], call.key, idem_record(s, call))]
      BY <1>11, <1>12, <2>2, Zenon
    <3>2. t = [projected EXCEPT !.idem = im]
      BY <1>13, <1>14, <2>2, <3>1 DEF Shape
    <3> QED BY <1>13, <3>2 DEF Shape
  <2> QED BY <2>1, <2>2
<1>16. PICK old, new : old = s.entries[ch] /\ new = t.entries[ch]
  OBVIOUS
<1>17. /\ t.seq = [s.seq EXCEPT ![ch] = k + n] /\ \A c \in Chain \ {ch} : t.entries[c] = s.entries[c]
       /\ DOMAIN new = DOMAIN old \cup ((k + 1)..(k + n)) /\ \A q \in DOMAIN old : new[q] = old[q]
       /\ \A i \in 1..n : IsNew(created, ch, es[i], new[k + i])
  BY <1>1, <1>6, <1>10, <1>15, <1>16 DEF Grown
<1>18. t.seq[ch] = k + n /\ t.seq \in [Chain -> Nat] /\ \A c \in Chain \ {ch} : t.seq[c] = s.seq[c]
  BY <1>2, <1>3, <1>17
<1>19. PICK rec : rec = idem_record(s, call)
  OBVIOUS
<1>20. /\ im = [c \in Chain |-> im[c]] /\ \A c \in Chain \ {ch} : im[c] = s.idem[c]
       /\ call.key = NoKey => im[ch] = s.idem[ch]
       /\ call.key # NoKey => im[ch] = put(s.idem[ch], call.key, rec)
  BY <1>2, <1>14, <1>19 DEF Maps
<1>21. call.key # NoKey => /\ DOMAIN im[ch] = DOMAIN s.idem[ch] \cup {call.key} /\ im[ch][call.key] = rec
                           /\ \A x \in DOMAIN s.idem[ch] : x # call.key => im[ch][x] = s.idem[ch][x]
  BY <1>20 DEF put
<1>22. Maps(t)
  <2>1. t.entries = [c \in Chain |-> t.entries[c]]
    BY <1>13, <1>15 DEF Shape
  <2>2. t.deleted = [c \in Chain |-> t.deleted[c]]
    BY <1>15 DEF Maps
  <2> QED BY <1>7, <1>15, <1>18, <1>20, <2>1, <2>2 DEF Maps
<1>23. ChainInv(t)
  <2>1. DOMAIN new = 1..(k + n) \ s.deleted[ch] /\ s.deleted[ch] \subseteq 1..(k + n)
    BY <1>2, <1>3, <1>16, <1>17
  <2>2. ASSUME NEW c \in Chain
        PROVE  DOMAIN t.entries[c] = 1..t.seq[c] \ t.deleted[c] /\ t.deleted[c] \subseteq 1..t.seq[c]
    <3>1. CASE c = ch
      BY <1>15, <1>16, <1>18, <2>1, <3>1
    <3>2. CASE c # ch
      BY <1>15, <1>17, <1>18, <3>2 DEF ChainInv
    <3> QED BY <3>1, <3>2
  <2> QED BY <2>2 DEF ChainInv
<1>24. Later(s, t)
  <2>1. \A c \in Chain : s.seq[c] <= t.seq[c]
    BY <1>1, <1>2, <1>3, <1>18
  <2>2. \A x : EntryLater(x, x)
    BY DEF EntryLater
  <2>3. \A c \in Chain : \A q \in DOMAIN s.entries[c] :
           q \in DOMAIN t.entries[c] /\ EntryLater(s.entries[c][q], t.entries[c][q])
    BY <1>16, <1>17, <2>2
  <2>4. \A c \in Chain : \A x \in DOMAIN s.idem[c] : x \in DOMAIN t.idem[c] /\ t.idem[c][x] = s.idem[c][x]
    BY <1>1, <1>15, <1>20, <1>21
  <2>5. \A c \in Chain : verified(t, c) => verified(s, c)
    BY <1>7, <1>15 DEF verified
  <2> QED BY <1>15, <2>1, <2>3, <2>4, <2>5 DEF Later
<1>25. KeysAfter(s, t, call)
  BY <1>1, <1>15, <1>19, <1>20, <1>21 DEF KeysAfter
<1>26. a = [op |-> "append", chain |-> ch, key |-> call.key, base |-> k, entries |-> es]
  BY <1>1 DEF AppendAnswer
<1>27. a.op = "append" /\ a.chain = ch /\ a.key = call.key /\ a.base = k /\ a.entries = es
  BY <1>26
<1>28. IsAppendAnswer(a)
  BY <1>1, <1>2, <1>3, <1>26, <1>27 DEF IsAppendAnswer
<1>29. AppendKept(t, a)
  <2>1. ASSUME NEW i \in 1..n PROVE k + i \in DOMAIN new /\ EntryKept(t, ch, k + i, es[i])
    <3>1. k + i \in DOMAIN new
      BY <1>2, <1>3, <1>17
    <3>2. IsNew(created, ch, es[i], t.entries[ch][k + i])
      BY <1>16, <1>17
    <3>3. verified(t, ch) = verified(created, ch)
      BY <1>6, <1>15 DEF verified
    <3> QED BY <3>1, <3>2, <3>3 DEF EntryKept, IsNew
  <2> QED BY <1>2, <1>16, <1>27, <2>1 DEF AppendKept
<1>30. a.key # NoKey => a.key \in DOMAIN t.idem[ch] /\ RecordAnswer(t, ch, a.key) = a
  <2>1. rec.fingerprint = es /\ rec.base = k
    BY <1>1, <1>19 DEF idem_record
  <2>2. call.key # NoKey => call.key \in DOMAIN t.idem[ch] /\ t.idem[ch][call.key] = rec
    BY <1>15, <1>21
  <2> QED BY <1>26, <1>27, <2>1, <2>2 DEF RecordAnswer
<1>31. HoldsAppend(t, a)
  BY <1>1, <1>2, <1>3, <1>18, <1>27, <1>28, <1>29, <1>30 DEF HoldsAppend
<1>32. Held(t, a)
  BY <1>27, <1>29, <1>31 DEF Held, Kept
<1> QED BY <1>22, <1>23, <1>24, <1>25, <1>32 DEF Version

LEMMA RecordLater ==
    ASSUME NEW s, NEW t, Later(s, t), NEW ch \in Chain, NEW k \in DOMAIN s.idem[ch]
    PROVE  k \in DOMAIN t.idem[ch] /\ RecordAnswer(t, ch, k) = RecordAnswer(s, ch, k)
<1>1. k \in DOMAIN t.idem[ch] /\ t.idem[ch][k] = s.idem[ch][k]
  BY DEF Later
<1> QED BY <1>1 DEF RecordAnswer

LEMMA RecordsLater ==
    ASSUME NEW s, Maps(s), ChainInv(s), Records(s), NEW t, Version(s, t), NEW a, Held(t, a),
           \A ch \in Chain : \A k \in DOMAIN t.idem[ch] :
               k \in DOMAIN s.idem[ch] \/ (k # NoKey /\ RecordAnswer(t, ch, k) = a)
    PROVE  Records(t)
<1>1. Later(s, t) /\ Maps(t) /\ ChainInv(t)
  BY DEF Version
<1>2. ASSUME NEW ch \in Chain, NEW k \in DOMAIN s.idem[ch] PROVE k # NoKey /\ Held(t, RecordAnswer(t, ch, k))
  <2>1. k # NoKey /\ Held(s, RecordAnswer(s, ch, k))
    BY DEF Records
  <2>2. Held(t, RecordAnswer(s, ch, k))
    BY <1>1, <2>1, HeldLater
  <2>3. RecordAnswer(t, ch, k) = RecordAnswer(s, ch, k)
    BY <1>1, RecordLater
  <2> QED BY <2>1, <2>2, <2>3
<1>3. ASSUME NEW ch \in Chain, NEW k \in DOMAIN t.idem[ch] PROVE k # NoKey /\ Held(t, RecordAnswer(t, ch, k))
  <2>1. CASE k \in DOMAIN s.idem[ch]
    BY <1>2, <2>1
  <2>2. CASE k # NoKey /\ RecordAnswer(t, ch, k) = a
    BY <2>2
  <2> QED BY <2>1, <2>2
<1> QED BY <1>3 DEF Records

\* The appends that are answered, about to be, or on record, are in the store.
LEMMA KnownHeld ==
    ASSUME AckInv, NEW b \in Known
    PROVE  b.op = "append" /\ HoldsAppend(mem, b)
<1>1. CASE b \in acked /\ b.op = "append"
  <2>1. Held(mem, b)
    BY <1>1, HeldLater DEF AckInv
  <2> QED BY <1>1, <2>1 DEF Held
<1>2. CASE b.op = "append" /\ b \in {client[c].answer : c \in Flushing}
  BY <1>2 DEF AckInv, Held
<1>3. CASE \E ch \in Chain : \E k \in DOMAIN mem.idem[ch] : b = RecordAnswer(mem, ch, k)
  <2>1. PICK ch \in Chain : \E k \in DOMAIN mem.idem[ch] : b = RecordAnswer(mem, ch, k)
    BY <1>3
  <2>2. PICK k \in DOMAIN mem.idem[ch] : b = RecordAnswer(mem, ch, k)
    BY <2>1
  <2>3. Held(mem, b)
    BY <2>2 DEF AckInv, Records
  <2>4. b.op = "append"
    BY <2>2 DEF RecordAnswer
  <2> QED BY <2>3, <2>4 DEF Held
<1> QED BY <1>1, <1>2, <1>3 DEF Known

\* A new answer, or none, joins the ones that are known.
LEMMA ApartStays ==
    ASSUME AckInv, NEW n, \A b \in Known : Apart(n, b) /\ Apart(b, n), Known' \subseteq Known \cup {n}
    PROVE  \A a, b \in Known' : Apart(a, b)
<1>1. \A a, b \in Known : Apart(a, b)
  BY DEF AckInv
<1>2. Apart(n, n)
  BY DEF Apart
<1> QED BY <1>1, <1>2

LEMMA WrittenKeeps ==
    ASSUME AckInv, NEW c \in Client, client[c] = Idle, NEW store, NEW answer, Written(c, store, answer),
           Version(mem, store), Held(store, answer),
           \A ch \in Chain : \A k \in DOMAIN store.idem[ch] :
               k \in DOMAIN mem.idem[ch] \/ (k # NoKey /\ RecordAnswer(store, ch, k) = answer),
           answer.op = "append" => \A b \in Known : Apart(answer, b) /\ Apart(b, answer)
    PROVE  AckInv'
<1>1. /\ mem' = store /\ disk' = disk /\ acked' = acked
      /\ client' = [client EXCEPT ![c] = [pc |-> "flush", answer |-> answer]]
  BY DEF Written
<1>2. /\ Maps(mem) /\ Maps(disk) /\ client = [x \in Client |-> client[x]]
      /\ ChainInv(mem) /\ ChainInv(disk) /\ Later(disk, mem) /\ Records(mem) /\ Records(disk)
  BY DEF AckInv
<1>3. Maps(store) /\ ChainInv(store) /\ Later(mem, store)
  BY DEF Version
<1>4. Later(disk, store)
  BY <1>2, <1>3, LaterTwice
<1>5. Records(store)
  BY <1>2, RecordsLater
<1>6. /\ client' = [x \in Client |-> client'[x]] /\ client'[c] = [pc |-> "flush", answer |-> answer]
      /\ \A x \in Client : x # c => client'[x] = client[x]
  BY <1>1, <1>2
<1>7. client'[c].pc = "flush" /\ client'[c].answer = answer
  BY <1>6
<1>8. \A x \in Flushing' : x = c \/ (x \in Flushing /\ client'[x] = client[x])
  BY <1>6 DEF Flushing
<1>9. ASSUME NEW x \in Flushing' PROVE Held(store, client'[x].answer)
  <2>1. CASE x = c
    BY <1>7, <2>1
  <2>2. CASE x \in Flushing /\ client'[x] = client[x]
    <3>1. Held(mem, client[x].answer)
      BY <2>2 DEF AckInv
    <3>2. Held(store, client[x].answer)
      BY <1>2, <1>3, <3>1, HeldLater
    <3> QED BY <2>2, <3>2
  <2> QED BY <1>8, <2>1, <2>2
<1>10. ASSUME NEW a \in Known' PROVE a \in Known \/ (a = answer /\ answer.op = "append")
  <2>1. CASE a \in acked' /\ a.op = "append"
    BY <1>1, <2>1 DEF Known
  <2>2. CASE a.op = "append" /\ a \in {client'[x].answer : x \in Flushing'}
    BY <1>7, <1>8, <2>2 DEF Known
  <2>3. CASE \E ch \in Chain : \E k \in DOMAIN mem'.idem[ch] : a = RecordAnswer(mem', ch, k)
    <3>1. PICK ch \in Chain : \E k \in DOMAIN store.idem[ch] : a = RecordAnswer(store, ch, k)
      BY <1>1, <2>3
    <3>2. PICK k \in DOMAIN store.idem[ch] : a = RecordAnswer(store, ch, k)
      BY <3>1
    <3>3. CASE k \in DOMAIN mem.idem[ch]
      <4>1. a = RecordAnswer(mem, ch, k)
        BY <1>3, <3>2, <3>3, RecordLater
      <4> QED BY <3>3, <4>1 DEF Known
    <3>4. CASE RecordAnswer(store, ch, k) = answer
      <4>1. RecordAnswer(store, ch, k).op = "append"
        BY DEF RecordAnswer
      <4> QED BY <3>2, <3>4, <4>1
    <3> QED BY <3>3, <3>4
  <2> QED BY <2>1, <2>2, <2>3 DEF Known
<1>11. \A a, b \in Known' : Apart(a, b)
  <2>1. CASE answer.op = "append"
    BY <1>10, <2>1, ApartStays
  <2>2. CASE answer.op # "append"
    BY <1>10, <2>2 DEF AckInv
  <2> QED BY <2>1, <2>2
<1>12. \A a \in acked' : Held(disk', a)
  BY <1>1 DEF AckInv
<1> QED BY <1>1, <1>2, <1>3, <1>4, <1>5, <1>6, <1>9, <1>11, <1>12 DEF AckInv

LEMMA AnsweredKeeps ==
    ASSUME AckInv, NEW A, Answered(A), \A a \in A : Held(disk, a) /\ (a.op = "append" => a \in Known)
    PROVE  AckInv'
<1>1. mem' = mem /\ disk' = disk /\ client' = client /\ acked' = acked \cup A
  BY DEF Answered
<1>2. Flushing' = Flushing
  BY <1>1 DEF Flushing
<1>3. Known' \subseteq Known
  BY <1>1, <1>2 DEF Known
<1>4. \A a, b \in Known' : Apart(a, b)
  BY <1>3 DEF AckInv
<1>5. \A a \in acked' : Held(disk', a)
  BY <1>1 DEF AckInv
<1> QED BY <1>1, <1>2, <1>4, <1>5 DEF AckInv

LEMMA NothingAnswered ==
    ASSUME AckInv, Answered({})
    PROVE  AckInv'
BY AnsweredKeeps

\* A batch that gives no append an answer and adds no record.
LEMMA PlainWritten ==
    ASSUME AckInv, NEW c \in Client, client[c] = Idle, NEW store, NEW answer, Written(c, store, answer),
           Version(mem, store), SameKeys(mem, store), Held(store, answer), answer.op # "append"
    PROVE  AckInv'
<1>1. \A ch \in Chain : \A k \in DOMAIN store.idem[ch] :
         k \in DOMAIN mem.idem[ch] \/ (k # NoKey /\ RecordAnswer(store, ch, k) = answer)
  BY DEF SameKeys
<1> QED BY <1>1, WrittenKeeps

LEMMA CreateAcks ==
    ASSUME AckInv, StoresInv, NEW c \in Client, create_chain(c)
    PROVE  AckInv'
<1>1. client[c] = Idle /\ Shape(mem) /\ Maps(mem) /\ ChainInv(mem)
  BY DEF create_chain, Calls, StoresInv, StoreInv, AckInv
<1>2. PICK ch \in Chain, mode \in {"verified", "plain"} :
         IF mem.mode[ch] # "none" THEN Answered({})
         ELSE Written(c, [mem EXCEPT !.mode[ch] = mode], [op |-> "create"])
  BY DEF create_chain
<1>3. CASE mem.mode[ch] # "none"
  BY <1>2, <1>3, NothingAnswered
<1>4. CASE mem.mode[ch] = "none"
  <2>1. PICK store, answer, md : /\ store = [mem EXCEPT !.mode[ch] = mode] /\ answer = [op |-> "create"]
                                 /\ md = [mem.mode EXCEPT ![ch] = mode]
    OBVIOUS
  <2>2. store = [mem EXCEPT !.mode = md]
    BY <2>1
  <2>3. /\ store.mode = md /\ store.seq = mem.seq /\ store.entries = mem.entries
        /\ store.deleted = mem.deleted /\ store.idem = mem.idem /\ store.ledger = mem.ledger
    BY <1>1, <2>2 DEF Shape
  <2>4. md = [x \in Chain |-> md[x]] /\ \A x \in Chain : md[x] # "plain" => mem.mode[x] # "plain"
    BY <1>1, <1>4, <2>1 DEF Maps
  <2>5. Version(mem, store) /\ SameKeys(mem, store)
    <3>1. \A x \in Chain : verified(store, x) => verified(mem, x)
      BY <2>3, <2>4 DEF verified
    <3> QED BY <1>1, <2>3, <2>4, <3>1, SameChains
  <2>6. answer.op = "create"
    BY <2>1
  <2>7. Held(store, answer)
    BY <2>6 DEF Held, Kept
  <2>8. Written(c, store, answer)
    BY <1>2, <1>4, <2>1
  <2> QED BY <1>1, <2>5, <2>6, <2>7, <2>8, PlainWritten
<1> QED BY <1>3, <1>4

LEMMA ReplayAcks ==
    ASSUME AckInv, TrustUnflushed = FALSE, NEW call, call.chain \in Chain, call.key \in DOMAIN mem.idem[call.chain], Replay(call)
    PROVE  AckInv'
<1>1. PICK ch, k, rec : ch = call.chain /\ k = call.key /\ rec = mem.idem[ch][k]
  OBVIOUS
<1>2. CASE rec.fingerprint = call.entries /\ k \in DOMAIN disk.idem[ch] /\ disk.idem[ch][k] = rec
  <2>1. PICK a : a = AppendAnswer(call, rec.base)
    OBVIOUS
  <2>2. Answered({a})
    BY <1>1, <1>2, <2>1 DEF Replay
  <2>3. a = RecordAnswer(disk, ch, k) /\ a = RecordAnswer(mem, ch, k)
    BY <1>1, <1>2, <2>1 DEF AppendAnswer, RecordAnswer
  <2>4. Held(disk, a)
    BY <1>1, <1>2, <2>3 DEF AckInv, Records
  <2>5. a \in Known
    BY <1>1, <2>3 DEF Known
  <2> QED BY <2>2, <2>4, <2>5, AnsweredKeeps
<1>3. CASE ~(rec.fingerprint = call.entries /\ k \in DOMAIN disk.idem[ch] /\ disk.idem[ch][k] = rec)
  <2>1. Answered({})
    BY <1>1, <1>3 DEF Replay
  <2> QED BY <2>1, NothingAnswered
<1> QED BY <1>2, <1>3

LEMMA AppendAcks ==
    ASSUME AckInv, StoresInv, TrustUnflushed = FALSE, NEW c \in Client, append(c)
    PROVE  AckInv'
<1>1. client[c] = Idle /\ Shape(mem) /\ Maps(mem) /\ ChainInv(mem)
  BY DEF append, StoresInv, StoreInv, AckInv
<1>2. PICK body \in Appends :
        LET call == [chain |-> body.chain, entries |-> entries_of(body.events), key |-> body.key] IN
        IF ~ entries_ok(body.events) \/ body.events = <<>> THEN Answered({})
        ELSE IF call.key # NoKey /\ call.key \in DOMAIN mem.idem[call.chain] THEN Replay(call)
        ELSE Written(c, append_batch(mem, call), AppendAnswer(call, mem.seq[call.chain]))
  BY Zenon DEF append
<1>3. PICK call : call = [chain |-> body.chain, entries |-> entries_of(body.events), key |-> body.key]
  OBVIOUS
<1>4. \/ Answered({})
      \/ call.key # NoKey /\ call.key \in DOMAIN mem.idem[call.chain] /\ Replay(call)
      \/ /\ ~(call.key # NoKey /\ call.key \in DOMAIN mem.idem[call.chain])
         /\ Written(c, append_batch(mem, call), AppendAnswer(call, mem.seq[call.chain]))
  BY <1>2, <1>3, Zenon
<1>5. call.chain = body.chain /\ call.entries = entries_of(body.events)
  BY <1>3
<1>6. call.chain \in Chain /\ CallOK(call.entries)
  BY <1>5, CallsOK
<1>7. DOMAIN call.entries = 1..Len(call.entries)
  <2>1. PICK xs, es : xs = body.events /\ es = call.entries
    OBVIOUS
  <2>2. IsList(xs)
    BY <2>1, EvidenceAssumption
  <2>3. DOMAIN es = DOMAIN xs /\ es = [i \in DOMAIN es |-> es[i]]
    BY <1>5, <2>1 DEF entries_of
  <2>4. DOMAIN xs = 1..Len(xs) /\ Len(es) = Len(xs)
    BY <2>2, <2>3, ListOf
  <2> QED BY <2>1, <2>3, <2>4
<1>8. CASE Answered({})
  BY <1>8, NothingAnswered
<1>9. CASE call.key \in DOMAIN mem.idem[call.chain] /\ Replay(call)
  BY <1>6, <1>9, ReplayAcks
<1>10. CASE /\ ~(call.key # NoKey /\ call.key \in DOMAIN mem.idem[call.chain])
            /\ Written(c, append_batch(mem, call), AppendAnswer(call, mem.seq[call.chain]))
  <2>1. PICK store, answer : store = append_batch(mem, call) /\ answer = AppendAnswer(call, mem.seq[call.chain])
    OBVIOUS
  <2>2. call.key = NoKey \/ call.key \notin DOMAIN mem.idem[call.chain]
    BY <1>10
  <2>3. Version(mem, store) /\ KeysAfter(mem, store, call) /\ Held(store, answer)
    BY <1>1, <1>6, <1>7, <2>1, <2>2, AppendedVersion
  <2>4. /\ answer = [op |-> "append", chain |-> call.chain, key |-> call.key, base |-> mem.seq[call.chain], entries |-> call.entries]
        /\ answer.chain = call.chain /\ answer.base = mem.seq[call.chain]
    BY <2>1 DEF AppendAnswer
  <2>5. ASSUME NEW ch \in Chain, NEW k \in DOMAIN store.idem[ch]
        PROVE  k \in DOMAIN mem.idem[ch] \/ (k # NoKey /\ RecordAnswer(store, ch, k) = answer)
    <3>1. k \in DOMAIN mem.idem[ch]
          \/ (ch = call.chain /\ k = call.key /\ k # NoKey /\ store.idem[ch][k] = idem_record(mem, call))
      BY <2>3 DEF KeysAfter
    <3>2. CASE ch = call.chain /\ k = call.key /\ k # NoKey /\ store.idem[ch][k] = idem_record(mem, call)
      BY <2>4, <3>2 DEF RecordAnswer, idem_record
    <3> QED BY <3>1, <3>2
  <2>6. ASSUME NEW b \in Known PROVE Apart(answer, b) /\ Apart(b, answer)
    <3>1. HoldsAppend(mem, b)
      BY KnownHeld
    <3>2. /\ b.base \in Nat /\ Len(b.entries) \in Nat /\ b.chain \in Chain
          /\ b.base + Len(b.entries) <= mem.seq[b.chain] /\ mem.seq[b.chain] \in Nat
      BY <1>1, <3>1 DEF HoldsAppend, IsAppendAnswer, Maps
    <3>3. b.chain = answer.chain => \A x : ~(x \in Range1(b) /\ x \in Range1(answer))
      <4>1. answer.base \in Nat
        BY <1>1, <1>6, <2>4 DEF Maps
      <4>2. b.chain = answer.chain => b.base + Len(b.entries) <= answer.base
        BY <2>4, <3>2
      <4> QED BY <3>2, <4>1, <4>2 DEF Range1
    <3> QED BY <3>3 DEF Apart
  <2>7. Written(c, store, answer)
    BY <1>10, <2>1
  <2> QED BY <1>1, <2>3, <2>5, <2>6, <2>7, WrittenKeeps
<1> QED BY <1>4, <1>8, <1>9, <1>10

LEMMA RedactAcks ==
    ASSUME AckInv, StoresInv, NEW c \in Client, redact(c)
    PROVE  AckInv'
<1>1. client[c] = Idle /\ Shape(mem) /\ Maps(mem) /\ ChainInv(mem)
  BY DEF redact, Calls, StoresInv, StoreInv, AckInv
<1>2. CASE Answered({})
  BY <1>2, NothingAnswered
<1>3. ASSUME NEW ch \in Chain, NEW seq \in DOMAIN mem.entries[ch],
             Written(c, redacted_entry(mem, ch, seq), [op |-> "redact", chain |-> ch, seq |-> seq])
      PROVE  AckInv'
  <2>1. PICK store, answer : store = redacted_entry(mem, ch, seq) /\ answer = [op |-> "redact", chain |-> ch, seq |-> seq]
    OBVIOUS
  <2>2. Version(mem, store) /\ SameKeys(mem, store) /\ Held(store, answer)
    BY <1>1, <2>1, RedactedVersion
  <2>3. answer.op # "append" /\ Written(c, store, answer)
    BY <1>3, <2>1
  <2> QED BY <1>1, <2>2, <2>3, PlainWritten
<1> QED BY <1>2, <1>3 DEF redact

LEMMA HardDeleteAcks ==
    ASSUME AckInv, StoresInv, NEW c \in Client, hard_delete(c)
    PROVE  AckInv'
<1>1. client[c] = Idle /\ Shape(mem) /\ Maps(mem) /\ ChainInv(mem)
  BY DEF hard_delete, Calls, StoresInv, StoreInv, AckInv
<1>2. CASE Answered({})
  BY <1>2, NothingAnswered
<1>3. ASSUME NEW ch \in Chain, NEW seq \in DOMAIN mem.entries[ch], NEW retract_edges \in BOOLEAN,
             Written(c, hard_deleted(mem, ch, seq, retract_edges), [op |-> "delete", chain |-> ch, seq |-> seq])
      PROVE  AckInv'
  <2>1. PICK store, answer : /\ store = hard_deleted(mem, ch, seq, retract_edges)
                             /\ answer = [op |-> "delete", chain |-> ch, seq |-> seq]
    OBVIOUS
  <2>2. Version(mem, store) /\ SameKeys(mem, store) /\ Held(store, answer)
    BY <1>1, <2>1, DeletedVersion
  <2>3. answer.op # "append" /\ Written(c, store, answer)
    BY <1>3, <2>1
  <2> QED BY <1>1, <2>2, <2>3, PlainWritten
<1> QED BY <1>2, <1>3 DEF hard_delete

\* A change of the graph alone.
LEMMA GraphWritten ==
    ASSUME AckInv, StoresInv, NEW c \in Client, client[c] = Idle, NEW g, NEW ed, NEW answer,
           Written(c, [mem EXCEPT !.graph = g, !.edited = ed], answer), answer.op \in {"mutate", "drop"}
    PROVE  AckInv'
<1>1. Shape(mem) /\ Maps(mem) /\ ChainInv(mem)
  BY DEF StoresInv, StoreInv, AckInv
<1>2. PICK store : store = [mem EXCEPT !.graph = g, !.edited = ed]
  OBVIOUS
<1>3. /\ store.mode = mem.mode /\ store.seq = mem.seq /\ store.entries = mem.entries
      /\ store.deleted = mem.deleted /\ store.idem = mem.idem /\ store.ledger = mem.ledger
  BY <1>1, <1>2 DEF Shape
<1>4. Version(mem, store) /\ SameKeys(mem, store)
  <2>1. \A x \in Chain : verified(store, x) => verified(mem, x)
    BY <1>3 DEF verified
  <2>2. store.mode = [x \in Chain |-> store.mode[x]]
    BY <1>1, <1>3 DEF Maps
  <2> QED BY <1>1, <1>3, <2>1, <2>2, SameChains
<1>5. Held(store, answer)
  BY DEF Held, Kept
<1> QED BY <1>2, <1>4, <1>5, PlainWritten

LEMMA MutateAcks ==
    ASSUME AckInv, StoresInv, NEW c \in Client, mutate(c)
    PROVE  AckInv'
<1>1. client[c] = Idle
  BY DEF mutate, Calls
<1>2. \/ Answered({})
      \/ \E g, ed : Written(c, [mem EXCEPT !.graph = g, !.edited = ed], [op |-> "mutate"])
  BY Zenon DEF mutate
<1>3. CASE Answered({})
  BY <1>3, NothingAnswered
<1>4. ASSUME NEW g, NEW ed, Written(c, [mem EXCEPT !.graph = g, !.edited = ed], [op |-> "mutate"])
      PROVE  AckInv'
  <2>1. PICK answer : answer = [op |-> "mutate"]
    OBVIOUS
  <2>2. Written(c, [mem EXCEPT !.graph = g, !.edited = ed], answer) /\ answer.op \in {"mutate", "drop"}
    BY <1>4, <2>1
  <2> QED BY <1>1, <2>2, GraphWritten
<1> QED BY <1>2, <1>3, <1>4

LEMMA DropAcks ==
    ASSUME AckInv, StoresInv, NEW c \in Client, drop(c)
    PROVE  AckInv'
<1>1. client[c] = Idle
  BY DEF drop, Calls
<1>2. PICK g, ed : Written(c, [mem EXCEPT !.graph = g, !.edited = ed], [op |-> "drop"])
  BY Zenon DEF drop
<1>3. PICK answer : answer = [op |-> "drop"]
  OBVIOUS
<1>4. Written(c, [mem EXCEPT !.graph = g, !.edited = ed], answer) /\ answer.op \in {"mutate", "drop"}
  BY <1>2, <1>3
<1> QED BY <1>1, <1>4, GraphWritten

\* The answer of an apply is what the ledger then says.
LEMMA ApplyHeld ==
    ASSUME NEW s, NEW after, NEW batch, batch \subseteq DOMAIN after, NEW a, a = [op |-> "apply", results |-> Restrict(after, batch)],
           \A id \in batch : id \in DOMAIN s.ledger /\ s.ledger[id] = after[id]
    PROVE  Held(s, a) /\ a.op = "apply"
<1>1. a.op = "apply" /\ a.results = Restrict(after, batch)
  OBVIOUS
<1>2. PICK r : r = Restrict(after, batch)
  OBVIOUS
<1>3. DOMAIN r = batch /\ \A id \in batch : r[id] = after[id]
  BY <1>2 DEF Restrict
<1>4. \A id \in DOMAIN a.results : id \in DOMAIN s.ledger /\ s.ledger[id] = a.results[id]
  BY <1>1, <1>2, <1>3
<1> QED BY <1>1, <1>4 DEF Held, Kept

LEMMA ApplyAcks ==
    ASSUME AckInv, StoresInv, TrustUnflushed = FALSE, NEW c \in Client, apply(c)
    PROVE  AckInv'
<1>1. client[c] = Idle /\ Shape(mem) /\ Maps(mem) /\ ChainInv(mem) /\ Later(disk, mem)
  BY DEF apply, StoresInv, StoreInv, AckInv
<1>2. PICK batch, outcome :
        LET after == [id \in DOMAIN mem.ledger \cup batch |-> IF id \in DOMAIN mem.ledger THEN mem.ledger[id] ELSE outcome[id]]
            answer == [op |-> "apply", results |-> Restrict(after, batch)]
        IN  IF batch \subseteq DOMAIN mem.ledger
            THEN Answered(IF batch \subseteq DOMAIN disk.ledger \/ TrustUnflushed THEN {answer} ELSE {})
            ELSE Written(c, [mem EXCEPT !.ledger = after], answer)
  BY Zenon DEF apply
<1>3. PICK after : after = [id \in DOMAIN mem.ledger \cup batch |-> IF id \in DOMAIN mem.ledger THEN mem.ledger[id] ELSE outcome[id]]
  OBVIOUS
<1>4. PICK answer : answer = [op |-> "apply", results |-> Restrict(after, batch)]
  OBVIOUS
<1>5. IF batch \subseteq DOMAIN mem.ledger
      THEN Answered(IF batch \subseteq DOMAIN disk.ledger \/ TrustUnflushed THEN {answer} ELSE {})
      ELSE Written(c, [mem EXCEPT !.ledger = after], answer)
  BY <1>2, <1>3, <1>4, Zenon
<1>6. /\ DOMAIN after = DOMAIN mem.ledger \cup batch /\ batch \subseteq DOMAIN after
      /\ \A id \in DOMAIN mem.ledger : after[id] = mem.ledger[id]
  BY <1>3
<1>7. CASE batch \subseteq DOMAIN mem.ledger /\ batch \subseteq DOMAIN disk.ledger
  <2>1. Answered({answer})
    BY <1>5, <1>7
  <2>2. \A id \in batch : id \in DOMAIN disk.ledger /\ disk.ledger[id] = after[id]
    BY <1>1, <1>6, <1>7 DEF Later
  <2>3. Held(disk, answer) /\ answer.op = "apply"
    <3>1. PICK s : s = disk
      OBVIOUS
    <3>2. batch \subseteq DOMAIN after
      BY <1>6
    <3>3. \A id \in batch : id \in DOMAIN s.ledger /\ s.ledger[id] = after[id]
      BY <2>2, <3>1
    <3>4. Held(s, answer) /\ answer.op = "apply"
      BY <1>4, <3>2, <3>3, ApplyHeld, Zenon
    <3> QED BY <3>1, <3>4, Zenon
  <2> QED BY <2>1, <2>3, AnsweredKeeps
<1>8. CASE batch \subseteq DOMAIN mem.ledger /\ ~(batch \subseteq DOMAIN disk.ledger)
  <2>1. Answered({})
    BY <1>5, <1>8
  <2> QED BY <2>1, NothingAnswered
<1>9. CASE ~(batch \subseteq DOMAIN mem.ledger)
  <2>1. PICK store : store = [mem EXCEPT !.ledger = after]
    OBVIOUS
  <2>2. Written(c, store, answer)
    BY <1>5, <1>9, <2>1
  <2>3. /\ store.mode = mem.mode /\ store.seq = mem.seq /\ store.entries = mem.entries
        /\ store.deleted = mem.deleted /\ store.idem = mem.idem /\ store.ledger = after
    BY <1>1, <2>1 DEF Shape
  <2>4. Version(mem, store) /\ SameKeys(mem, store)
    <3>1. \A x \in Chain : verified(store, x) => verified(mem, x)
      BY <2>3 DEF verified
    <3>2. store.mode = [x \in Chain |-> store.mode[x]]
      BY <1>1, <2>3 DEF Maps
    <3>3. \A id \in DOMAIN mem.ledger : id \in DOMAIN store.ledger /\ store.ledger[id] = mem.ledger[id]
      BY <1>6, <2>3
    <3> QED BY <1>1, <2>3, <3>1, <3>2, <3>3, SameChains
  <2>5. Held(store, answer) /\ answer.op = "apply"
    BY <1>4, <1>6, <2>3, ApplyHeld
  <2> QED BY <1>1, <2>2, <2>4, <2>5, PlainWritten
<1> QED BY <1>7, <1>8, <1>9

LEMMA SignAcks ==
    ASSUME AckInv, NEW c \in Client, digest_signed(c)
    PROVE  AckInv'
<1>1. PICK ch, A : Answered(A) /\ \A a \in A : a = [op |-> "sign", chain |-> ch, digest |-> digest(mem, ch),
                                                    durable |-> mem.frontier[ch] = disk.frontier[ch]]
  BY DEF digest_signed
<1>2. \A a \in A : a.op = "sign"
  BY <1>1
<1>3. \A a \in A : Held(disk, a)
  BY <1>2 DEF Held, Kept
<1> QED BY <1>1, <1>2, <1>3, AnsweredKeeps

\* A store is a later version of itself.
LEMMA LaterSelf ==
    ASSUME NEW s, Maps(s)
    PROVE  Later(s, s)
<1>1. \A x : EntryLater(x, x)
  BY DEF EntryLater
<1>2. \A c \in Chain : s.seq[c] <= s.seq[c]
  BY DEF Maps
<1> QED BY <1>1, <1>2 DEF Later

LEMMA FlushAcks ==
    ASSUME AckInv, NEW c \in Client, flush(c)
    PROVE  AckInv'
<1>1. /\ client[c].pc = "flush" /\ disk' = mem /\ mem' = mem /\ acked' = acked \cup {client[c].answer}
      /\ client' = [client EXCEPT ![c] = Idle]
  BY DEF flush
<1>2. Maps(mem) /\ ChainInv(mem) /\ Records(mem) /\ client = [x \in Client |-> client[x]]
  BY DEF AckInv
<1>3. c \in Flushing
  BY <1>1 DEF Flushing
<1>4. \A a \in acked : Held(mem, a)
  BY HeldLater DEF AckInv
<1>5. \A a \in acked' : Held(mem, a)
  BY <1>1, <1>3, <1>4 DEF AckInv
<1>6. /\ client' = [x \in Client |-> client'[x]] /\ client'[c] = Idle
      /\ \A x \in Client : x # c => client'[x] = client[x]
  BY <1>1, <1>2
<1>7. \A x \in Flushing' : x \in Flushing /\ client'[x] = client[x]
  BY <1>6 DEF Flushing, Idle
<1>8. Known' \subseteq Known
  BY <1>1, <1>3, <1>7 DEF Known
<1>9. \A a, b \in Known' : Apart(a, b)
  BY <1>8 DEF AckInv
<1>10. \A x \in Flushing' : Held(mem, client'[x].answer)
  BY <1>7 DEF AckInv
<1>11. Later(mem, mem)
  BY <1>2, LaterSelf
<1> QED BY <1>1, <1>2, <1>5, <1>6, <1>9, <1>10, <1>11 DEF AckInv

LEMMA FailAcks ==
    ASSUME AckInv, NEW c \in Client, fail(c)
    PROVE  AckInv'
<1>1. disk' = disk /\ mem' = mem /\ acked' = acked /\ client' = [client EXCEPT ![c] = Idle]
  BY DEF fail
<1>2. client = [x \in Client |-> client[x]]
  BY DEF AckInv
<1>3. /\ client' = [x \in Client |-> client'[x]] /\ client'[c] = Idle
      /\ \A x \in Client : x # c => client'[x] = client[x]
  BY <1>1, <1>2
<1>4. \A x \in Flushing' : x \in Flushing /\ client'[x] = client[x]
  BY <1>3 DEF Flushing, Idle
<1>5. Known' \subseteq Known
  BY <1>1, <1>4 DEF Known
<1>6. \A a, b \in Known' : Apart(a, b)
  BY <1>5 DEF AckInv
<1>7. \A x \in Flushing' : Held(mem, client'[x].answer)
  BY <1>4 DEF AckInv
<1> QED BY <1>1, <1>3, <1>6, <1>7 DEF AckInv

LEMMA BackgroundFlushAcks ==
    ASSUME AckInv, background_flush
    PROVE  AckInv'
<1>1. disk' = mem /\ mem' = mem /\ acked' = acked /\ client' = client
  BY DEF background_flush
<1>2. Flushing' = Flushing /\ Known' = Known
  BY <1>1 DEF Flushing, Known
<1>3. \A a \in acked : Held(mem, a)
  BY HeldLater DEF AckInv
<1>4. Later(mem, mem)
  BY LaterSelf DEF AckInv
<1> QED BY <1>1, <1>2, <1>3, <1>4 DEF AckInv

LEMMA CrashAcks ==
    ASSUME AckInv, crash
    PROVE  AckInv'
<1>1. disk' = disk /\ mem' = disk /\ acked' = acked /\ client' = [c \in Client |-> Idle]
  BY DEF crash
<1>2. Flushing' = {}
  BY <1>1 DEF Flushing, Idle
<1>3. Later(disk, mem) /\ Maps(disk)
  BY DEF AckInv
<1>4. ASSUME NEW a \in Known' PROVE a \in Known
  <2>1. CASE a \in acked' /\ a.op = "append"
    BY <1>1, <2>1 DEF Known
  <2>2. CASE \E ch \in Chain : \E k \in DOMAIN mem'.idem[ch] : a = RecordAnswer(mem', ch, k)
    <3>1. PICK ch \in Chain : \E k \in DOMAIN disk.idem[ch] : a = RecordAnswer(disk, ch, k)
      BY <1>1, <2>2
    <3>2. PICK k \in DOMAIN disk.idem[ch] : a = RecordAnswer(disk, ch, k)
      BY <3>1
    <3>3. k \in DOMAIN mem.idem[ch] /\ a = RecordAnswer(mem, ch, k)
      BY <1>3, <3>2, RecordLater
    <3> QED BY <3>3 DEF Known
  <2> QED BY <1>2, <2>1, <2>2 DEF Known
<1>5. \A a, b \in Known' : Apart(a, b)
  BY <1>4 DEF AckInv
<1>6. Later(disk, disk)
  BY <1>3, LaterSelf
<1>7. client' = [c \in Client |-> client'[c]]
  BY <1>1
<1> QED BY <1>1, <1>2, <1>5, <1>6, <1>7 DEF AckInv

LEMMA AckInit == Init => AckInv
<1> SUFFICES ASSUME Init PROVE AckInv
  OBVIOUS
<1>1. PICK plain : mem = [EmptyStore EXCEPT !.mode = [c \in Chain |-> IF c \in plain THEN "plain" ELSE "none"]]
  BY DEF Init
<1>2. PICK m : m = [c \in Chain |-> IF c \in plain THEN "plain" ELSE "none"]
  OBVIOUS
<1>3. mem = [mode |-> m, seq |-> [c \in Chain |-> 0], entries |-> [c \in Chain |-> <<>>],
             frontier |-> [c \in Chain |-> EmptyFrontier], nodes |-> [c \in Chain |-> <<>>],
             idem |-> [c \in Chain |-> <<>>], graph |-> EmptyGraph,
             ledger |-> <<>>, deleted |-> [c \in Chain |-> {}], edited |-> {}]
  BY <1>1, <1>2 DEF EmptyStore
<1>4. Maps(mem)
  BY <1>2, <1>3 DEF Maps
<1>5. \A c \in Chain : mem.seq[c] = 0 /\ DOMAIN mem.entries[c] = {} /\ mem.deleted[c] = {} /\ DOMAIN mem.idem[c] = {}
  BY <1>3
<1>6. ChainInv(mem) /\ Records(mem)
  BY <1>5 DEF ChainInv, Records
<1>7. disk = mem /\ acked = {} /\ client = [c \in Client |-> Idle]
  BY DEF Init
<1>8. Flushing = {}
  BY <1>7 DEF Flushing, Idle
<1>9. Known = {}
  BY <1>5, <1>7, <1>8 DEF Known
<1>10. Later(mem, mem)
  BY <1>4, LaterSelf
<1> QED BY <1>4, <1>6, <1>7, <1>8, <1>9, <1>10 DEF AckInv

LEMMA AckStep ==
    ASSUME TrustUnflushed = FALSE
    PROVE  AckInv /\ StoresInv /\ [Next]_vars => AckInv'
<1> SUFFICES ASSUME AckInv, StoresInv, [Next]_vars PROVE AckInv'
  OBVIOUS
<1>1. CASE UNCHANGED vars
  <2>1. Flushing' = Flushing /\ Known' = Known
    BY <1>1 DEF vars, Flushing, Known
  <2> QED BY <1>1, <2>1 DEF vars, AckInv
<1> QED BY <1>1, CreateAcks, AppendAcks, RedactAcks, HardDeleteAcks, MutateAcks, DropAcks, ApplyAcks, SignAcks,
           FlushAcks, FailAcks, BackgroundFlushAcks, CrashAcks DEF Next

LEMMA AckInvKeeps == AckInv => AcknowledgedKept
<1> SUFFICES ASSUME AckInv PROVE AcknowledgedKept
  OBVIOUS
<1>1. \A a \in acked : Held(disk, a) /\ Held(mem, a)
  BY HeldLater DEF AckInv
<1>2. \A a \in acked : Kept(disk, a) /\ Kept(mem, a)
  BY <1>1 DEF Held
<1>3. \A ch \in Chain : /\ DOMAIN mem.entries[ch] = 1..mem.seq[ch] \ mem.deleted[ch]
                        /\ DOMAIN disk.entries[ch] = 1..disk.seq[ch] \ disk.deleted[ch]
  BY DEF AckInv, ChainInv
<1>4. ASSUME NEW a \in acked, NEW b \in acked, a.op = "append", b.op = "append" PROVE AnsweredOnce(a, b)
  <2>1. Apart(a, b)
    BY <1>4 DEF AckInv, Known
  <2>2. HoldsAppend(disk, a) /\ HoldsAppend(disk, b)
    BY <1>1, <1>4 DEF Held
  <2>3. a.chain = b.chain /\ a.key = b.key /\ a.key # NoKey => a = b
    BY <2>2 DEF HoldsAppend
  <2> QED BY <2>1, <2>3 DEF AnsweredOnce, Apart
<1> QED BY <1>2, <1>3, <1>4 DEF AcknowledgedKept

\* Whatever fails or restarts, what was acknowledged of appends, redactions,
\* deletes and ledger applies stays, and two appends share their seqs only if
\* they are one (chain.rs: append, redact, hard_delete; ledger.rs:
\* create_transfers), as long as no answer is given from what is not durable.
THEOREM AcknowledgedStays == (TrustUnflushed = FALSE) => (Spec => []AcknowledgedKept)
<1> SUFFICES ASSUME TrustUnflushed = FALSE PROVE Spec => []AcknowledgedKept
  OBVIOUS
<1>1. Init => AckInv /\ StoresInv
  BY AckInit, StoresInit
<1>2. AckInv /\ StoresInv /\ [Next]_vars => (AckInv /\ StoresInv)'
  BY AckStep, StoresStep
<1>3. AckInv => AcknowledgedKept
  BY AckInvKeeps
<1> QED BY <1>1, <1>2, <1>3, PTL DEF Spec

=============================================================================
