------------------------ MODULE LedgerBalanceProofs -------------------------
(***************************************************************************)
(* Double entry, for every history: each bucket of each account is the sum *)
(* of the recorded transfers that belong in it.                            *)
(*                                                                         *)
(* The sum is the community modules' fold over a finite set, whose         *)
(* recursive function has to be shown to exist before anything is known of *)
(* it.  Section 1 does so, and shows that the order of the fold does not   *)
(* matter; each induction is on the size of the set and is written as the  *)
(* impossibility of a least counterexample (LeastNatural).                 *)
(***************************************************************************)
EXTENDS LedgerHistoryProofs

-----------------------------------------------------------------------------
(* 1. Sums over finite sets.                                               *)

\* What the transfers of f named by S amount to.
Amounts(f, S) == MapThenSumSet(LAMBDA i : f[i].amount, S)

First(s) == CHOOSE x \in s : TRUE

Rest(s) == s \ {First(s)}

Summed(g, f, s) == IF s = {} THEN 0 ELSE f[First(s)].amount + g[Rest(s)]

\* g is the function MapThenFoldSet defines over the subsets of S.
IsFold(g, f, S) == g = [s \in SUBSET S |-> Summed(g, f, s)]

LEMMA AmountsIsFold ==
    ASSUME NEW f, NEW S
    PROVE  Amounts(f, S) = (CHOOSE g : IsFold(g, f, S))[S]
BY DEF Amounts, MapThenSumSet, MapThenFoldSet, IsFold, Summed, First, Rest

LEMMA RestSmaller ==
    ASSUME NEW s, IsFiniteSet(s), s # {}
    PROVE  /\ First(s) \in s /\ Rest(s) \subseteq s /\ IsFiniteSet(Rest(s))
           /\ Cardinality(s) \in Nat \ {0} /\ Cardinality(Rest(s)) = Cardinality(s) - 1
<1>1. First(s) \in s
  BY DEF First
<1>2. Cardinality(s) \in Nat /\ Cardinality(s) # 0
  BY FS_CardinalityType, FS_EmptySet
<1>3. IsFiniteSet(Rest(s)) /\ Cardinality(Rest(s)) = Cardinality(s) - 1
  BY <1>1, FS_RemoveElement DEF Rest
<1> QED BY <1>1, <1>2, <1>3 DEF Rest

UpTo(S, n) == {s \in SUBSET S : Cardinality(s) <= n}

\* The fold, as far as the subsets of n elements.
FoldUpTo(g, f, S, n) ==
    /\ DOMAIN g = UpTo(S, n)
    /\ \A s \in UpTo(S, n) : g[s] = Summed(g, f, s)

LEMMA FoldStarts ==
    ASSUME NEW f, NEW S, IsFiniteSet(S)
    PROVE  \E g : FoldUpTo(g, f, S, 0)
<1> DEFINE g == [s \in UpTo(S, 0) |-> 0]
<1>1. ASSUME NEW s \in UpTo(S, 0) PROVE s = {}
  <2>1. s \in SUBSET S /\ Cardinality(s) <= 0
    BY DEF UpTo
  <2>2. IsFiniteSet(s)
    BY <2>1, FS_Subset
  <2>3. Cardinality(s) \in Nat
    BY <2>2, FS_CardinalityType
  <2> QED BY <2>1, <2>2, <2>3, FS_EmptySet
<1>2. FoldUpTo(g, f, S, 0)
  BY <1>1 DEF FoldUpTo, Summed
<1> QED BY <1>2

LEMMA FoldGoesOn ==
    ASSUME NEW f, NEW S, IsFiniteSet(S), NEW n \in Nat, NEW g, FoldUpTo(g, f, S, n)
    PROVE  \E h : FoldUpTo(h, f, S, n + 1)
<1>1. PICK h : h = [s \in UpTo(S, n + 1) |-> Summed(g, f, s)]
  OBVIOUS
<1>2. DOMAIN h = UpTo(S, n + 1)
  BY <1>1
<1>3. ASSUME NEW s \in UpTo(S, n + 1) PROVE h[s] = Summed(h, f, s)
  <2>1. h[s] = Summed(g, f, s)
    BY <1>1
  <2>2. CASE s = {}
    BY <2>1, <2>2 DEF Summed
  <2>3. CASE s # {}
    <3>1. s \in SUBSET S /\ Cardinality(s) <= n + 1
      BY DEF UpTo
    <3>2. IsFiniteSet(s)
      BY <3>1, FS_Subset
    <3>3. /\ Rest(s) \subseteq s /\ Cardinality(s) \in Nat \ {0}
          /\ Cardinality(Rest(s)) = Cardinality(s) - 1
      BY <2>3, <3>2, RestSmaller
    <3>4. Cardinality(Rest(s)) <= n /\ Cardinality(Rest(s)) <= n + 1
      BY <3>1, <3>3
    <3>5. Rest(s) \in UpTo(S, n) /\ Rest(s) \in UpTo(S, n + 1)
      BY <3>1, <3>3, <3>4 DEF UpTo
    <3>6. h[Rest(s)] = g[Rest(s)]
      BY <1>1, <3>5 DEF FoldUpTo
    <3> QED BY <2>1, <3>6 DEF Summed
  <2> QED BY <2>2, <2>3
<1>4. FoldUpTo(h, f, S, n + 1)
  BY <1>2, <1>3 DEF FoldUpTo
<1> QED BY <1>4

LEMMA FoldReaches ==
    ASSUME NEW f, NEW S, IsFiniteSet(S), NEW n \in Nat
    PROVE  \E g : FoldUpTo(g, f, S, n)
<1> DEFINE T == {k \in Nat : ~\E g : FoldUpTo(g, f, S, k)}
<1>1. CASE T = {}
  BY <1>1
<1>2. CASE T # {}
  <2>1. T \subseteq Nat
    OBVIOUS
  <2> HIDE DEF T
  <2>2. PICK k \in T : \A m \in T : k <= m
    BY <1>2, <2>1, LeastNatural
  <2>3. k \in Nat /\ ~\E g : FoldUpTo(g, f, S, k)
    BY <2>2 DEF T
  <2>4. k # 0
    BY <2>3, FoldStarts
  <2>5. k - 1 \in Nat /\ ~(k <= k - 1) /\ (k - 1) + 1 = k
    BY <2>3, <2>4
  <2>6. k - 1 \notin T
    BY <2>2, <2>5
  <2>7. PICK g : FoldUpTo(g, f, S, k - 1)
    BY <2>5, <2>6 DEF T
  <2>8. \E h : FoldUpTo(h, f, S, (k - 1) + 1)
    BY <2>5, <2>7, FoldGoesOn
  <2> QED BY <2>3, <2>5, <2>8
<1> QED BY <1>1, <1>2

\* The recursive function of the fold exists.
LEMMA FoldExists ==
    ASSUME NEW f, NEW S, IsFiniteSet(S)
    PROVE  \E g : IsFold(g, f, S)
<1>1. Cardinality(S) \in Nat
  BY FS_CardinalityType
<1>2. UpTo(S, Cardinality(S)) = SUBSET S
  BY FS_Subset DEF UpTo
<1>3. PICK g : FoldUpTo(g, f, S, Cardinality(S))
  BY <1>1, FoldReaches
<1>4. PICK h : h = [s \in SUBSET S |-> g[s]]
  OBVIOUS
<1>5. ASSUME NEW s \in SUBSET S PROVE h[s] = Summed(h, f, s)
  <2>1. h[s] = Summed(g, f, s)
    BY <1>2, <1>3, <1>4 DEF FoldUpTo
  <2>2. Rest(s) \in SUBSET S
    BY DEF Rest
  <2>3. h[Rest(s)] = g[Rest(s)]
    BY <1>4, <2>2
  <2> QED BY <2>1, <2>3 DEF Summed
<1>6. h = [s \in SUBSET S |-> Summed(h, f, s)]
  BY <1>4, <1>5
<1> QED BY <1>6 DEF IsFold

\* Folds agree where the transfers they sum agree, whatever larger set each is
\* defined over.
LEMMA FoldsAgree ==
    ASSUME NEW f, NEW f2, NEW S, NEW S2, NEW g, NEW g2,
           IsFold(g, f, S), IsFold(g2, f2, S2),
           NEW s \in SUBSET S, s \subseteq S2, IsFiniteSet(s),
           \A i \in s : f[i].amount = f2[i].amount
    PROVE  g[s] = g2[s]
<1> DEFINE Bad(u) == u \subseteq s /\ g[u] # g2[u]
           T == {Cardinality(u) : u \in {v \in SUBSET s : Bad(v)}}
<1>1. CASE T = {}
  <2>1. ~Bad(s)
    BY <1>1
  <2> QED BY <2>1
<1>2. CASE T # {}
  <2>1. \A u \in SUBSET s : IsFiniteSet(u) /\ Cardinality(u) \in Nat
    BY FS_Subset, FS_CardinalityType
  <2>2. T \subseteq Nat
    BY <2>1
  <2>3. PICK n \in T : \A m \in T : n <= m
    <3> HIDE DEF T
    <3> QED BY <1>2, <2>2, LeastNatural
  <2>4. PICK u \in SUBSET s : Bad(u) /\ n = Cardinality(u)
    BY <2>3
  <2>5. g[u] = Summed(g, f, u) /\ g2[u] = Summed(g2, f2, u)
    <3>1. u \in SUBSET S /\ u \in SUBSET S2
      BY <2>4
    <3> QED BY <3>1 DEF IsFold
  <2>6. u # {}
    BY <2>4, <2>5 DEF Summed
  <2>7. /\ First(u) \in u /\ Rest(u) \in SUBSET s
        /\ n \in Nat \ {0} /\ Cardinality(Rest(u)) = n - 1
    BY <2>1, <2>4, <2>6, RestSmaller
  <2>8. ~(n <= Cardinality(Rest(u)))
    BY <2>7
  <2>9. Cardinality(Rest(u)) \notin T
    BY <2>3, <2>8
  <2>10. g[Rest(u)] = g2[Rest(u)]
    BY <2>7, <2>9
  <2>11. f[First(u)].amount = f2[First(u)].amount
    BY <2>7
  <2> QED BY <2>4, <2>5, <2>10, <2>11 DEF Summed
<1> QED BY <1>1, <1>2

LEMMA AmountsFold ==
    ASSUME NEW f, NEW S, IsFiniteSet(S)
    PROVE  \E g : IsFold(g, f, S) /\ Amounts(f, S) = g[S]
<1>1. PICK g : g = CHOOSE h : IsFold(h, f, S)
  OBVIOUS
<1>2. IsFold(g, f, S)
  BY <1>1, FoldExists
<1> QED BY <1>1, <1>2, AmountsIsFold

\* Only the amounts of the transfers summed matter.
LEMMA AmountsAgree ==
    ASSUME NEW f, NEW f2, NEW S, IsFiniteSet(S),
           \A i \in S : f[i].amount = f2[i].amount
    PROVE  Amounts(f, S) = Amounts(f2, S)
<1>1. PICK g : IsFold(g, f, S) /\ Amounts(f, S) = g[S]
  BY AmountsFold
<1>2. PICK h : IsFold(h, f2, S) /\ Amounts(f2, S) = h[S]
  BY AmountsFold
<1>3. S \in SUBSET S
  OBVIOUS
<1>4. g[S] = h[S]
  BY <1>1, <1>2, <1>3, FoldsAgree
<1> QED BY <1>1, <1>2, <1>4

LEMMA AmountsStep ==
    ASSUME NEW f, NEW S, IsFiniteSet(S)
    PROVE  /\ S = {} => Amounts(f, S) = 0
           /\ S # {} => Amounts(f, S) = f[First(S)].amount + Amounts(f, Rest(S))
<1>1. PICK g : IsFold(g, f, S) /\ Amounts(f, S) = g[S]
  BY AmountsFold
<1>2. g[S] = Summed(g, f, S)
  BY <1>1 DEF IsFold
<1>3. ASSUME S # {} PROVE g[Rest(S)] = Amounts(f, Rest(S))
  <2>1. IsFiniteSet(Rest(S)) /\ Rest(S) \in SUBSET S
    BY <1>3, RestSmaller
  <2>2. PICK h : IsFold(h, f, Rest(S)) /\ Amounts(f, Rest(S)) = h[Rest(S)]
    BY <2>1, AmountsFold
  <2>3. g[Rest(S)] = h[Rest(S)]
    BY <1>1, <2>1, <2>2, FoldsAgree
  <2> QED BY <2>2, <2>3
<1> QED BY <1>1, <1>2, <1>3 DEF Summed

Numbers(f, S) == IsFiniteSet(S) /\ \A i \in S : f[i].amount \in Nat

LEMMA AmountsNat ==
    ASSUME NEW f, NEW S, Numbers(f, S)
    PROVE  Amounts(f, S) \in Nat
<1> DEFINE T == {Cardinality(u) : u \in {v \in SUBSET S : Amounts(f, v) \notin Nat}}
<1>0. IsFiniteSet(S) /\ \A i \in S : f[i].amount \in Nat
  BY DEF Numbers
<1>1. CASE T = {}
  BY <1>1
<1>2. CASE T # {}
  <2>1. \A u \in SUBSET S : IsFiniteSet(u) /\ Cardinality(u) \in Nat
    BY <1>0, FS_Subset, FS_CardinalityType
  <2>2. T \subseteq Nat
    BY <2>1
  <2>3. PICK n \in T : \A m \in T : n <= m
    <3> HIDE DEF T
    <3> QED BY <1>2, <2>2, LeastNatural
  <2>4. PICK u \in SUBSET S : Amounts(f, u) \notin Nat /\ n = Cardinality(u)
    BY <2>3
  <2>5. u # {}
    <3>1. IsFiniteSet(u)
      BY <2>1
    <3>2. u = {} => Amounts(f, u) = 0
      BY <3>1, AmountsStep
    <3> QED BY <2>4, <3>2
  <2>6. /\ First(u) \in u /\ Rest(u) \in SUBSET S
        /\ n \in Nat \ {0} /\ Cardinality(Rest(u)) = n - 1
    BY <2>1, <2>4, <2>5, RestSmaller
  <2>7. ~(n <= Cardinality(Rest(u)))
    BY <2>6
  <2>8. Cardinality(Rest(u)) \notin T
    BY <2>3, <2>7
  <2>9. Amounts(f, Rest(u)) \in Nat /\ f[First(u)].amount \in Nat
    BY <1>0, <2>6, <2>8
  <2>10. Amounts(f, u) = f[First(u)].amount + Amounts(f, Rest(u))
    BY <2>1, <2>5, AmountsStep
  <2> QED BY <2>4, <2>9, <2>10
<1> QED BY <1>1, <1>2

LEMMA NumbersSubset ==
    ASSUME NEW f, NEW S, Numbers(f, S), NEW u \in SUBSET S
    PROVE  Numbers(f, u)
BY FS_Subset DEF Numbers

\* The order of the fold does not matter: any member may be taken first.
LEMMA AmountsTake ==
    ASSUME NEW f, NEW S, Numbers(f, S), NEW x \in S
    PROVE  Amounts(f, S) = f[x].amount + Amounts(f, S \ {x})
<1> DEFINE Good(u) == \A y \in u : Amounts(f, u) = f[y].amount + Amounts(f, u \ {y})
           T == {Cardinality(u) : u \in {v \in SUBSET S : ~Good(v)}}
<1>0. IsFiniteSet(S) /\ \A i \in S : f[i].amount \in Nat
  BY DEF Numbers
<1>1. CASE T = {}
  <2>1. Good(S)
    BY <1>1
  <2> QED BY <2>1
<1>2. CASE T # {}
  <2>1. \A u \in SUBSET S : IsFiniteSet(u) /\ Cardinality(u) \in Nat
    BY <1>0, FS_Subset, FS_CardinalityType
  <2>2. T \subseteq Nat
    BY <2>1
  <2>3. PICK n \in T : \A m \in T : n <= m
    <3> HIDE DEF T
    <3> QED BY <1>2, <2>2, LeastNatural
  <2>4. PICK u \in SUBSET S : ~Good(u) /\ n = Cardinality(u)
    BY <2>3
  <2>5. PICK y \in u : Amounts(f, u) # f[y].amount + Amounts(f, u \ {y})
    BY <2>4
  <2>6. PICK z : z = First(u)
    OBVIOUS
  <2>7. Rest(u) = u \ {z}
    BY <2>6 DEF Rest
  <2>8. Amounts(f, u) = f[z].amount + Amounts(f, u \ {z})
    BY <2>1, <2>5, <2>6, <2>7, AmountsStep
  <2>9. z \in u /\ z # y /\ n \in Nat
    BY <2>1, <2>4, <2>5, <2>6, <2>8, RestSmaller
  <2>10. ASSUME NEW w \in u PROVE Good(u \ {w})
    <3>1. Cardinality(u \ {w}) = n - 1
      BY <2>1, <2>4, FS_RemoveElement
    <3>2. ~(n <= Cardinality(u \ {w}))
      BY <2>9, <3>1
    <3>3. Cardinality(u \ {w}) \notin T
      BY <2>3, <3>2
    <3>4. u \ {w} \in SUBSET S
      OBVIOUS
    <3> HIDE DEF Good
    <3> QED BY <3>3, <3>4
  <2>11. Amounts(f, u \ {z}) = f[y].amount + Amounts(f, (u \ {z}) \ {y})
    BY <2>9, <2>10
  <2>12. Amounts(f, u \ {y}) = f[z].amount + Amounts(f, (u \ {y}) \ {z})
    BY <2>5, <2>9, <2>10
  <2>13. (u \ {z}) \ {y} = (u \ {y}) \ {z}
    OBVIOUS
  <2>14. PICK m : m = Amounts(f, (u \ {y}) \ {z})
    OBVIOUS
  <2>15. m \in Nat /\ f[y].amount \in Nat /\ f[z].amount \in Nat
    <3>1. (u \ {y}) \ {z} \in SUBSET S
      OBVIOUS
    <3>2. Numbers(f, (u \ {y}) \ {z})
      BY <3>1, NumbersSubset
    <3>3. m \in Nat
      BY <2>14, <3>2, AmountsNat
    <3> QED BY <1>0, <2>9, <3>3
  <2>16. Amounts(f, u) = f[y].amount + (f[z].amount + m)
    <3>1. Amounts(f, u \ {z}) = f[y].amount + m
      BY <2>11, <2>13, <2>14
    <3>2. f[z].amount + (f[y].amount + m) = f[y].amount + (f[z].amount + m)
      BY <2>15
    <3> QED BY <2>8, <3>1, <3>2
  <2> QED BY <2>5, <2>12, <2>14, <2>16
<1> QED BY <1>1, <1>2

-----------------------------------------------------------------------------
(* 2. Buckets.                                                             *)

Side == {"debit_account_id", "credit_account_id"}

On(f, ids, side, a) == {i \in ids : f[i][side] = a}

\* What the transfers `ids` of f put on account a.
Bucket(f, ids, side, a) == Amounts(f, On(f, ids, side, a))

\* The balances `field` of the accounts A are those buckets.
Tally(f, ids, A, side, field) ==
    \A a \in DOMAIN A : A[a][field] = Bucket(f, ids, side, a)

\* From A to B the balance `field` of account x moves by n.
Moves(B, A, field, x, n) ==
    /\ DOMAIN B = DOMAIN A
    /\ \A a \in DOMAIN A : B[a][field] = A[a][field] + (IF a = x THEN n ELSE 0)

LEMMA BucketNat ==
    ASSUME NEW f, NEW ids, Numbers(f, ids), NEW side, NEW a
    PROVE  /\ Numbers(f, On(f, ids, side, a)) /\ IsFiniteSet(On(f, ids, side, a))
           /\ Bucket(f, ids, side, a) \in Nat
<1>1. On(f, ids, side, a) \in SUBSET ids
  BY DEF On
<1>2. Numbers(f, On(f, ids, side, a))
  BY <1>1, NumbersSubset
<1> QED BY <1>2, AmountsNat DEF Bucket, Numbers

\* A bucket depends on its own transfers alone.
LEMMA BucketSame ==
    ASSUME NEW f, NEW ids, Numbers(f, ids), NEW g, \A i \in ids : g[i] = f[i],
           NEW side, NEW a
    PROVE  Bucket(g, ids, side, a) = Bucket(f, ids, side, a)
<1>1. On(g, ids, side, a) = On(f, ids, side, a)
  BY DEF On
<1>2. IsFiniteSet(On(f, ids, side, a))
  BY BucketNat
<1>3. \A i \in On(f, ids, side, a) : g[i].amount = f[i].amount
  BY DEF On
<1>4. Amounts(g, On(f, ids, side, a)) = Amounts(f, On(f, ids, side, a))
  BY <1>2, <1>3, AmountsAgree
<1> QED BY <1>1, <1>4 DEF Bucket

LEMMA BucketLess ==
    ASSUME NEW f, NEW ids, Numbers(f, ids), NEW k \in ids, NEW side, NEW a
    PROVE  Bucket(f, ids, side, a)
             = Bucket(f, ids \ {k}, side, a) + (IF a = f[k][side] THEN f[k].amount ELSE 0)
<1>1. PICK S : S = On(f, ids, side, a)
  OBVIOUS
<1>2. Numbers(f, S) /\ Bucket(f, ids, side, a) \in Nat
  BY <1>1, BucketNat
<1>3. Bucket(f, ids \ {k}, side, a) \in Nat
  <2>1. Numbers(f, ids \ {k})
    BY NumbersSubset
  <2> QED BY <2>1, BucketNat
<1>4. CASE a = f[k][side]
  <2>1. k \in S /\ On(f, ids \ {k}, side, a) = S \ {k}
    BY <1>1, <1>4 DEF On
  <2>2. Amounts(f, S) = f[k].amount + Amounts(f, S \ {k})
    BY <1>2, <2>1, AmountsTake
  <2>3. f[k].amount \in Nat
    BY DEF Numbers
  <2>4. Bucket(f, ids, side, a) = f[k].amount + Bucket(f, ids \ {k}, side, a)
    BY <1>1, <2>1, <2>2 DEF Bucket
  <2> QED BY <1>3, <1>4, <2>3, <2>4
<1>5. CASE a # f[k][side]
  <2>1. On(f, ids \ {k}, side, a) = S
    BY <1>1, <1>5 DEF On
  <2>2. Bucket(f, ids \ {k}, side, a) = Bucket(f, ids, side, a)
    BY <1>1, <2>1 DEF Bucket
  <2> QED BY <1>3, <1>5, <2>2
<1> QED BY <1>4, <1>5

LEMMA BucketMore ==
    ASSUME NEW f, NEW ids, Numbers(f, ids), NEW k, k \notin ids,
           NEW g, \A i \in ids : g[i] = f[i], NEW v, g[k] = v, v.amount \in Nat,
           NEW side, NEW a
    PROVE  Bucket(g, ids \cup {k}, side, a)
             = Bucket(f, ids, side, a) + (IF a = v[side] THEN v.amount ELSE 0)
<1>1. PICK all : all = ids \cup {k}
  OBVIOUS
<1>2. Numbers(g, all)
  <2>1. IsFiniteSet(ids)
    BY DEF Numbers
  <2>2. IsFiniteSet(all)
    BY <1>1, <2>1, FS_AddElement
  <2> QED BY <1>1, <2>2 DEF Numbers
<1>3. k \in all /\ all \ {k} = ids
  BY <1>1
<1>4. Bucket(g, all, side, a)
        = Bucket(g, ids, side, a) + (IF a = g[k][side] THEN g[k].amount ELSE 0)
  BY <1>2, <1>3, BucketLess
<1>5. Bucket(g, ids, side, a) = Bucket(f, ids, side, a)
  BY BucketSame
<1> QED BY <1>1, <1>4, <1>5

LEMMA TallyKept ==
    ASSUME NEW f, NEW ids, Numbers(f, ids), NEW g, \A i \in ids : g[i] = f[i],
           NEW A, NEW B, NEW side, NEW field, NEW x, Tally(f, ids, A, side, field),
           Moves(B, A, field, x, 0)
    PROVE  Tally(g, ids, B, side, field)
<1> SUFFICES ASSUME NEW a \in DOMAIN B
             PROVE  B[a][field] = Bucket(g, ids, side, a)
  BY DEF Tally
<1>1. B[a][field] = A[a][field] + 0 /\ a \in DOMAIN A
  BY DEF Moves
<1>2. A[a][field] = Bucket(f, ids, side, a)
  BY <1>1 DEF Tally
<1>3. Bucket(f, ids, side, a) \in Nat /\ Bucket(g, ids, side, a) = Bucket(f, ids, side, a)
  BY BucketNat, BucketSame
<1> QED BY <1>1, <1>2, <1>3

LEMMA TallyMore ==
    ASSUME NEW f, NEW ids, Numbers(f, ids), NEW k, k \notin ids,
           NEW g, \A i \in ids : g[i] = f[i], NEW v, g[k] = v, v.amount \in Nat,
           NEW A, NEW B, NEW side, NEW field, Tally(f, ids, A, side, field),
           Moves(B, A, field, v[side], v.amount)
    PROVE  Tally(g, ids \cup {k}, B, side, field)
<1> SUFFICES ASSUME NEW a \in DOMAIN B
             PROVE  B[a][field] = Bucket(g, ids \cup {k}, side, a)
  BY DEF Tally
<1>1. /\ B[a][field] = A[a][field] + (IF a = v[side] THEN v.amount ELSE 0)
      /\ a \in DOMAIN A
  BY DEF Moves
<1>2. A[a][field] = Bucket(f, ids, side, a)
  BY <1>1 DEF Tally
<1>3. Bucket(g, ids \cup {k}, side, a)
        = Bucket(f, ids, side, a) + (IF a = v[side] THEN v.amount ELSE 0)
  BY BucketMore
<1> QED BY <1>1, <1>2, <1>3

LEMMA TallyLess ==
    ASSUME NEW f, NEW ids, Numbers(f, ids), NEW k \in ids, NEW p, f[k] = p,
           NEW g, \A i \in ids : g[i] = f[i],
           NEW A, NEW B, NEW side, NEW field, Tally(f, ids, A, side, field),
           Moves(B, A, field, p[side], -p.amount)
    PROVE  Tally(g, ids \ {k}, B, side, field)
<1> SUFFICES ASSUME NEW a \in DOMAIN B
             PROVE  B[a][field] = Bucket(g, ids \ {k}, side, a)
  BY DEF Tally
<1>1. /\ B[a][field] = A[a][field] + (IF a = p[side] THEN -p.amount ELSE 0)
      /\ a \in DOMAIN A
  BY DEF Moves
<1>2. A[a][field] = Bucket(f, ids, side, a)
  BY <1>1 DEF Tally
<1>3. Bucket(f, ids, side, a)
        = Bucket(f, ids \ {k}, side, a) + (IF a = p[side] THEN p.amount ELSE 0)
  BY BucketLess
<1>4. Numbers(f, ids \ {k})
  BY NumbersSubset
<1>5. /\ Bucket(f, ids \ {k}, side, a) \in Nat
      /\ Bucket(g, ids \ {k}, side, a) = Bucket(f, ids \ {k}, side, a)
  BY <1>4, BucketNat, BucketSame
<1>6. p.amount \in Nat
  BY DEF Numbers
<1> QED BY <1>1, <1>2, <1>3, <1>5, <1>6

-----------------------------------------------------------------------------
(* 3. The invariant.                                                       *)

Posted(f) == {i \in DOMAIN f : classify(f[i]) \in {"Regular", "Post"}}

Open(f, states) == {i \in DOMAIN f : "PENDING" \in f[i].flags /\ i \notin DOMAIN states}

\* Every balance of A is the bucket of the transfers f that belong in it.
Replays(A, f, states) ==
    /\ IsFiniteSet(DOMAIN f)
    /\ Tally(f, Posted(f), A, "debit_account_id", "debits_posted")
    /\ Tally(f, Posted(f), A, "credit_account_id", "credits_posted")
    /\ Tally(f, Open(f, states), A, "debit_account_id", "debits_pending")
    /\ Tally(f, Open(f, states), A, "credit_account_id", "credits_pending")

OverlayReplays(s) == Replays(s.accounts, s.transfers, s.resolved)

BalanceInv ==
    /\ HistoryInv
    /\ Replays(accounts, transfers, pending_state)
    /\ OverlayReplays(apply) /\ OverlayReplays(rollback)

LEMMA ShiftedMoves ==
    ASSUME NEW r, NEW s, NEW t, NEW pend, NEW post, Shifted(r, s, t, pend, post)
    PROVE  /\ Moves(r.accounts, s.accounts, "debits_pending", t.debit_account_id, pend)
           /\ Moves(r.accounts, s.accounts, "debits_posted", t.debit_account_id, post)
           /\ Moves(r.accounts, s.accounts, "credits_pending", t.credit_account_id, pend)
           /\ Moves(r.accounts, s.accounts, "credits_posted", t.credit_account_id, post)
BY DEF Shifted, Moves

LEMMA BucketNumbers ==
    ASSUME NEW s, OverlaySound(s), OverlayReplays(s)
    PROVE  /\ Numbers(s.transfers, Posted(s.transfers))
           /\ Numbers(s.transfers, Open(s.transfers, s.resolved))
           /\ \A i \in DOMAIN s.transfers : s.transfers[i].amount \in Nat
<1>1. \A i \in DOMAIN s.transfers : s.transfers[i] \in Transfer
  BY OverlayFields DEF Keyed, IsMap
<1>2. \A i \in DOMAIN s.transfers : s.transfers[i].amount \in Nat
  BY <1>1, LedgerAssumption DEF Transfer, Amount
<1>3. Numbers(s.transfers, DOMAIN s.transfers)
  BY <1>2 DEF Numbers, OverlayReplays, Replays
<1>4. Posted(s.transfers) \in SUBSET DOMAIN s.transfers
  BY DEF Posted
<1>5. Open(s.transfers, s.resolved) \in SUBSET DOMAIN s.transfers
  BY DEF Open
<1> QED BY <1>2, <1>3, <1>4, <1>5, NumbersSubset

\* What recording a transfer adds to.
LEMMA RecordedReplays ==
    ASSUME NEW s, OverlaySound(s), OverlayReplays(s), NEW r, NEW v, Recorded(r, s, v)
    PROVE  /\ Added(r.transfers, s.transfers, v.id, v)
           /\ IsFiniteSet(DOMAIN r.transfers) /\ v.amount \in Nat
           /\ \A i \in Posted(s.transfers) : r.transfers[i] = s.transfers[i]
           /\ \A i \in Open(s.transfers, s.resolved) : r.transfers[i] = s.transfers[i]
           /\ v.id \notin Posted(s.transfers) /\ v.id \notin Open(s.transfers, s.resolved)
           /\ r.transfers[v.id] = v
<1>1. Added(r.transfers, s.transfers, v.id, v)
  BY PutAdded DEF Recorded
<1>2. IsFiniteSet(DOMAIN r.transfers)
  <2>1. IsFiniteSet(DOMAIN s.transfers)
    BY DEF OverlayReplays, Replays
  <2>2. IsFiniteSet(DOMAIN s.transfers \cup {v.id})
    BY <2>1, FS_AddElement
  <2> QED BY <1>1, <2>2 DEF Added
<1>3. v.amount \in Nat
  BY LedgerAssumption DEF Recorded, Transfer, Amount
<1> QED BY <1>1, <1>2, <1>3 DEF Added, Posted, Open

LEMMA BookedReplays ==
    ASSUME NEW s, OverlaySound(s), OverlayExact(s), OverlayReplays(s),
           NEW r, NEW v, Booked(r, s, v)
    PROVE  OverlayReplays(r)
<1>1. /\ Recorded(r, s, v) /\ classify(v) = "Regular" /\ r.resolved = s.resolved
      /\ Shifted(r, s, v, 0, v.amount)
  BY DEF Booked
<1>2. PICK f, g, P, K : /\ f = s.transfers /\ g = r.transfers
                        /\ P = Posted(f) /\ K = Open(f, s.resolved)
  OBVIOUS
<1>3. /\ Added(g, f, v.id, v) /\ IsFiniteSet(DOMAIN g) /\ v.amount \in Nat
      /\ \A i \in P : g[i] = f[i]
      /\ \A i \in K : g[i] = f[i]
      /\ v.id \notin P /\ g[v.id] = v /\ Numbers(f, P) /\ Numbers(f, K)
  BY <1>1, <1>2, RecordedReplays, BucketNumbers
<1>4. Posted(g) = P \cup {v.id}
  BY <1>1, <1>2, <1>3 DEF Posted, Added
<1>5. "PENDING" \notin v.flags
  BY <1>1 DEF classify
<1>6. Open(g, r.resolved) = K
  BY <1>1, <1>2, <1>3, <1>5 DEF Open, Added
<1>7. /\ Tally(f, P, s.accounts, "debit_account_id", "debits_posted")
      /\ Tally(f, P, s.accounts, "credit_account_id", "credits_posted")
      /\ Tally(f, K, s.accounts, "debit_account_id", "debits_pending")
      /\ Tally(f, K, s.accounts, "credit_account_id", "credits_pending")
  BY <1>2 DEF OverlayReplays, Replays
<1>8. /\ Moves(r.accounts, s.accounts, "debits_pending", v.debit_account_id, 0)
      /\ Moves(r.accounts, s.accounts, "debits_posted", v.debit_account_id, v.amount)
      /\ Moves(r.accounts, s.accounts, "credits_pending", v.credit_account_id, 0)
      /\ Moves(r.accounts, s.accounts, "credits_posted", v.credit_account_id, v.amount)
  BY <1>1, ShiftedMoves
<1>9. /\ Tally(g, P \cup {v.id}, r.accounts, "debit_account_id", "debits_posted")
      /\ Tally(g, P \cup {v.id}, r.accounts, "credit_account_id", "credits_posted")
  BY <1>3, <1>7, <1>8, TallyMore
<1>10. /\ Tally(g, K, r.accounts, "debit_account_id", "debits_pending")
       /\ Tally(g, K, r.accounts, "credit_account_id", "credits_pending")
  BY <1>3, <1>7, <1>8, TallyKept
<1> QED BY <1>2, <1>3, <1>4, <1>6, <1>9, <1>10 DEF OverlayReplays, Replays

LEMMA ReservedReplays ==
    ASSUME NEW s, OverlaySound(s), OverlayExact(s), OverlayReplays(s),
           NEW r, NEW v, Reserved(r, s, v)
    PROVE  OverlayReplays(r)
<1>1. /\ Recorded(r, s, v) /\ classify(v) = "PendingReserve" /\ r.resolved = s.resolved
      /\ Shifted(r, s, v, v.amount, 0)
  BY DEF Reserved
<1>2. PICK f, g, P, K : /\ f = s.transfers /\ g = r.transfers
                        /\ P = Posted(f) /\ K = Open(f, s.resolved)
  OBVIOUS
<1>3. /\ Added(g, f, v.id, v) /\ IsFiniteSet(DOMAIN g) /\ v.amount \in Nat
      /\ \A i \in P : g[i] = f[i]
      /\ \A i \in K : g[i] = f[i]
      /\ v.id \notin K /\ g[v.id] = v /\ Numbers(f, P) /\ Numbers(f, K)
  BY <1>1, <1>2, RecordedReplays, BucketNumbers
<1>4. Posted(g) = P
  BY <1>1, <1>2, <1>3 DEF Posted, Added
<1>5. "PENDING" \in v.flags
  BY <1>1 DEF classify
<1>6. v.id \notin DOMAIN s.resolved
  BY <1>1 DEF OverlayExact, RecordsExact, Settlements, Recorded
<1>7. Open(g, r.resolved) = K \cup {v.id}
  BY <1>1, <1>2, <1>3, <1>5, <1>6 DEF Open, Added
<1>8. /\ Tally(f, P, s.accounts, "debit_account_id", "debits_posted")
      /\ Tally(f, P, s.accounts, "credit_account_id", "credits_posted")
      /\ Tally(f, K, s.accounts, "debit_account_id", "debits_pending")
      /\ Tally(f, K, s.accounts, "credit_account_id", "credits_pending")
  BY <1>2 DEF OverlayReplays, Replays
<1>9. /\ Moves(r.accounts, s.accounts, "debits_pending", v.debit_account_id, v.amount)
      /\ Moves(r.accounts, s.accounts, "debits_posted", v.debit_account_id, 0)
      /\ Moves(r.accounts, s.accounts, "credits_pending", v.credit_account_id, v.amount)
      /\ Moves(r.accounts, s.accounts, "credits_posted", v.credit_account_id, 0)
  BY <1>1, ShiftedMoves
<1>10. /\ Tally(g, K \cup {v.id}, r.accounts, "debit_account_id", "debits_pending")
       /\ Tally(g, K \cup {v.id}, r.accounts, "credit_account_id", "credits_pending")
  BY <1>3, <1>8, <1>9, TallyMore
<1>11. /\ Tally(g, P, r.accounts, "debit_account_id", "debits_posted")
       /\ Tally(g, P, r.accounts, "credit_account_id", "credits_posted")
  BY <1>3, <1>8, <1>9, TallyKept
<1> QED BY <1>2, <1>3, <1>4, <1>7, <1>10, <1>11 DEF OverlayReplays, Replays

\* Resolving p takes it, whole, out of the pending buckets.
LEMMA ReleaseReplays ==
    ASSUME NEW s, OverlaySound(s), OverlayReplays(s), NEW p, OutstandingIn(s, p),
           NEW r, NEW post, Shifted(r, s, p, -p.amount, post),
           \A i \in Open(s.transfers, s.resolved) : r.transfers[i] = s.transfers[i],
           Open(r.transfers, r.resolved) = Open(s.transfers, s.resolved) \ {p.id}
    PROVE  /\ Tally(r.transfers, Open(r.transfers, r.resolved), r.accounts,
                    "debit_account_id", "debits_pending")
           /\ Tally(r.transfers, Open(r.transfers, r.resolved), r.accounts,
                    "credit_account_id", "credits_pending")
<1>1. PICK f, g, K : f = s.transfers /\ g = r.transfers /\ K = Open(f, s.resolved)
  OBVIOUS
<1>2. Numbers(f, K) /\ p.id \in K /\ f[p.id] = p
  BY <1>1, BucketNumbers DEF Open, OutstandingIn
<1>3. /\ Tally(f, K, s.accounts, "debit_account_id", "debits_pending")
      /\ Tally(f, K, s.accounts, "credit_account_id", "credits_pending")
  BY <1>1 DEF OverlayReplays, Replays
<1>4. /\ Moves(r.accounts, s.accounts, "debits_pending", p.debit_account_id, -p.amount)
      /\ Moves(r.accounts, s.accounts, "credits_pending", p.credit_account_id, -p.amount)
  BY ShiftedMoves
<1>5. \A i \in K : g[i] = f[i]
  BY <1>1
<1>6. /\ Tally(g, K \ {p.id}, r.accounts, "debit_account_id", "debits_pending")
      /\ Tally(g, K \ {p.id}, r.accounts, "credit_account_id", "credits_pending")
  BY <1>2, <1>3, <1>4, <1>5, TallyLess
<1> QED BY <1>1, <1>6

\* Recording a resolution of p leaves the other pendings outstanding.
LEMMA ResolvedOpen ==
    ASSUME NEW s, OverlaySound(s), OverlayReplays(s), NEW r, NEW v, Recorded(r, s, v),
           "PENDING" \notin v.flags, NEW p, OutstandingIn(s, p), NEW o,
           r.resolved = Put(s.resolved, p.id, o)
    PROVE  Open(r.transfers, r.resolved) = Open(s.transfers, s.resolved) \ {p.id}
<1>1. Added(r.transfers, s.transfers, v.id, v)
  BY RecordedReplays
<1>2. DOMAIN r.resolved = DOMAIN s.resolved \cup {p.id}
  BY DEF Put
<1> QED BY <1>1, <1>2 DEF Open, Added

LEMMA PostedReplays ==
    ASSUME NEW s, OverlaySound(s), OverlayExact(s), OverlayReplays(s),
           NEW r, NEW v, NEW p, PostedBy(r, s, v, p)
    PROVE  OverlayReplays(r)
<1>1. /\ Recorded(r, s, v) /\ classify(v) = "Post" /\ "PENDING" \notin v.flags
      /\ OutstandingIn(s, p) /\ r.resolved = Put(s.resolved, p.id, "Posted")
      /\ Shifted(r, s, p, -p.amount, v.amount)
      /\ v.debit_account_id = p.debit_account_id
      /\ v.credit_account_id = p.credit_account_id
  BY DEF PostedBy
<1>2. PICK f, g, P : f = s.transfers /\ g = r.transfers /\ P = Posted(f)
  OBVIOUS
<1>3. /\ Added(g, f, v.id, v) /\ IsFiniteSet(DOMAIN g) /\ v.amount \in Nat
      /\ \A i \in P : g[i] = f[i]
      /\ \A i \in Open(f, s.resolved) : g[i] = f[i]
      /\ v.id \notin P /\ g[v.id] = v /\ Numbers(f, P)
  BY <1>1, <1>2, RecordedReplays, BucketNumbers
<1>4. Posted(g) = P \cup {v.id}
  BY <1>1, <1>2, <1>3 DEF Posted, Added
<1>5. Open(r.transfers, r.resolved) = Open(s.transfers, s.resolved) \ {p.id}
  BY <1>1, ResolvedOpen
<1>6. /\ Tally(g, Open(g, r.resolved), r.accounts, "debit_account_id", "debits_pending")
      /\ Tally(g, Open(g, r.resolved), r.accounts, "credit_account_id", "credits_pending")
  BY <1>1, <1>2, <1>3, <1>5, ReleaseReplays
<1>7. /\ Tally(f, P, s.accounts, "debit_account_id", "debits_posted")
      /\ Tally(f, P, s.accounts, "credit_account_id", "credits_posted")
  BY <1>2 DEF OverlayReplays, Replays
<1>8. /\ Moves(r.accounts, s.accounts, "debits_posted", v.debit_account_id, v.amount)
      /\ Moves(r.accounts, s.accounts, "credits_posted", v.credit_account_id, v.amount)
  BY <1>1, ShiftedMoves
<1>9. /\ Tally(g, P \cup {v.id}, r.accounts, "debit_account_id", "debits_posted")
      /\ Tally(g, P \cup {v.id}, r.accounts, "credit_account_id", "credits_posted")
  BY <1>3, <1>7, <1>8, TallyMore
<1> QED BY <1>2, <1>3, <1>4, <1>6, <1>9 DEF OverlayReplays, Replays

LEMMA VoidedReplays ==
    ASSUME NEW s, OverlaySound(s), OverlayExact(s), OverlayReplays(s),
           NEW r, NEW v, NEW p, VoidedBy(r, s, v, p)
    PROVE  OverlayReplays(r)
<1>1. /\ Recorded(r, s, v) /\ classify(v) = "Void" /\ "PENDING" \notin v.flags
      /\ OutstandingIn(s, p) /\ r.resolved = Put(s.resolved, p.id, "Voided")
      /\ Shifted(r, s, p, -p.amount, 0)
  BY DEF VoidedBy
<1>2. PICK f, g, P : f = s.transfers /\ g = r.transfers /\ P = Posted(f)
  OBVIOUS
<1>3. /\ Added(g, f, v.id, v) /\ IsFiniteSet(DOMAIN g)
      /\ \A i \in P : g[i] = f[i]
      /\ \A i \in Open(f, s.resolved) : g[i] = f[i]
      /\ Numbers(f, P)
  BY <1>1, <1>2, RecordedReplays, BucketNumbers
<1>4. Posted(g) = P
  BY <1>1, <1>2, <1>3 DEF Posted, Added
<1>5. Open(r.transfers, r.resolved) = Open(s.transfers, s.resolved) \ {p.id}
  BY <1>1, ResolvedOpen
<1>6. /\ Tally(g, Open(g, r.resolved), r.accounts, "debit_account_id", "debits_pending")
      /\ Tally(g, Open(g, r.resolved), r.accounts, "credit_account_id", "credits_pending")
  BY <1>1, <1>2, <1>3, <1>5, ReleaseReplays
<1>7. /\ Tally(f, P, s.accounts, "debit_account_id", "debits_posted")
      /\ Tally(f, P, s.accounts, "credit_account_id", "credits_posted")
  BY <1>2 DEF OverlayReplays, Replays
<1>8. /\ Moves(r.accounts, s.accounts, "debits_posted", p.debit_account_id, 0)
      /\ Moves(r.accounts, s.accounts, "credits_posted", p.credit_account_id, 0)
  BY <1>1, ShiftedMoves
<1>9. /\ Tally(g, P, r.accounts, "debit_account_id", "debits_posted")
      /\ Tally(g, P, r.accounts, "credit_account_id", "credits_posted")
  BY <1>3, <1>7, <1>8, TallyKept
<1> QED BY <1>2, <1>3, <1>4, <1>6, <1>9 DEF OverlayReplays, Replays

LEMMA ExpiredReplays ==
    ASSUME NEW s, OverlaySound(s), OverlayExact(s), OverlayReplays(s),
           NEW r, NEW p, ExpiredIn(r, s, p)
    PROVE  OverlayReplays(r)
<1>1. /\ r.transfers = s.transfers
      /\ OutstandingIn(s, p) /\ r.resolved = Put(s.resolved, p.id, "Expired")
      /\ Shifted(r, s, p, -p.amount, 0)
  BY DEF ExpiredIn
<1>2. PICK f, P : f = s.transfers /\ P = Posted(f)
  OBVIOUS
<1>3. Numbers(f, P) /\ IsFiniteSet(DOMAIN f)
  BY <1>2, BucketNumbers DEF OverlayReplays, Replays
<1>4. Open(r.transfers, r.resolved) = Open(s.transfers, s.resolved) \ {p.id}
  <2>1. DOMAIN r.resolved = DOMAIN s.resolved \cup {p.id}
    BY <1>1 DEF Put
  <2> QED BY <1>1, <2>1 DEF Open
<1>5. /\ Tally(f, Open(f, r.resolved), r.accounts, "debit_account_id", "debits_pending")
      /\ Tally(f, Open(f, r.resolved), r.accounts, "credit_account_id", "credits_pending")
  BY <1>1, <1>2, <1>4, ReleaseReplays
<1>6. /\ Tally(f, P, s.accounts, "debit_account_id", "debits_posted")
      /\ Tally(f, P, s.accounts, "credit_account_id", "credits_posted")
  BY <1>2 DEF OverlayReplays, Replays
<1>7. /\ Moves(r.accounts, s.accounts, "debits_posted", p.debit_account_id, 0)
      /\ Moves(r.accounts, s.accounts, "credits_posted", p.credit_account_id, 0)
  BY <1>1, ShiftedMoves
<1>8. /\ Tally(f, P, r.accounts, "debit_account_id", "debits_posted")
      /\ Tally(f, P, r.accounts, "credit_account_id", "credits_posted")
  BY <1>3, <1>6, <1>7, TallyKept
<1> QED BY <1>1, <1>2, <1>3, <1>5, <1>8 DEF OverlayReplays, Replays

\* Nothing was moved to or from an account before it existed.
LEMMA TallyOpened ==
    ASSUME NEW f, NEW ids, NEW A, NEW side, NEW field, Tally(f, ids, A, side, field),
           NEW B, NEW k, NEW v, Added(B, A, k, v), v[field] = 0,
           \A i \in ids : f[i][side] \in DOMAIN A
    PROVE  Tally(f, ids, B, side, field)
<1>1. ASSUME NEW a \in DOMAIN A PROVE B[a][field] = Bucket(f, ids, side, a)
  BY DEF Tally, Added
<1>2. Bucket(f, ids, side, k) = 0
  <2>1. On(f, ids, side, k) = {}
    BY DEF On, Added
  <2>2. Amounts(f, {}) = 0
    BY AmountsStep, FS_EmptySet
  <2> QED BY <2>1, <2>2 DEF Bucket
<1>3. B[k][field] = 0 /\ DOMAIN B = DOMAIN A \cup {k}
  BY DEF Added
<1> QED BY <1>1, <1>2, <1>3 DEF Tally

LEMMA OpenedReplays ==
    ASSUME NEW s, OverlaySound(s), OverlayExact(s), OverlayReplays(s),
           NEW r, NEW v, Opened(r, s, v)
    PROVE  OverlayReplays(r)
<1>1. /\ r.transfers = s.transfers /\ r.resolved = s.resolved
      /\ v.debits_pending = 0 /\ v.debits_posted = 0
      /\ v.credits_pending = 0 /\ v.credits_posted = 0
      /\ Added(r.accounts, s.accounts, v.id, v)
  BY PutAdded DEF Opened
<1>2. PICK f, P, K : f = s.transfers /\ P = Posted(f) /\ K = Open(f, s.resolved)
  OBVIOUS
<1>3. /\ \A i \in DOMAIN f : /\ f[i].debit_account_id \in DOMAIN s.accounts
                             /\ f[i].credit_account_id \in DOMAIN s.accounts
      /\ P \subseteq DOMAIN f /\ K \subseteq DOMAIN f
  BY <1>2 DEF OverlayExact, RecordsExact, SidesKnown, Posted, Open
<1>4. /\ \A i \in P : /\ f[i]["debit_account_id"] \in DOMAIN s.accounts
                      /\ f[i]["credit_account_id"] \in DOMAIN s.accounts
      /\ \A i \in K : /\ f[i]["debit_account_id"] \in DOMAIN s.accounts
                      /\ f[i]["credit_account_id"] \in DOMAIN s.accounts
  BY <1>3
<1>5. /\ Tally(f, P, s.accounts, "debit_account_id", "debits_posted")
      /\ Tally(f, P, s.accounts, "credit_account_id", "credits_posted")
      /\ Tally(f, K, s.accounts, "debit_account_id", "debits_pending")
      /\ Tally(f, K, s.accounts, "credit_account_id", "credits_pending")
      /\ IsFiniteSet(DOMAIN f)
  BY <1>2 DEF OverlayReplays, Replays
<1>6. /\ Tally(f, P, r.accounts, "debit_account_id", "debits_posted")
      /\ Tally(f, P, r.accounts, "credit_account_id", "credits_posted")
  BY <1>1, <1>4, <1>5, TallyOpened
<1>7. /\ Tally(f, K, r.accounts, "debit_account_id", "debits_pending")
      /\ Tally(f, K, r.accounts, "credit_account_id", "credits_pending")
  BY <1>1, <1>4, <1>5, TallyOpened
<1> QED BY <1>1, <1>2, <1>5, <1>6, <1>7 DEF OverlayReplays, Replays

-----------------------------------------------------------------------------
(* 4. The invariant is inductive.                                          *)

LEMMA ItemReplays ==
    ASSUME NEW s, OverlaySound(s), OverlayExact(s), OverlayReplays(s), NEW r, ItemStep(r, s)
    PROVE  OverlayReplays(r)
<1>1. ASSUME NEW v, Opened(r, s, v) PROVE OverlayReplays(r)
  BY <1>1, OpenedReplays
<1>2. ASSUME NEW v, Booked(r, s, v) PROVE OverlayReplays(r)
  BY <1>2, BookedReplays
<1>3. ASSUME NEW v, Reserved(r, s, v) PROVE OverlayReplays(r)
  BY <1>3, ReservedReplays
<1>4. ASSUME NEW v, NEW p, PostedBy(r, s, v, p) PROVE OverlayReplays(r)
  BY <1>4, PostedReplays
<1>5. ASSUME NEW v, NEW p, VoidedBy(r, s, v, p) PROVE OverlayReplays(r)
  BY <1>5, VoidedReplays
<1> QED BY <1>1, <1>2, <1>3, <1>4, <1>5 DEF ItemStep

LEMMA IdleReplays ==
    ASSUME HistoryInv', Replays(accounts', transfers', pending_state'), Idle
    PROVE  BalanceInv'
<1>1. /\ apply' = FreshApply' /\ rollback' = FreshApply'
  BY DEF Idle
<1>2. /\ apply'.accounts = accounts' /\ apply'.transfers = transfers'
      /\ apply'.resolved = pending_state' /\ rollback' = apply'
  BY <1>1 DEF FreshApply
<1>3. OverlayReplays(apply') /\ OverlayReplays(rollback')
  BY <1>2 DEF OverlayReplays
<1> QED BY <1>3 DEF BalanceInv

LEMMA NextReplays == BalanceInv /\ [Next]_vars => BalanceInv'
<1> SUFFICES ASSUME BalanceInv, [Next]_vars PROVE BalanceInv'
  OBVIOUS
<1>1. HistoryInv'
  BY NextHistory DEF BalanceInv
<1>2. /\ HistoryInv /\ OverlaySound(apply) /\ OverlaySound(rollback)
      /\ OverlayExact(apply) /\ OverlayExact(rollback)
      /\ Replays(accounts, transfers, pending_state)
      /\ OverlayReplays(apply) /\ OverlayReplays(rollback)
  BY LedgerInvParts DEF BalanceInv, HistoryInv
<1>3. ASSUME UNCHANGED <<accounts, transfers, pending_state>>,
             OverlayReplays(apply'), OverlayReplays(rollback')
      PROVE  BalanceInv'
  BY <1>1, <1>2, <1>3 DEF BalanceInv
<1>4. CASE create_accounts \/ create_transfers
  <2>1. /\ UNCHANGED <<accounts, transfers, pending_state>>
        /\ apply' = apply /\ rollback' = rollback
    BY <1>4 DEF create_accounts, create_transfers, Begin, store
  <2> QED BY <1>2, <1>3, <2>1
<1>5. CASE sweep_expired
  <2>1. PICK p : ExpiredIn(apply', apply, p)
    BY <1>2, <1>5, SweepEffect
  <2>2. OverlayReplays(apply')
    BY <1>2, <2>1, ExpiredReplays
  <2>3. UNCHANGED <<accounts, transfers, pending_state>> /\ rollback' = rollback
    BY <1>5 DEF sweep_expired, store
  <2> QED BY <1>2, <1>3, <2>2, <2>3
<1>6. CASE apply_item
  <2>1. ItemStep(apply', apply)
    BY <1>2, <1>6, ItemEffect
  <2>2. OverlayReplays(apply')
    BY <1>2, <2>1, ItemReplays
  <2>3. /\ UNCHANGED <<accounts, transfers, pending_state>>
        /\ rollback' = apply \/ rollback' = rollback
    BY <1>6 DEF apply_item, store
  <2> QED BY <1>2, <1>3, <2>2, <2>3
<1>7. CASE fail_chain
  <2>1. PICK q : q = ChainBase
    OBVIOUS
  <2>2. PICK ids : ids = {i \in {batch[Item].id} : transfer_burns_id(Code(Item))}
    OBVIOUS
  <2>3. /\ UNCHANGED <<accounts, transfers, pending_state>> /\ rollback' = rollback
        /\ apply' = [q EXCEPT !.failed_ids = @ \cup ids]
    BY <1>7, <2>1, <2>2 DEF fail_chain, store
  <2>4. OverlaySound(q) /\ OverlayReplays(q)
    BY <1>2, <2>1 DEF ChainBase
  <2>5. /\ apply'.accounts = q.accounts /\ apply'.transfers = q.transfers
        /\ apply'.resolved = q.resolved
    <3>1. DOMAIN q = ApplyKeys
      BY <2>4, OverlayFields
    <3> QED BY <2>3, <3>1 DEF ApplyKeys
  <2>6. OverlayReplays(apply')
    BY <2>4, <2>5 DEF OverlayReplays
  <2> QED BY <1>2, <1>3, <2>3, <2>6
<1>8. CASE open_chain \/ UNCHANGED vars
  <2>1. /\ UNCHANGED <<accounts, transfers, pending_state>>
        /\ apply' = apply /\ rollback' = rollback
    BY <1>8 DEF open_chain, store, vars
  <2> QED BY <1>2, <1>3, <2>1
<1>9. CASE commit
  <2>1. /\ accounts' = apply.accounts /\ transfers' = apply.transfers
        /\ pending_state' = apply.resolved /\ Idle
    BY <1>9 DEF commit
  <2>2. Replays(accounts', transfers', pending_state')
    BY <1>2, <2>1 DEF OverlayReplays
  <2> QED BY <1>1, <2>1, <2>2, IdleReplays
<1>10. CASE abort
  <2>1. UNCHANGED <<accounts, transfers, pending_state>> /\ Idle
    BY <1>10 DEF abort, store
  <2>2. Replays(accounts', transfers', pending_state')
    BY <1>2, <2>1
  <2> QED BY <1>1, <2>1, <2>2, IdleReplays
<1> QED BY <1>4, <1>5, <1>6, <1>7, <1>8, <1>9, <1>10 DEF Next

LEMMA InitReplays == Init => BalanceInv
<1> SUFFICES ASSUME Init PROVE BalanceInv
  OBVIOUS
<1>1. HistoryInv
  BY InitHistory
<1>2. DOMAIN accounts = {} /\ DOMAIN transfers = {}
  BY DEF Init
<1>3. Replays(accounts, transfers, pending_state)
  BY <1>2, FS_EmptySet DEF Replays, Tally
<1>4. /\ apply.accounts = accounts /\ apply.transfers = transfers
      /\ apply.resolved = pending_state /\ rollback = apply
  BY DEF Init, FreshApply
<1>5. OverlayReplays(apply) /\ OverlayReplays(rollback)
  BY <1>3, <1>4 DEF OverlayReplays
<1> QED BY <1>1, <1>3, <1>5 DEF BalanceInv

LEMMA BalanceInvHolds == Spec => []BalanceInv
BY InitReplays, NextReplays, PTL DEF Spec

\* Double entry: whatever was booked, reserved, posted in part, voided,
\* expired, balanced or rolled back with its chain, the four balances of every
\* account are the sums of the recorded transfers that belong in them.
THEOREM BalancesAreTheRecords == Spec => []BalancesReplayTransfers
<1>1. BalanceInv => BalancesReplayTransfers
  <2> SUFFICES ASSUME BalanceInv, NEW a \in DOMAIN accounts
               PROVE  LET debited(ids) == SumOf({i \in ids : transfers[i].debit_account_id = a})
                          credited(ids) == SumOf({i \in ids : transfers[i].credit_account_id = a})
                      IN  /\ accounts[a].debits_posted = debited(Posting)
                          /\ accounts[a].credits_posted = credited(Posting)
                          /\ accounts[a].debits_pending = debited(Outstanding)
                          /\ accounts[a].credits_pending = credited(Outstanding)
    BY DEF BalancesReplayTransfers
  <2>1. Posting = Posted(transfers) /\ Outstanding = Open(transfers, pending_state)
    BY DEF Posting, Posted, Outstanding, Open
  <2>2. ASSUME NEW ids PROVE SumOf(ids) = Amounts(transfers, ids)
    BY DEF SumOf, Amounts
  <2>3. /\ accounts[a].debits_posted = Bucket(transfers, Posting, "debit_account_id", a)
        /\ accounts[a].credits_posted = Bucket(transfers, Posting, "credit_account_id", a)
        /\ accounts[a].debits_pending = Bucket(transfers, Outstanding, "debit_account_id", a)
        /\ accounts[a].credits_pending = Bucket(transfers, Outstanding, "credit_account_id", a)
    BY <2>1 DEF BalanceInv, Replays, Tally
  <2> QED BY <2>2, <2>3 DEF Bucket, On
<1> QED BY <1>1, BalanceInvHolds, PTL

=============================================================================
