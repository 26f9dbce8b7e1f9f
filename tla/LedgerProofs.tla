---------------------------- MODULE LedgerProofs ----------------------------
(***************************************************************************)
(* For every batch, clock and amount width: the ledger's records stay well *)
(* formed, no balance overflows or goes negative, and no constrained       *)
(* account ever exceeds its limit.                                         *)
(*                                                                         *)
(* The invariant has to speak of the overlays as well as of the committed  *)
(* records: a chain that fails restores `rollback`, and the commit         *)
(* installs `apply`.                                                       *)
(***************************************************************************)
EXTENDS Ledger, SequenceTheorems, WellFoundedInduction, TLAPS

\* An account record that satisfies everything the ledger promises of one.
Sound(a) ==
    /\ a \in Account
    /\ ~ExceedsCredits(a) /\ ~ExceedsDebits(a)
    /\ a.debits_posted + a.debits_pending <= AmountMax
    /\ a.credits_posted + a.credits_pending <= AmountMax

AllSound(f) == \A i \in DOMAIN f : Sound(f[i])

OverlaySound(s) == OverlayOK(s) /\ AllSound(s.accounts)

LedgerInv ==
    /\ TypeOK
    /\ AllSound(accounts)
    /\ AllSound(apply.accounts)
    /\ AllSound(rollback.accounts)
    /\ pc = "idle" => results = <<>>

-----------------------------------------------------------------------------
(* One account, one movement.                                              *)

LEMMA BalancingAmountBounded ==
    ASSUME NEW t \in Transfer, NEW d \in Account, NEW c \in Account
    PROVE  balancing_amount(t, d, c) \in Amount
BY LedgerAssumption DEF balancing_amount, Headroom, Lesser, Transfer, Account, Amount

LEMMA DebitPostedSound ==
    ASSUME NEW a, Sound(a), NEW n \in Nat, NEW b,
           b = [a EXCEPT !.debits_posted = @ + n],
           b.debits_posted + b.debits_pending <= AmountMax, ~ExceedsCredits(b)
    PROVE  Sound(b) /\ b.id = a.id
BY LedgerAssumption DEF Sound, Account, Amount, ExceedsCredits, ExceedsDebits

LEMMA CreditPostedSound ==
    ASSUME NEW a, Sound(a), NEW n \in Nat, NEW b,
           b = [a EXCEPT !.credits_posted = @ + n],
           b.credits_posted + b.credits_pending <= AmountMax, ~ExceedsDebits(b)
    PROVE  Sound(b) /\ b.id = a.id
BY LedgerAssumption DEF Sound, Account, Amount, ExceedsCredits, ExceedsDebits

\* The flags that limit a balance are the same in f and g.
SameLimits(f, g) ==
    /\ "DEBITS_MUST_NOT_EXCEED_CREDITS" \in f <=> "DEBITS_MUST_NOT_EXCEED_CREDITS" \in g
    /\ "CREDITS_MUST_NOT_EXCEED_DEBITS" \in f <=> "CREDITS_MUST_NOT_EXCEED_DEBITS" \in g

LEMMA DebitPendingSound ==
    ASSUME NEW a, Sound(a), NEW n \in Nat,
           NEW f \in SUBSET AccountFlag, SameLimits(f, a.flags), NEW b,
           b = [a EXCEPT !.debits_pending = @ + n, !.flags = f],
           b.debits_posted + b.debits_pending <= AmountMax, ~ExceedsCredits(b)
    PROVE  Sound(b) /\ b.id = a.id
<1>1. /\ b.flags = f /\ b.id = a.id
      /\ b.debits_posted = a.debits_posted /\ b.debits_pending = a.debits_pending + n
      /\ b.credits_posted = a.credits_posted /\ b.credits_pending = a.credits_pending
  BY DEF Sound, Account
<1>5. a \in Account
  BY DEF Sound
<1>6. b.debits_pending \in Amount
  BY <1>1, <1>5, LedgerAssumption DEF Account, Amount
<1>2. b \in Account
  BY <1>1, <1>5, <1>6 DEF Account
<1> QED BY <1>1, <1>2, LedgerAssumption
           DEF Sound, SameLimits, ExceedsCredits, ExceedsDebits

LEMMA CreditPendingSound ==
    ASSUME NEW a, Sound(a), NEW n \in Nat,
           NEW f \in SUBSET AccountFlag, SameLimits(f, a.flags), NEW b,
           b = [a EXCEPT !.credits_pending = @ + n, !.flags = f],
           b.credits_posted + b.credits_pending <= AmountMax, ~ExceedsDebits(b)
    PROVE  Sound(b) /\ b.id = a.id
<1>1. /\ b.flags = f /\ b.id = a.id
      /\ b.debits_posted = a.debits_posted /\ b.debits_pending = a.debits_pending
      /\ b.credits_posted = a.credits_posted /\ b.credits_pending = a.credits_pending + n
  BY DEF Sound, Account
<1>5. a \in Account
  BY DEF Sound
<1>6. b.credits_pending \in Amount
  BY <1>1, <1>5, LedgerAssumption DEF Account, Amount
<1>2. b \in Account
  BY <1>1, <1>5, <1>6 DEF Account
<1> QED BY <1>1, <1>2, LedgerAssumption
           DEF Sound, SameLimits, ExceedsCredits, ExceedsDebits

\* A release lowers the reserved side by at least what it posts, so neither
\* the width nor a limit has to be checked again.
LEMMA ReleaseDebitSound ==
    ASSUME NEW a, Sound(a), NEW n \in Nat, NEW m \in 0..n, a.debits_pending >= n,
           NEW f \in SUBSET AccountFlag, SameLimits(f, a.flags), NEW b,
           b = [a EXCEPT !.debits_pending = @ - n, !.debits_posted = @ + m,
                         !.flags = f]
    PROVE  Sound(b) /\ b.id = a.id
<1>1. /\ b.flags = f /\ b.id = a.id
      /\ b.debits_posted = a.debits_posted + m /\ b.debits_pending = a.debits_pending - n
      /\ b.credits_posted = a.credits_posted /\ b.credits_pending = a.credits_pending
  BY DEF Sound, Account
<1>2. a \in Account /\ a.debits_posted + a.debits_pending <= AmountMax
  BY DEF Sound
<1>3. /\ b.debits_posted + b.debits_pending <= a.debits_posted + a.debits_pending
      /\ b.debits_posted >= a.debits_posted
      /\ b.debits_posted \in Amount /\ b.debits_pending \in Amount
  BY <1>1, <1>2, LedgerAssumption DEF Account, Amount
<1>4. b \in Account
  BY <1>1, <1>3 DEF Sound, Account
<1> QED BY <1>1, <1>2, <1>3, <1>4, LedgerAssumption
           DEF Sound, SameLimits, ExceedsCredits, ExceedsDebits, Account, Amount

LEMMA ReleaseCreditSound ==
    ASSUME NEW a, Sound(a), NEW n \in Nat, NEW m \in 0..n, a.credits_pending >= n,
           NEW f \in SUBSET AccountFlag, SameLimits(f, a.flags), NEW b,
           b = [a EXCEPT !.credits_pending = @ - n, !.credits_posted = @ + m,
                         !.flags = f]
    PROVE  Sound(b) /\ b.id = a.id
<1>1. /\ b.flags = f /\ b.id = a.id
      /\ b.debits_posted = a.debits_posted /\ b.debits_pending = a.debits_pending
      /\ b.credits_posted = a.credits_posted + m /\ b.credits_pending = a.credits_pending - n
  BY DEF Sound, Account
<1>2. a \in Account /\ a.credits_posted + a.credits_pending <= AmountMax
  BY DEF Sound
<1>3. /\ b.credits_posted + b.credits_pending <= a.credits_posted + a.credits_pending
      /\ b.credits_posted >= a.credits_posted
      /\ b.credits_posted \in Amount /\ b.credits_pending \in Amount
  BY <1>1, <1>2, LedgerAssumption DEF Account, Amount
<1>4. b \in Account
  BY <1>1, <1>3 DEF Sound, Account
<1> QED BY <1>1, <1>2, <1>3, <1>4, LedgerAssumption
           DEF Sound, SameLimits, ExceedsCredits, ExceedsDebits, Account, Amount

-----------------------------------------------------------------------------
(* Staging preserves a sound overlay.                                      *)

\* Records keyed by their own id.
Keyed(f, V) == IsMap(f, Nat, V) /\ \A i \in DOMAIN f : f[i].id = i

LEMMA PutKeyed ==
    ASSUME NEW V, NEW f, Keyed(f, V), NEW v \in V, v.id \in Nat
    PROVE  Keyed(Put(f, v.id, v), V)
BY DEF Keyed, IsMap, Put

LEMMA PutMap ==
    ASSUME NEW V, NEW f, IsMap(f, Nat, V), NEW k \in Nat, NEW v \in V
    PROVE  IsMap(Put(f, k, v), Nat, V)
BY DEF IsMap, Put

LEMMA PutSound ==
    ASSUME NEW f, AllSound(f), NEW k, NEW v, Sound(v)
    PROVE  AllSound(Put(f, k, v))
BY DEF AllSound, Put

\* OverlaySound, field by field.
LEMMA OverlayFields ==
    ASSUME NEW s
    PROVE  OverlaySound(s) <=>
           /\ DOMAIN s = ApplyKeys
           /\ Keyed(s.accounts, Account) /\ AllSound(s.accounts)
           /\ Keyed(s.transfers, Transfer)
           /\ IsMap(s.resolved, Nat, PendingStatus)
           /\ s.expiry_removals \subseteq [expires : Nat, id : Nat]
           /\ s.failed_ids \subseteq Nat /\ s.accepted \subseteq Nat /\ s.ts \in Nat
BY DEF OverlaySound, OverlayOK, RecordsOK, Keyed

LEMMA WithSidesSound ==
    ASSUME NEW s, OverlaySound(s),
           NEW d, Sound(d), NEW c, Sound(c)
    PROVE  LET r == WithSides(s, d, c)
           IN  /\ OverlaySound(r)
               /\ r.transfers = s.transfers /\ r.resolved = s.resolved
               /\ r.expiry_removals = s.expiry_removals
               /\ r.failed_ids = s.failed_ids /\ r.accepted = s.accepted
               /\ r.ts = s.ts
<1> DEFINE f == Put(s.accounts, d.id, d)
           g == Put(f, c.id, c)
           r == WithSides(s, d, c)
<1>1. d \in Account /\ c \in Account /\ d.id \in Nat /\ c.id \in Nat
  BY DEF Sound, Account
<1>2. Keyed(s.accounts, Account) /\ AllSound(s.accounts)
  BY OverlayFields
<1>3. Keyed(f, Account) /\ AllSound(f)
  BY <1>1, <1>2, PutKeyed, PutSound
<1>4. Keyed(g, Account) /\ AllSound(g)
  <2> HIDE DEF f
  <2> QED BY <1>1, <1>3, PutKeyed, PutSound
<1>5. r = [s EXCEPT !.accounts = g]
  BY DEF WithSides
<1> HIDE DEF g, r
<1>6. /\ DOMAIN r = ApplyKeys /\ r.accounts = g
      /\ r.transfers = s.transfers /\ r.resolved = s.resolved
      /\ r.expiry_removals = s.expiry_removals
      /\ r.failed_ids = s.failed_ids /\ r.accepted = s.accepted
      /\ r.ts = s.ts
  <2>1. DOMAIN s = ApplyKeys
    BY OverlayFields
  <2> QED BY <1>5, <2>1 DEF ApplyKeys
<1>7. OverlaySound(r)
  BY <1>4, <1>6, OverlayFields
<1> QED BY <1>6, <1>7 DEF r

LEMMA ClosedKeepsLimits ==
    ASSUME NEW g \in SUBSET AccountFlag
    PROVE  /\ g \cup {"CLOSED"} \in SUBSET AccountFlag /\ SameLimits(g \cup {"CLOSED"}, g)
           /\ g \ {"CLOSED"} \in SUBSET AccountFlag /\ SameLimits(g \ {"CLOSED"}, g)
           /\ SameLimits(g, g)
BY DEF AccountFlag, SameLimits

\* Both sides of an accepted movement exist and are sound.
LEMMA SidesExist ==
    ASSUME NEW s, OverlaySound(s), NEW t \in Transfer, AccountsCode(s, t) = "Created"
    PROVE  /\ Sound(s.accounts[t.debit_account_id])
           /\ Sound(s.accounts[t.credit_account_id])
           /\ Effective(s, t) \in Amount
<1>1. /\ t.debit_account_id \in DOMAIN s.accounts
      /\ t.credit_account_id \in DOMAIN s.accounts
  BY DEF AccountsCode
<1>2. /\ Sound(s.accounts[t.debit_account_id])
      /\ Sound(s.accounts[t.credit_account_id])
  BY <1>1, OverlayFields DEF AllSound
<1>3. Effective(s, t) \in Amount
  BY <1>2, BalancingAmountBounded DEF Effective, Sound
<1> QED BY <1>2, <1>3

\* Only the accounts of the overlay differ, and they are sound.
MovesOnly(r, s) ==
    /\ OverlaySound(r)
    /\ r.transfers = s.transfers /\ r.resolved = s.resolved
    /\ r.expiry_removals = s.expiry_removals
    /\ r.failed_ids = s.failed_ids /\ r.accepted = s.accepted
    /\ r.ts = s.ts

LEMMA RegularSound ==
    ASSUME NEW s, OverlaySound(s), NEW t \in Transfer, RegularCode(s, t) = "Created"
    PROVE  MovesOnly(stage_regular(s, t), s) /\ Effective(s, t) \in Amount
<1> DEFINE d == RegularDebit(s, t)
           c == RegularCredit(s, t)
<1>1. AccountsCode(s, t) = "Created" /\ ~Overflows(d, c) /\ BalanceCode(d, c) = "Created"
  BY DEF RegularCode
<1>2. /\ Sound(s.accounts[t.debit_account_id])
      /\ Sound(s.accounts[t.credit_account_id])
      /\ Effective(s, t) \in Amount /\ Effective(s, t) \in Nat
  BY <1>1, SidesExist, LedgerAssumption DEF Amount
<1>3. ~ExceedsCredits(d) /\ ~ExceedsDebits(c)
  BY <1>1 DEF BalanceCode
<1>4. /\ d.debits_posted + d.debits_pending <= AmountMax
      /\ c.credits_posted + c.credits_pending <= AmountMax
  <2>1. /\ d.debits_posted = s.accounts[t.debit_account_id].debits_posted + Effective(s, t)
        /\ d.debits_pending = s.accounts[t.debit_account_id].debits_pending
        /\ c.credits_posted = s.accounts[t.credit_account_id].credits_posted + Effective(s, t)
        /\ c.credits_pending = s.accounts[t.credit_account_id].credits_pending
    BY <1>2 DEF RegularDebit, RegularCredit, Sound, Account
  <2>2. /\ d.debits_posted \in Nat /\ d.debits_pending \in Nat
        /\ c.credits_posted \in Nat /\ c.credits_pending \in Nat
    BY <1>2, <2>1, LedgerAssumption DEF Sound, Account, Amount
  <2> QED BY <1>1, <2>2, LedgerAssumption DEF Overflows
<1>5. d = [s.accounts[t.debit_account_id] EXCEPT !.debits_posted = @ + Effective(s, t)]
  BY DEF RegularDebit
<1>6. c = [s.accounts[t.credit_account_id] EXCEPT !.credits_posted = @ + Effective(s, t)]
  BY DEF RegularCredit
<1> HIDE DEF d, c
<1>7. Sound(d)
  BY <1>2, <1>3, <1>4, <1>5, DebitPostedSound
<1>8. Sound(c)
  BY <1>2, <1>3, <1>4, <1>6, CreditPostedSound
<1> QED BY <1>2, <1>7, <1>8, WithSidesSound DEF stage_regular, MovesOnly, d, c

LEMMA PendingSound ==
    ASSUME NEW s, OverlaySound(s), NEW t \in Transfer, PendingCode(s, t) = "Created"
    PROVE  MovesOnly(stage_pending(s, t), s) /\ Effective(s, t) \in Amount
<1> DEFINE d == PendingDebit(s, t)
           c == PendingCredit(s, t)
           debit == s.accounts[t.debit_account_id]
           credit == s.accounts[t.credit_account_id]
           n == Effective(s, t)
           df == IF "CLOSING_DEBIT" \in t.flags
                 THEN debit.flags \cup {"CLOSED"} ELSE debit.flags
           cf == IF "CLOSING_CREDIT" \in t.flags
                 THEN credit.flags \cup {"CLOSED"} ELSE credit.flags
<1>1. AccountsCode(s, t) = "Created" /\ ~Overflows(d, c) /\ BalanceCode(d, c) = "Created"
  BY DEF PendingCode
<1>2. Sound(debit) /\ Sound(credit) /\ n \in Amount /\ n \in Nat
  BY <1>1, SidesExist, LedgerAssumption DEF Amount
<1>3. ~ExceedsCredits(d) /\ ~ExceedsDebits(c)
  BY <1>1 DEF BalanceCode
<1>4. d = [debit EXCEPT !.debits_pending = @ + n, !.flags = df]
  BY DEF PendingDebit
<1>5. c = [credit EXCEPT !.credits_pending = @ + n, !.flags = cf]
  BY DEF PendingCredit
<1>6. /\ df \in SUBSET AccountFlag /\ SameLimits(df, debit.flags)
      /\ cf \in SUBSET AccountFlag /\ SameLimits(cf, credit.flags)
  <2>1. debit.flags \in SUBSET AccountFlag /\ credit.flags \in SUBSET AccountFlag
    BY <1>2 DEF Sound, Account
  <2> QED BY <2>1, ClosedKeepsLimits
<1> HIDE DEF d, c, debit, credit, n, df, cf
<1>7. /\ d.debits_posted + d.debits_pending <= AmountMax
      /\ c.credits_posted + c.credits_pending <= AmountMax
  <2>1. /\ d.debits_posted = debit.debits_posted
        /\ d.debits_pending = debit.debits_pending + n
        /\ c.credits_posted = credit.credits_posted
        /\ c.credits_pending = credit.credits_pending + n
    BY <1>2, <1>4, <1>5 DEF Sound, Account
  <2>2. /\ d.debits_posted \in Nat /\ d.debits_pending \in Nat
        /\ c.credits_posted \in Nat /\ c.credits_pending \in Nat
    BY <1>2, <2>1, LedgerAssumption DEF Sound, Account, Amount
  <2> QED BY <1>1, <2>2, LedgerAssumption DEF Overflows
<1>8. Sound(d)
  BY <1>2, <1>3, <1>4, <1>6, <1>7, DebitPendingSound
<1>9. Sound(c)
  BY <1>2, <1>3, <1>5, <1>6, <1>7, CreditPendingSound
<1> QED BY <1>2, <1>8, <1>9, WithSidesSound DEF stage_pending, MovesOnly, d, c, n

\* Releasing a reservation the overlay holds, whatever part of it is posted.
LEMMA ReleaseSound ==
    ASSUME NEW s, OverlaySound(s), NEW p \in Transfer, ReservationHeld(s, p),
           NEW m \in 0..p.amount, NEW reopen \in BOOLEAN
    PROVE  MovesOnly(WithSides(s, ReleaseDebit(s, p, m, reopen),
                                  ReleaseCredit(s, p, m, reopen)), s)
<1> DEFINE d == ReleaseDebit(s, p, m, reopen)
           c == ReleaseCredit(s, p, m, reopen)
           debit == s.accounts[p.debit_account_id]
           credit == s.accounts[p.credit_account_id]
           df == IF reopen /\ "CLOSING_DEBIT" \in p.flags
                 THEN debit.flags \ {"CLOSED"} ELSE debit.flags
           cf == IF reopen /\ "CLOSING_CREDIT" \in p.flags
                 THEN credit.flags \ {"CLOSED"} ELSE credit.flags
<1>1. Sound(debit) /\ Sound(credit)
  BY OverlayFields DEF ReservationHeld, AllSound
<1>2. /\ debit.debits_pending >= p.amount /\ credit.credits_pending >= p.amount
      /\ p.amount \in Nat
  BY LedgerAssumption DEF ReservationHeld, Transfer, Amount
<1>3. /\ d = [debit EXCEPT !.debits_pending = @ - p.amount,
                           !.debits_posted = @ + m, !.flags = df]
      /\ c = [credit EXCEPT !.credits_pending = @ - p.amount,
                            !.credits_posted = @ + m, !.flags = cf]
  BY DEF ReleaseDebit, ReleaseCredit
<1>4. /\ df \in SUBSET AccountFlag /\ SameLimits(df, debit.flags)
      /\ cf \in SUBSET AccountFlag /\ SameLimits(cf, credit.flags)
  <2>1. debit.flags \in SUBSET AccountFlag /\ credit.flags \in SUBSET AccountFlag
    BY <1>1 DEF Sound, Account
  <2> QED BY <2>1, ClosedKeepsLimits
<1> HIDE DEF d, c, debit, credit, df, cf
<1>5. Sound(d)
  BY <1>1, <1>2, <1>3, <1>4, ReleaseDebitSound
<1>6. Sound(c)
  BY <1>1, <1>2, <1>3, <1>4, ReleaseCreditSound
<1> QED BY <1>5, <1>6, WithSidesSound DEF MovesOnly, d, c

\* What an accepted resolution has established about the pending it names.
LEMMA ResolutionAccepted ==
    ASSUME NEW s, OverlaySound(s), NEW t \in Transfer, ResolutionCode(s, t) = "Created"
    PROVE  LET p == s.transfers[t.pending_id]
           IN  /\ p \in Transfer /\ ReservationHeld(s, p)
               /\ Settled(t, p) \in 0..p.amount
               /\ p.id \notin DOMAIN s.resolved
<1> DEFINE p == s.transfers[t.pending_id]
<1>1. t.pending_id \in DOMAIN s.transfers
  BY DEF ResolutionCode
<1>2. p \in Transfer
  BY <1>1, OverlayFields DEF Keyed, IsMap
<1>3. /\ ReservationHeld(s, p) /\ p.id \notin DOMAIN s.resolved
      /\ ~(classify(t) = "Post" /\ t.amount # AmountMax /\ t.amount > p.amount)
  <2>1. p.id \notin DOMAIN s.resolved
    BY <1>1, Zenon DEF ResolutionCode
  <2>2. ReservationHeld(s, p)
    BY <1>1, Zenon DEF ResolutionCode
  <2>3. ~(classify(t) = "Post" /\ t.amount # AmountMax /\ t.amount > p.amount)
    BY <1>1, Zenon DEF ResolutionCode
  <2> QED BY <2>1, <2>2, <2>3
<1>4. p.amount \in Nat /\ t.amount \in Nat
  BY <1>2, LedgerAssumption DEF Transfer, Amount
<1>5. Settled(t, p) \in 0..p.amount
  <2> HIDE DEF p
  <2> QED BY <1>3, <1>4 DEF Settled
<1> QED BY <1>2, <1>3, <1>5

LEMMA ResolutionSound ==
    ASSUME NEW s, OverlaySound(s), NEW t \in Transfer, ResolutionCode(s, t) = "Created"
    PROVE  /\ OverlaySound(stage_resolution(s, t))
           /\ stage_resolution(s, t).transfers = s.transfers
           /\ stage_resolution(s, t).accepted = s.accepted
<1> DEFINE p == s.transfers[t.pending_id]
           post == classify(t) = "Post"
           m == IF post THEN Settled(t, p) ELSE 0
           q == WithSides(s, ReleaseDebit(s, p, m, ~post), ReleaseCredit(s, p, m, ~post))
           states == RecordSettled(s, p, post)
           removals == q.expiry_removals \cup IndexEntry(p)
           r == stage_resolution(s, t)
<1>1. p \in Transfer /\ ReservationHeld(s, p) /\ Settled(t, p) \in 0..p.amount
  BY ResolutionAccepted
<1>2. p.id \in Nat /\ p.amount \in Nat /\ p.timestamp \in Nat /\ p.timeout \in Nat
  BY <1>1, LedgerAssumption DEF Transfer, Amount
<1>3. r = [q EXCEPT !.resolved = states, !.expiry_removals = removals]
  BY DEF stage_resolution
<1>4. IsMap(states, Nat, PendingStatus)
  <2>1. (IF post THEN "Posted" ELSE "Voided") \in PendingStatus
    BY DEF PendingStatus
  <2>2. IsMap(s.resolved, Nat, PendingStatus)
    BY OverlayFields
  <2> HIDE DEF p, post
  <2> QED BY <1>2, <2>1, <2>2, PutMap DEF RecordSettled
<1>5. MovesOnly(q, s)
  <2>1. m \in 0..p.amount
    <3>1. CASE post
      BY <1>1, <3>1
    <3>2. CASE ~post
      <4> HIDE DEF p, post
      <4> QED BY <1>2, <3>2
    <3> QED BY <3>1, <3>2
  <2>2. (~post) \in BOOLEAN
    OBVIOUS
  <2> HIDE DEF p, m, post
  <2> QED BY <1>1, <2>1, <2>2, ReleaseSound
<1>6. removals \subseteq [expires : Nat, id : Nat]
  <2>1. IndexEntry(p) \subseteq [expires : Nat, id : Nat]
    BY <1>2 DEF IndexEntry, ExpiryKey, expiry_of
  <2> HIDE DEF p, q
  <2> QED BY <1>5, <2>1, OverlayFields DEF MovesOnly
<1> HIDE DEF q, states, removals, r
<1>7. /\ DOMAIN r = ApplyKeys /\ r.accounts = q.accounts /\ r.transfers = q.transfers
      /\ r.resolved = states /\ r.expiry_removals = removals
      /\ r.failed_ids = q.failed_ids /\ r.accepted = q.accepted /\ r.ts = q.ts
  <2>1. DOMAIN q = ApplyKeys
    BY <1>5, OverlayFields DEF MovesOnly
  <2> QED BY <1>3, <2>1 DEF ApplyKeys
<1>8. OverlaySound(r)
  BY <1>4, <1>5, <1>6, <1>7, OverlayFields DEF MovesOnly
<1> QED BY <1>5, <1>7, <1>8 DEF MovesOnly, r

\* The record a resolution stores is a transfer under its own id.
LEMMA MaterializedOK ==
    ASSUME NEW s, OverlaySound(s), NEW t \in Transfer, NEW ts \in Nat,
           ResolutionCode(s, t) = "Created"
    PROVE  /\ [Materialized(t, s.transfers[t.pending_id]) EXCEPT !.timestamp = ts] \in Transfer
           /\ [Materialized(t, s.transfers[t.pending_id]) EXCEPT !.timestamp = ts].id = t.id
<1> DEFINE p == s.transfers[t.pending_id]
<1>1. p \in Transfer /\ Settled(t, p) \in 0..p.amount
  BY ResolutionAccepted
<1>2. Settled(t, p) \in Amount
  BY <1>1, LedgerAssumption DEF Transfer, Amount
<1> HIDE DEF p
<1> QED BY <1>1, <1>2 DEF Materialized, Transfer, p

LEMMA PeekIsNat ==
    ASSUME NEW s, s.ts \in Nat, clock \in Nat
    PROVE  Peek(s) \in Nat
BY DEF Peek

LEMMA ProcessSound ==
    ASSUME NEW s, OverlaySound(s), NEW t \in Transfer, clock \in Nat,
           TransferCode(s, t) = "Created"
    PROVE  OverlaySound(process_transfer(s, t))
<1> DEFINE staged == IF IsResolution(t) THEN stage_resolution(s, t)
                     ELSE IF classify(t) = "PendingReserve" THEN stage_pending(s, t)
                     ELSE stage_regular(s, t)
           record == IF IsResolution(t) THEN Materialized(t, s.transfers[t.pending_id])
                     ELSE [t EXCEPT !.amount = Effective(s, t)]
           ts == IF BatchImported THEN t.timestamp ELSE Peek(s)
           v == [record EXCEPT !.timestamp = ts]
           xfers == Put(staged.transfers, t.id, v)
           ids == staged.accepted \cup {t.id}
           r == process_transfer(s, t)
<1>1. r = [staged EXCEPT !.transfers = xfers, !.accepted = ids, !.ts = ts]
  BY DEF process_transfer
<1>2. /\ IsResolution(t) => ResolutionCode(s, t) = "Created"
      /\ ~IsResolution(t) /\ classify(t) = "PendingReserve" => PendingCode(s, t) = "Created"
      /\ ~IsResolution(t) /\ classify(t) # "PendingReserve" => RegularCode(s, t) = "Created"
  BY DEF TransferCode, transfer_exists_result
<1>3. t.id \in Nat /\ t.timestamp \in Nat /\ s.ts \in Nat
  BY OverlayFields DEF Transfer
<1>4. ts \in Nat
  BY <1>3, PeekIsNat
<1>5. ~IsResolution(t) => Effective(s, t) \in Amount
  BY <1>2, PendingSound, RegularSound
<1>6. v \in Transfer /\ v.id = t.id
  <2>1. CASE IsResolution(t)
    <3>1. record = Materialized(t, s.transfers[t.pending_id])
      BY <2>1
    <3> HIDE DEF record, ts
    <3> QED BY <1>2, <1>4, <2>1, <3>1, MaterializedOK
  <2>2. CASE ~IsResolution(t)
    <3>1. record = [t EXCEPT !.amount = Effective(s, t)]
      BY <2>2
    <3> HIDE DEF record, ts
    <3> QED BY <1>4, <1>5, <2>2, <3>1 DEF Transfer
  <2> QED BY <2>1, <2>2
<1>7. OverlaySound(staged)
  BY <1>2, ResolutionSound, PendingSound, RegularSound DEF MovesOnly
<1> HIDE DEF staged, record, ts, v
<1>8. Keyed(xfers, Transfer)
  BY <1>3, <1>6, <1>7, OverlayFields, PutKeyed
<1>9. ids \subseteq Nat
  BY <1>3, <1>7, OverlayFields
<1> HIDE DEF xfers, ids, r
<1>10. /\ DOMAIN r = ApplyKeys /\ r.accounts = staged.accounts /\ r.transfers = xfers
       /\ r.resolved = staged.resolved /\ r.expiry_removals = staged.expiry_removals
       /\ r.failed_ids = staged.failed_ids /\ r.accepted = ids /\ r.ts = ts
  <2>1. DOMAIN staged = ApplyKeys
    BY <1>7, OverlayFields
  <2> QED BY <1>1, <2>1 DEF ApplyKeys
<1>11. OverlaySound(r)
  BY <1>4, <1>7, <1>8, <1>9, <1>10, OverlayFields
<1> QED BY <1>11 DEF r

\* A new account starts with empty buckets, so it is sound.
LEMMA StageAccountSound ==
    ASSUME NEW s, OverlaySound(s), NEW a \in Account, clock \in Nat,
           AccountCode(s, a) = "Created"
    PROVE  OverlaySound(stage_account(s, a))
<1> DEFINE ts == IF BatchImported THEN a.timestamp ELSE Peek(s)
           v == [a EXCEPT !.timestamp = ts]
           accts == Put(s.accounts, a.id, v)
           ids == s.accepted \cup {a.id}
           r == stage_account(s, a)
<1>1. r = [s EXCEPT !.accounts = accts, !.accepted = ids, !.ts = ts]
  BY DEF stage_account
<1>2. /\ a.debits_pending = 0 /\ a.debits_posted = 0
      /\ a.credits_pending = 0 /\ a.credits_posted = 0
  <2>1. ~InvalidAccount(a)
    BY DEF AccountCode, account_exists_result
  <2> QED BY <2>1 DEF InvalidAccount
<1>3. a.id \in Nat /\ a.timestamp \in Nat /\ s.ts \in Nat
  BY OverlayFields DEF Account
<1>4. ts \in Nat
  BY <1>3, PeekIsNat
<1> HIDE DEF ts
<1>5. v \in Account /\ v.id = a.id
  BY <1>4 DEF Account
<1>6. Sound(v)
  <2>1. /\ v.debits_pending = 0 /\ v.debits_posted = 0
        /\ v.credits_pending = 0 /\ v.credits_posted = 0
    BY <1>2 DEF Account
  <2> HIDE DEF v
  <2> QED BY <1>5, <2>1, LedgerAssumption DEF Sound, ExceedsCredits, ExceedsDebits
<1> HIDE DEF v
<1>7. Keyed(accts, Account) /\ AllSound(accts)
  BY <1>3, <1>5, <1>6, OverlayFields, PutKeyed, PutSound
<1>8. ids \subseteq Nat
  BY <1>3, OverlayFields
<1> HIDE DEF accts, ids, r
<1>9. /\ DOMAIN r = ApplyKeys /\ r.accounts = accts /\ r.transfers = s.transfers
      /\ r.resolved = s.resolved /\ r.expiry_removals = s.expiry_removals
      /\ r.failed_ids = s.failed_ids /\ r.accepted = ids /\ r.ts = ts
  <2>1. DOMAIN s = ApplyKeys
    BY OverlayFields
  <2> QED BY <1>1, <2>1 DEF ApplyKeys
<1>10. OverlaySound(r)
  BY <1>4, <1>7, <1>8, <1>9, OverlayFields
<1> QED BY <1>10 DEF r

-----------------------------------------------------------------------------
(* The results of a refused chain are a sequence no longer than the batch. *)

LEMMA LeastNatural ==
    ASSUME NEW T, T \subseteq Nat, T # {}
    PROVE  \E x \in T : \A y \in T : x <= y
<1> DEFINE R == OpToRel(<, Nat)
<1>1. IsWellFoundedOn(R, Nat)
  BY NatLessThanWellFounded
<1>2. \A x, y \in Nat : x < y => <<x, y>> \in R
  BY DEF OpToRel
<1> HIDE DEF R
<1>3. PICK x \in T : \A y \in T : ~(<<y, x>> \in R)
  BY <1>1, WFMin
<1>4. ASSUME NEW y \in T PROVE x <= y
  <2>1. x \in Nat /\ y \in Nat
    OBVIOUS
  <2>2. ~(y < x)
    BY <1>2, <1>3, <2>1, Zenon
  <2> QED BY <2>1, <2>2
<1> QED BY <1>4

LEMMA ChainEndInBatch ==
    ASSUME Len(batch) \in Nat, NEW i \in 1..Len(batch)
    PROVE  ChainEnd(i) \in i..Len(batch)
<1>1. CASE ChainOpen(i)
  BY <1>1 DEF ChainEnd
<1>2. CASE ~ChainOpen(i)
  <2> DEFINE T == {j \in i..Len(batch) : ~Linked(j)}
             P(j) == ~Linked(j) /\ \A k \in i .. j - 1 : Linked(k)
  <2>1. T # {} /\ T \subseteq Nat
    BY <1>2 DEF ChainOpen
  <2> HIDE DEF T
  <2>2. PICK x \in T : \A y \in T : x <= y
    BY <2>1, LeastNatural
  <2>3. x \in i..Len(batch) /\ ~Linked(x)
    BY <2>2 DEF T
  <2>4. ASSUME NEW k \in i .. x - 1 PROVE Linked(k)
    <3>1. k \in i..Len(batch) /\ k < x
      BY <2>3
    <3>2. k \notin T
      BY <2>2, <2>3, <3>1
    <3> QED BY <3>1, <3>2 DEF T
  <2>5. P(x)
    BY <2>3, <2>4
  <2> HIDE DEF P
  <2>6. (CHOOSE j \in i..Len(batch) : P(j)) \in i..Len(batch)
    BY <2>3, <2>5
  <2> QED BY <1>2, <2>6 DEF ChainEnd, P
<1> QED BY <1>1, <1>2

LEMMA ChainStartInBatch ==
    ASSUME NEW i \in Nat \ {0}
    PROVE  ChainStart(i) \in 1..i
<1> DEFINE T == {n \in 0 .. i - 1 : ChainHead(i - n)}
           P(k) == ChainHead(k) /\ \A j \in k + 1 .. i : ~ChainHead(j)
<1>1. i - 1 \in T /\ T \subseteq Nat
  <2>1. i - (i - 1) = 1
    OBVIOUS
  <2>2. ChainHead(1)
    BY DEF ChainHead
  <2> QED BY <2>1, <2>2
<1> HIDE DEF T
<1>2. PICK n \in T : \A m \in T : n <= m
  BY <1>1, LeastNatural
<1>3. n \in 0 .. i - 1 /\ ChainHead(i - n)
  BY <1>2 DEF T
<1>4. ASSUME NEW j \in (i - n) + 1 .. i PROVE ~ChainHead(j)
  <2>1. i - j \in 0 .. i - 1 /\ i - j < n /\ i - (i - j) = j
    BY <1>3
  <2>2. i - j \notin T
    BY <1>2, <1>3, <2>1
  <2> QED BY <2>1, <2>2 DEF T
<1>5. P(i - n) /\ i - n \in 1..i
  BY <1>3, <1>4
<1> HIDE DEF P
<1>6. (CHOOSE k \in 1..i : P(k)) \in 1..i
  BY <1>5
<1> QED BY <1>6 DEF ChainStart, P

LEMMA ChainRefusedOK ==
    ASSUME Len(batch) \in Nat, results \in Seq(Result), Item <= Len(batch),
           NEW o, NEW why \in Result
    PROVE  /\ ChainRefused(Item, o, why) \in Seq(Result)
           /\ Len(ChainRefused(Item, o, why)) <= Len(batch)
<1> DEFINE e == ChainEnd(Item)
           r == ChainRefused(Item, o, why)
<1>1. /\ Len(results) \in Nat /\ results \in [1..Len(results) -> Result]
      /\ Item = Len(results) + 1 /\ Item \in 1..Len(batch) /\ Item \in Nat \ {0}
  BY LenProperties DEF Item
<1>2. e \in Item..Len(batch) /\ ChainStart(Item) \in 1..Item
  BY <1>1, ChainEndInBatch, ChainStartInBatch
<1>3. r \in [1..e -> Result]
  <2>1. ASSUME NEW k \in 1..e, k < ChainStart(Item) PROVE results[k] \in Result
    BY <1>1, <1>2, <2>1
  <2>2. "LinkedEventFailed" \in Result
    BY DEF Result
  <2> QED BY <2>1, <2>2 DEF ChainRefused
<1> HIDE DEF e, r
<1>4. e \in Nat /\ e <= Len(batch)
  BY <1>1, <1>2
<1>5. r \in Seq(Result) /\ Len(r) = e
  BY <1>3, <1>4
<1> QED BY <1>4, <1>5 DEF r

LEMMA CodeIsResult ==
    ASSUME NEW i, Code(i) # "LedgerInvariant"
    PROVE  Code(i) \in Result
<1>1. AccountCode(apply, batch[i]) \in Result
  BY DEF AccountCode, account_exists_result, Result
<1>2. AccountsCode(apply, batch[i]) \in Result
  BY DEF AccountsCode, Result
<1>3. ASSUME NEW d, NEW c PROVE BalanceCode(d, c) \in Result
  BY DEF BalanceCode, Result
<1>4. RegularCode(apply, batch[i]) \in Result /\ PendingCode(apply, batch[i]) \in Result
  BY <1>2, <1>3 DEF RegularCode, PendingCode, Result
<1>5. ResolutionCode(apply, batch[i]) \in Result \cup {"LedgerInvariant"}
  BY DEF ResolutionCode, Result
<1>6. TransferCode(apply, batch[i]) \in Result \cup {"LedgerInvariant"}
  BY <1>4, <1>5 DEF TransferCode, transfer_exists_result, Result
<1> QED BY <1>1, <1>6 DEF Code

-----------------------------------------------------------------------------
(* The invariant is inductive: one step per action.                        *)

\* LedgerInv, part by part.
LEMMA LedgerInvParts ==
    LedgerInv <=>
    /\ Keyed(accounts, Account) /\ AllSound(accounts)
    /\ Keyed(transfers, Transfer) /\ IsMap(pending_state, Nat, PendingStatus)
    /\ expiry \subseteq [expires : Nat, id : Nat]
    /\ failed \subseteq Nat /\ watermark \in Nat /\ created \subseteq TransferSpecs
    /\ pc \in {"idle", "create_accounts", "create_transfers"}
    /\ batch \in Seq(IF pc = "create_accounts" THEN AccountSpecs ELSE TransferSpecs)
    /\ results \in Seq(Result) /\ Len(results) <= Len(batch)
    /\ clock \in Nat
    /\ OverlaySound(apply) /\ OverlaySound(rollback)
    /\ pc = "idle" => results = <<>>
BY DEF LedgerInv, TypeOK, RecordsOK, Keyed, OverlaySound

\* The same of the next state.
LEMMA LedgerInvNext ==
    ASSUME Keyed(accounts', Account), AllSound(accounts'),
           Keyed(transfers', Transfer), IsMap(pending_state', Nat, PendingStatus),
           expiry' \subseteq [expires : Nat, id : Nat],
           failed' \subseteq Nat, watermark' \in Nat, created' \subseteq TransferSpecs,
           pc' \in {"idle", "create_accounts", "create_transfers"},
           batch' \in Seq(IF pc' = "create_accounts" THEN AccountSpecs ELSE TransferSpecs),
           results' \in Seq(Result), Len(results') <= Len(batch'),
           clock' \in Nat,
           OverlaySound(apply'), OverlaySound(rollback'),
           pc' = "idle" => results' = <<>>
    PROVE  LedgerInv'
BY DEF LedgerInv, TypeOK, RecordsOK, Keyed, OverlaySound

\* A fresh overlay over sound records is sound.
LEMMA FreshSound ==
    ASSUME NEW a, Keyed(a, Account), AllSound(a), NEW x, Keyed(x, Transfer),
           NEW p, IsMap(p, Nat, PendingStatus), NEW w \in Nat
    PROVE  OverlaySound([accounts |-> a, transfers |-> x, resolved |-> p,
                         expiry_removals |-> {}, failed_ids |-> {},
                         accepted |-> {}, ts |-> w])
<1> DEFINE r == [accounts |-> a, transfers |-> x, resolved |-> p,
                 expiry_removals |-> {}, failed_ids |-> {},
                 accepted |-> {}, ts |-> w]
<1>1. /\ DOMAIN r = ApplyKeys /\ r.accounts = a /\ r.transfers = x
      /\ r.resolved = p /\ r.expiry_removals = {}
      /\ r.failed_ids = {} /\ r.accepted = {} /\ r.ts = w
  BY DEF ApplyKeys
<1> HIDE DEF r
<1>2. OverlaySound(r)
  BY <1>1, OverlayFields
<1> QED BY <1>2 DEF r

\* The item an apply works on comes from the submitted specifications.
LEMMA ItemOK ==
    ASSUME LedgerInv, Item <= Len(batch)
    PROVE  /\ pc = "create_accounts" => batch[Item] \in Account
           /\ pc # "create_accounts" => batch[Item] \in Transfer
           /\ Len(batch) \in Nat /\ Len(results) \in Nat
<1> DEFINE S == IF pc = "create_accounts" THEN AccountSpecs ELSE TransferSpecs
<1>1. batch \in Seq(S) /\ results \in Seq(Result)
  BY LedgerInvParts
<1>2. /\ Len(batch) \in Nat /\ Len(results) \in Nat
      /\ batch \in [1..Len(batch) -> S]
  <2> HIDE DEF S
  <2> QED BY <1>1, LenProperties
<1>3. batch[Item] \in S
  BY <1>2 DEF Item
<1> QED BY <1>2, <1>3, LedgerAssumption

LEMMA InitInv == Init => LedgerInv
<1> SUFFICES ASSUME Init PROVE LedgerInv
  OBVIOUS
<1>1. /\ Keyed(accounts, Account) /\ AllSound(accounts)
      /\ Keyed(transfers, Transfer) /\ IsMap(pending_state, Nat, PendingStatus)
  BY DEF Init, Keyed, IsMap, AllSound
<1>2. OverlaySound(apply) /\ OverlaySound(rollback)
  BY <1>1, FreshSound DEF Init, FreshApply
<1> QED BY <1>1, <1>2, LedgerInvParts DEF Init

LEMMA BatchesAreSequences ==
    ASSUME NEW specs, NEW items \in Batches(specs)
    PROVE  items \in Seq(specs)
<1>1. PICK n \in 0..MaxBatch : items \in [1..n -> specs]
  BY DEF Batches
<1>2. n \in Nat
  BY LedgerAssumption
<1> QED BY <1>1, <1>2

LEMMA BeginInv ==
    ASSUME LedgerInv, NEW op \in {"create_accounts", "create_transfers"},
           NEW items, NEW now \in ClockValues, Begin(op, items, now),
           items \in Seq(IF op = "create_accounts" THEN AccountSpecs ELSE TransferSpecs)
    PROVE  LedgerInv'
<1>1. Len(results') <= Len(batch')
  <2>1. results' = <<>> /\ batch' = items
    BY LedgerInvParts DEF Begin
  <2>2. Len(items) \in Nat
    BY LenProperties
  <2> QED BY <2>1, <2>2
<1> QED BY <1>1, LedgerInvParts, LedgerInvNext, LedgerAssumption DEF Begin, store

\* Idle leaves a fresh overlay over whatever the records now are.
LEMMA IdleInv ==
    ASSUME Keyed(accounts', Account), AllSound(accounts'),
           Keyed(transfers', Transfer), IsMap(pending_state', Nat, PendingStatus),
           expiry' \subseteq [expires : Nat, id : Nat],
           failed' \subseteq Nat, watermark' \in Nat, created' \subseteq TransferSpecs, Idle
    PROVE  LedgerInv'
<1>1. OverlaySound(apply') /\ OverlaySound(rollback')
  BY FreshSound DEF Idle, FreshApply
<1> QED BY <1>1, LedgerInvNext DEF Idle

LEMMA AbortInv == LedgerInv /\ abort => LedgerInv'
BY LedgerInvParts, IdleInv DEF abort, store

LEMMA CommitInv == LedgerInv /\ commit => LedgerInv'
<1> SUFFICES ASSUME LedgerInv, commit PROVE LedgerInv'
  OBVIOUS
<1>1. OverlaySound(apply) /\ failed \subseteq Nat /\ watermark \in Nat
      /\ expiry \subseteq [expires : Nat, id : Nat]
  BY LedgerInvParts
<1>2. /\ Keyed(accounts', Account) /\ AllSound(accounts')
      /\ Keyed(transfers', Transfer) /\ IsMap(pending_state', Nat, PendingStatus)
      /\ failed' \subseteq Nat /\ watermark' \in Nat
  BY <1>1, OverlayFields DEF commit
<1>3. expiry' \subseteq [expires : Nat, id : Nat]
  <2>1. ASSUME NEW i \in DOMAIN apply.transfers
        PROVE  ExpiryKey(apply.transfers[i]) \in [expires : Nat, id : Nat]
    <3>1. apply.transfers[i] \in Transfer
      BY <1>1, OverlayFields DEF Keyed, IsMap
    <3> QED BY <3>1 DEF ExpiryKey, expiry_of, Transfer
  <2> QED BY <1>1, <2>1 DEF commit
<1>4. created' \subseteq TransferSpecs
  <2>1. CreatedNow \subseteq TransferSpecs
    <3> SUFFICES ASSUME pc = "create_transfers", NEW i \in DOMAIN results
                 PROVE  batch[i] \in TransferSpecs
      BY DEF CreatedNow
    <3>1. /\ batch \in Seq(TransferSpecs) /\ results \in Seq(Result)
          /\ Len(results) <= Len(batch)
      BY LedgerInvParts
    <3>2. /\ Len(batch) \in Nat /\ batch \in [1..Len(batch) -> TransferSpecs]
          /\ Len(results) \in Nat /\ DOMAIN results = 1..Len(results)
      BY <3>1, LenProperties
    <3> QED BY <3>1, <3>2
  <2>2. created \subseteq TransferSpecs
    BY LedgerInvParts
  <2> QED BY <2>1, <2>2 DEF commit
<1> QED BY <1>2, <1>3, <1>4, IdleInv DEF commit

LEMMA SweepInv == LedgerInv /\ sweep_expired => LedgerInv'
<1> SUFFICES ASSUME LedgerInv, sweep_expired PROVE LedgerInv'
  OBVIOUS
<1> DEFINE p(k) == transfers[k.id]
           stale(k) == k.id \in DOMAIN apply.resolved \/ k.id \notin DOMAIN transfers
           moved(k) == WithSides(apply, ReleaseDebit(apply, p(k), 0, TRUE),
                                        ReleaseCredit(apply, p(k), 0, TRUE))
           freed(k) == IF stale(k) THEN apply
                       ELSE [moved(k) EXCEPT !.resolved = Put(@, k.id, "Expired")]
<1>1. PICK k \in Due : /\ stale(k) \/ ReservationHeld(apply, p(k))
                       /\ apply' = [freed(k) EXCEPT !.expiry_removals = @ \cup {k}]
  BY DEF sweep_expired
<1>2. /\ OverlaySound(apply) /\ Keyed(transfers, Transfer)
      /\ k \in [expires : Nat, id : Nat]
  BY LedgerInvParts DEF Due
<1>3. OverlaySound(freed(k))
  <2>1. CASE stale(k)
    BY <1>2, <2>1
  <2>2. CASE ~stale(k)
    <3> DEFINE q == moved(k)
               states == Put(q.resolved, k.id, "Expired")
               r == freed(k)
    <3>1. p(k) \in Transfer /\ ReservationHeld(apply, p(k))
      BY <1>1, <1>2, <2>2 DEF Keyed, IsMap
    <3>2. 0 \in 0..p(k).amount
      BY <3>1, LedgerAssumption DEF Transfer, Amount
    <3>3. OverlaySound(q)
      <4> HIDE DEF p
      <4> QED BY <1>2, <3>1, <3>2, ReleaseSound DEF MovesOnly
    <3>4. r = [q EXCEPT !.resolved = states]
      BY <2>2
    <3> HIDE DEF q, r
    <3>5. "Expired" \in PendingStatus /\ k.id \in Nat
      BY <1>2 DEF PendingStatus
    <3>6. IsMap(states, Nat, PendingStatus)
      BY <3>3, <3>5, OverlayFields, PutMap
    <3> HIDE DEF states
    <3>7. /\ DOMAIN r = ApplyKeys /\ r.accounts = q.accounts
          /\ r.transfers = q.transfers /\ r.resolved = states
          /\ r.expiry_removals = q.expiry_removals
          /\ r.failed_ids = q.failed_ids /\ r.accepted = q.accepted /\ r.ts = q.ts
      <4>1. DOMAIN q = ApplyKeys
        BY <3>3, OverlayFields
      <4> QED BY <3>4, <4>1 DEF ApplyKeys
    <3>8. OverlaySound(r)
      BY <3>3, <3>6, <3>7, OverlayFields
    <3> QED BY <3>8 DEF r
  <2> QED BY <2>1, <2>2
<1>4. OverlaySound(apply')
  <2> DEFINE q == freed(k)
             r == apply'
             removals == q.expiry_removals \cup {k}
  <2>1. r = [q EXCEPT !.expiry_removals = removals]
    BY <1>1
  <2>2. OverlaySound(q)
    BY <1>3
  <2> HIDE DEF q
  <2>3. removals \subseteq [expires : Nat, id : Nat]
    BY <1>2, <2>2, OverlayFields
  <2> HIDE DEF r, removals
  <2>4. /\ DOMAIN r = ApplyKeys /\ r.accounts = q.accounts
        /\ r.transfers = q.transfers /\ r.resolved = q.resolved
        /\ r.expiry_removals = removals
        /\ r.failed_ids = q.failed_ids /\ r.accepted = q.accepted /\ r.ts = q.ts
    <3>1. DOMAIN q = ApplyKeys
      BY <2>2, OverlayFields
    <3> QED BY <2>1, <3>1 DEF ApplyKeys
  <2>5. OverlaySound(r)
    BY <2>2, <2>3, <2>4, OverlayFields
  <2> QED BY <2>5 DEF r
<1> QED BY <1>4, LedgerInvParts, LedgerInvNext DEF sweep_expired, store, request

LEMMA ApplyItemInv == LedgerInv /\ apply_item => LedgerInv'
<1> SUFFICES ASSUME LedgerInv, apply_item PROVE LedgerInv'
  OBVIOUS
<1>1. Item <= Len(batch) /\ Code(Item) \in {"Created", "Exists"}
  BY DEF apply_item
<1>2. /\ pc = "create_accounts" => batch[Item] \in Account
      /\ pc # "create_accounts" => batch[Item] \in Transfer
      /\ Len(batch) \in Nat /\ Len(results) \in Nat
  BY <1>1, ItemOK
<1>3. OverlaySound(apply) /\ OverlaySound(rollback) /\ clock \in Nat
  BY LedgerInvParts
<1>4. OverlaySound(apply')
  <2>1. CASE Code(Item) = "Exists"
    BY <1>3, <2>1 DEF apply_item
  <2>2. CASE Code(Item) = "Created" /\ pc = "create_accounts"
    BY <1>2, <1>3, <2>2, StageAccountSound DEF apply_item, Code
  <2>3. CASE Code(Item) = "Created" /\ pc # "create_accounts"
    BY <1>2, <1>3, <2>3, ProcessSound DEF apply_item, Code
  <2> QED BY <1>1, <2>1, <2>2, <2>3
<1>5. OverlaySound(rollback')
  BY <1>3 DEF apply_item
<1>6. results' \in Seq(Result) /\ Len(results') <= Len(batch')
  <2>1. Code(Item) \in Result
    BY <1>1, CodeIsResult
  <2>2. results \in Seq(Result)
    BY LedgerInvParts
  <2>3. results' = Append(results, Code(Item)) /\ batch' = batch
    BY DEF apply_item, request
  <2>4. results' \in Seq(Result) /\ Len(results') = Len(results) + 1
    BY <2>1, <2>2, <2>3, AppendProperties
  <2> QED BY <1>1, <1>2, <2>3, <2>4 DEF Item
<1>7. pc' # "idle"
  BY DEF apply_item, Processing, request
<1> QED BY <1>4, <1>5, <1>6, <1>7, LedgerInvParts, LedgerInvNext
        DEF apply_item, store, request

LEMMA FailChainInv == LedgerInv /\ fail_chain => LedgerInv'
<1> SUFFICES ASSUME LedgerInv, fail_chain PROVE LedgerInv'
  OBVIOUS
<1>1. Item <= Len(batch) /\ Code(Item) # "LedgerInvariant"
  BY DEF fail_chain
<1>2. batch[Item].id \in Nat /\ Len(batch) \in Nat
  BY <1>1, ItemOK DEF Account, Transfer
<1>3. OverlaySound(ChainBase)
  BY LedgerInvParts DEF ChainBase
<1>4. OverlaySound(apply')
  <2> DEFINE q == ChainBase
             ids == q.failed_ids \cup
                    {i \in {batch[Item].id} : transfer_burns_id(Code(Item))}
             r == apply'
  <2>1. r = [q EXCEPT !.failed_ids = ids]
    BY DEF fail_chain
  <2>2. OverlaySound(q)
    BY <1>3
  <2> HIDE DEF q
  <2>3. ids \subseteq Nat
    BY <1>2, <2>2, OverlayFields
  <2> HIDE DEF r, ids
  <2>4. /\ DOMAIN r = ApplyKeys /\ r.accounts = q.accounts
        /\ r.transfers = q.transfers /\ r.resolved = q.resolved
        /\ r.expiry_removals = q.expiry_removals
        /\ r.failed_ids = ids /\ r.accepted = q.accepted /\ r.ts = q.ts
    <3>1. DOMAIN q = ApplyKeys
      BY <2>2, OverlayFields
    <3> QED BY <2>1, <3>1 DEF ApplyKeys
  <2>5. OverlaySound(r)
    BY <2>2, <2>3, <2>4, OverlayFields
  <2> QED BY <2>5 DEF r
<1>5. results' \in Seq(Result) /\ Len(results') <= Len(batch')
  <2>1. Code(Item) \in Result /\ results \in Seq(Result)
    BY <1>1, CodeIsResult, LedgerInvParts
  <2>2. results' = ChainRefused(Item, Item, Code(Item)) /\ batch' = batch
    BY DEF fail_chain, request
  <2> QED BY <1>1, <1>2, <2>1, <2>2, ChainRefusedOK
<1>6. pc' # "idle"
  BY DEF fail_chain, Processing, request
<1> QED BY <1>4, <1>5, <1>6, LedgerInvParts, LedgerInvNext
        DEF fail_chain, store, request

LEMMA OpenChainInv == LedgerInv /\ open_chain => LedgerInv'
<1> SUFFICES ASSUME LedgerInv, open_chain PROVE LedgerInv'
  OBVIOUS
<1>1. results' \in Seq(Result) /\ Len(results') <= Len(batch')
  <2>1. Item <= Len(batch) /\ Len(batch) \in Nat
    BY ItemOK DEF open_chain
  <2>2. "LinkedEventChainOpen" \in Result /\ results \in Seq(Result)
    BY LedgerInvParts DEF Result
  <2>3. results' = ChainRefused(Item, Len(batch), "LinkedEventChainOpen") /\ batch' = batch
    BY DEF open_chain, request
  <2> QED BY <2>1, <2>2, <2>3, ChainRefusedOK
<1>2. pc' # "idle"
  BY DEF open_chain, Processing, request
<1> QED BY <1>1, <1>2, LedgerInvParts, LedgerInvNext
        DEF open_chain, store, request

LEMMA NextInv == LedgerInv /\ [Next]_vars => LedgerInv'
<1> SUFFICES ASSUME LedgerInv, [Next]_vars PROVE LedgerInv'
  OBVIOUS
<1>1. CASE create_accounts
  <2>1. PICK items \in Batches(AccountSpecs), now \in ClockValues :
            Begin("create_accounts", items, now)
    BY <1>1 DEF create_accounts
  <2>2. items \in Seq(AccountSpecs)
    BY BatchesAreSequences
  <2> QED BY <2>1, <2>2, BeginInv
<1>2. CASE create_transfers
  <2>1. PICK items \in Batches(TransferSpecs), now \in ClockValues :
            Begin("create_transfers", items, now)
    BY <1>2 DEF create_transfers
  <2>2. items \in Seq(TransferSpecs)
    BY BatchesAreSequences
  <2> QED BY <2>1, <2>2, BeginInv
<1>3. CASE sweep_expired
  BY <1>3, SweepInv
<1>4. CASE apply_item
  BY <1>4, ApplyItemInv
<1>5. CASE fail_chain
  BY <1>5, FailChainInv
<1>6. CASE open_chain
  BY <1>6, OpenChainInv
<1>7. CASE commit
  BY <1>7, CommitInv
<1>8. CASE abort
  BY <1>8, AbortInv
<1>9. CASE UNCHANGED vars
  BY <1>9, LedgerInvParts, LedgerInvNext DEF vars, store, request
<1> QED BY <1>1, <1>2, <1>3, <1>4, <1>5, <1>6, <1>7, <1>8, <1>9 DEF Next

-----------------------------------------------------------------------------

LEMMA LedgerInvHolds == Spec => []LedgerInv
BY InitInv, NextInv, PTL DEF Spec

\* Every record create_accounts and create_transfers write is well formed:
\* stored under its own id, every bucket within the amount's width.
THEOREM TypeCorrect == Spec => []TypeOK
<1>1. LedgerInv => TypeOK
  BY DEF LedgerInv
<1> QED BY <1>1, LedgerInvHolds, PTL

\* No sequence of batches, chains, expiries and aborted applies takes an
\* account past its DEBITS_MUST_NOT_EXCEED_CREDITS or
\* CREDITS_MUST_NOT_EXCEED_DEBITS limit, although posting a pending
\* transfer (stage_resolution) does not check the limit again.
THEOREM ConstraintsHold == Spec => []BalanceConstraints
<1>1. LedgerInv => BalanceConstraints
  BY DEF LedgerInv, AllSound, Sound, BalanceConstraints
<1> QED BY <1>1, LedgerInvHolds, PTL

\* posted + pending never leaves the width of an amount, so the additions of
\* the balance checks cannot overflow.
THEOREM TotalsAlwaysFit == Spec => []TotalsFit
<1>1. LedgerInv => TotalsFit
  BY DEF LedgerInv, AllSound, Sound, TotalsFit
<1> QED BY <1>1, LedgerInvHolds, PTL

=============================================================================
