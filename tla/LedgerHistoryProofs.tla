------------------------ MODULE LedgerHistoryProofs -------------------------
(***************************************************************************)
(* What the ledger's records say about its history, for every batch, clock *)
(* and interleaving of aborted and committed applies: records are only     *)
(* ever added, timestamps are unique and follow the order of acceptance, a *)
(* burned id is never created, a pending is settled once, the expiry index *)
(* names exactly the timed pendings still outstanding, and an account is   *)
(* closed exactly while a closing pending holds it.  And what a caller is  *)
(* told is what the batch writes: the items answered Created are exactly   *)
(* those staged, a chain is answered all or nothing, and a retry inside    *)
(* the batch is answered Exists.                                           *)
(*                                                                         *)
(* Each of these is a predicate of records, which the invariant states     *)
(* three times: of the committed records, of the overlay and of the        *)
(* overlay at the head of the chain.  An item of a batch changes an        *)
(* overlay in one of the few ways section 2 describes, so a proof that a   *)
(* predicate is kept has one case for each.                                *)
(*                                                                         *)
(* While a chain is in progress the invariant of the answers has to        *)
(* describe the overlay the chain would be rolled back to as well: the     *)
(* results up to the head of the chain are those of `rollback`.            *)
(***************************************************************************)
EXTENDS LedgerProofs, FiniteSetTheorems

-----------------------------------------------------------------------------
(* 1. The invariant.                                                       *)

\* Timestamps are unique over both kinds of record, and none is ahead of the
\* timestamp source.
Dated(accts, xfers, ts) ==
    /\ \A i \in DOMAIN xfers : xfers[i].timestamp \in 1..ts
    /\ \A a \in DOMAIN accts : accts[a].timestamp \in 1..ts
    /\ \A i, j \in DOMAIN xfers : xfers[i].timestamp = xfers[j].timestamp => i = j
    /\ \A a, b \in DOMAIN accts : accts[a].timestamp = accts[b].timestamp => a = b
    /\ \A i \in DOMAIN xfers, a \in DOMAIN accts :
          xfers[i].timestamp # accts[a].timestamp

\* A transfer moves between two different accounts that exist.
SidesKnown(accts, xfers) ==
    \A i \in DOMAIN xfers :
        /\ xfers[i].debit_account_id \in DOMAIN accts
        /\ xfers[i].credit_account_id \in DOMAIN accts
        /\ xfers[i].debit_account_id # xfers[i].credit_account_id

Resolves(xfers, j, i) == xfers[j].pending_id = i /\ IsResolution(xfers[j])

SettlementOf(t) == IF classify(t) = "Post" THEN "Posted" ELSE "Voided"

\* Only pendings are resolved; a post or a void names the pending whose state
\* it is, alone; a posted or voided state has such a transfer.
Settlements(xfers, states) ==
    /\ \A i \in DOMAIN states : i \in DOMAIN xfers /\ "PENDING" \in xfers[i].flags
    /\ \A i \in DOMAIN states : states[i] # "Expired" =>
          \E j \in DOMAIN xfers : Resolves(xfers, j, i)
    /\ \A i, j \in DOMAIN xfers : Resolves(xfers, j, i) =>
          i \in DOMAIN states /\ states[i] = SettlementOf(xfers[j])
    /\ \A j \in DOMAIN xfers : IsResolution(xfers[j]) =>
          xfers[j].pending_id \in DOMAIN xfers
    /\ \A j, k \in DOMAIN xfers :
          /\ IsResolution(xfers[j]) /\ IsResolution(xfers[k])
          /\ xfers[j].pending_id = xfers[k].pending_id
          => j = k

\* Transfer i closes account a and is neither voided nor expired.
Holds(xfers, states, i, a) ==
    /\ ClosesAccount(xfers[i], a)
    /\ i \in DOMAIN states => states[i] = "Posted"

MayStartClosed(a) ==
    \E spec \in AccountSpecs : spec.id = a /\ "CLOSED" \in spec.flags

MustStartClosed(a) ==
    \A spec \in AccountSpecs : spec.id = a => "CLOSED" \in spec.flags

\* At most one closing pending holds an account at a time, and none holds an
\* account that was created closed.
Closings(accts, xfers, states) ==
    \A a \in DOMAIN accts :
        /\ \A i \in DOMAIN xfers :
              Holds(xfers, states, i, a) => "CLOSED" \in accts[a].flags
        /\ \A i, j \in DOMAIN xfers :
              Holds(xfers, states, i, a) /\ Holds(xfers, states, j, a) => i = j
        /\ "CLOSED" \in accts[a].flags =>
              \/ \E i \in DOMAIN xfers : Holds(xfers, states, i, a)
              \/ MayStartClosed(a)
        /\ MustStartClosed(a) =>
              /\ "CLOSED" \in accts[a].flags
              /\ \A i \in DOMAIN xfers : ~Holds(xfers, states, i, a)

RecordsExact(accts, xfers, states, ts) ==
    /\ Dated(accts, xfers, ts)
    /\ SidesKnown(accts, xfers)
    /\ Settlements(xfers, states)
    /\ Closings(accts, xfers, states)

\* What an overlay adds to the committed records.
Extends(s) ==
    /\ \A i \in DOMAIN transfers :
          i \in DOMAIN s.transfers /\ s.transfers[i] = transfers[i]
    /\ \A i \in DOMAIN pending_state :
          i \in DOMAIN s.resolved /\ s.resolved[i] = pending_state[i]
    /\ \A i \in DOMAIN s.transfers \ DOMAIN transfers :
          s.transfers[i].timestamp > watermark
    /\ watermark <= s.ts
    /\ s.accepted = {} => s.ts = watermark
    /\ DOMAIN s.transfers =
          DOMAIN transfers \cup (IF pc = "create_transfers" THEN s.accepted ELSE {})
    /\ pc = "create_transfers" => s.accepted \cap DOMAIN transfers = {}

Unburned(s) == Burned(s) \cap DOMAIN s.transfers = {}

\* The index entries an overlay drops are those of the timed pendings it
\* resolved.
Dropped(s) ==
    s.expiry_removals =
        {ExpiryKey(s.transfers[i]) :
            i \in {j \in DOMAIN s.resolved \ DOMAIN pending_state : Timed(s.transfers[j])}}

OverlayExact(s) ==
    /\ RecordsExact(s.accounts, s.transfers, s.resolved, s.ts)
    /\ Extends(s) /\ Unburned(s) /\ Dropped(s)

HistoryInv ==
    /\ LedgerInv
    /\ RecordsExact(accounts, transfers, pending_state, watermark)
    /\ ExpiryIndexExact
    /\ OverlayExact(apply) /\ OverlayExact(rollback)
    /\ DOMAIN rollback.transfers \subseteq DOMAIN apply.transfers
    /\ pc = "idle" => apply.accepted = {} /\ rollback.accepted = {}

-----------------------------------------------------------------------------
(* 2. What an item does to an overlay.                                     *)

\* From s to r the buckets of the sides of t move: `pend` on the pending ones
\* and `post` on the posted ones.
Shifted(r, s, t, pend, post) ==
    /\ DOMAIN r.accounts = DOMAIN s.accounts
    /\ \A a \in DOMAIN s.accounts :
          LET old == s.accounts[a]
              new == r.accounts[a]
              debit(n) == IF a = t.debit_account_id THEN n ELSE 0
              credit(n) == IF a = t.credit_account_id THEN n ELSE 0
          IN  /\ new.timestamp = old.timestamp
              /\ new.debits_pending = old.debits_pending + debit(pend)
              /\ new.debits_posted = old.debits_posted + debit(post)
              /\ new.credits_pending = old.credits_pending + credit(pend)
              /\ new.credits_posted = old.credits_posted + credit(post)

IsClosed(s, a) == "CLOSED" \in s.accounts[a].flags

SameClosed(r, s) == \A a \in DOMAIN s.accounts : IsClosed(r, a) <=> IsClosed(s, a)

Closes(r, s, t) ==
    \A a \in DOMAIN s.accounts :
        IsClosed(r, a) <=> (IsClosed(s, a) \/ ClosesAccount(t, a))

Reopens(r, s, t) ==
    \A a \in DOMAIN s.accounts :
        IsClosed(r, a) <=> (IsClosed(s, a) /\ ~ClosesAccount(t, a))

\* t moves between two different accounts of s.
SidesIn(s, t) ==
    /\ t.debit_account_id \in DOMAIN s.accounts
    /\ t.credit_account_id \in DOMAIN s.accounts
    /\ t.debit_account_id # t.credit_account_id

\* The transfer v is accepted: common to every kind.
Recorded(r, s, v) ==
    /\ v \in Transfer /\ v.id \notin DOMAIN s.transfers /\ v.id \notin Burned(s)
    /\ OverlaySound(r)
    /\ r.transfers = Put(s.transfers, v.id, v)
    /\ r.accepted = s.accepted \cup {v.id} /\ r.failed_ids = s.failed_ids
    /\ r.ts = v.timestamp /\ v.timestamp > s.ts

\* A regular transfer.
Booked(r, s, v) ==
    /\ Recorded(r, s, v) /\ classify(v) = "Regular" /\ v.flags \cap Closing = {}
    /\ SidesIn(s, v)
    /\ r.resolved = s.resolved /\ r.expiry_removals = s.expiry_removals
    /\ Shifted(r, s, v, 0, v.amount) /\ SameClosed(r, s)

\* A reservation; it may close an account that is open.
Reserved(r, s, v) ==
    /\ Recorded(r, s, v) /\ classify(v) = "PendingReserve"
    /\ SidesIn(s, v)
    /\ ~IsClosed(s, v.debit_account_id) /\ ~IsClosed(s, v.credit_account_id)
    /\ r.resolved = s.resolved /\ r.expiry_removals = s.expiry_removals
    /\ Shifted(r, s, v, v.amount, 0) /\ Closes(r, s, v)

\* p is a reservation of s that is still outstanding.
OutstandingIn(s, p) ==
    /\ p \in Transfer /\ p.id \in DOMAIN s.transfers /\ p = s.transfers[p.id]
    /\ "PENDING" \in p.flags /\ p.id \notin DOMAIN s.resolved

\* A post of p, whole or in part.
PostedBy(r, s, v, p) ==
    /\ Recorded(r, s, v) /\ classify(v) = "Post" /\ v.flags \cap Closing = {}
    /\ "PENDING" \notin v.flags
    /\ OutstandingIn(s, p) /\ v.pending_id = p.id
    /\ v.debit_account_id = p.debit_account_id
    /\ v.credit_account_id = p.credit_account_id
    /\ r.resolved = Put(s.resolved, p.id, "Posted")
    /\ r.expiry_removals = s.expiry_removals \cup IndexEntry(p)
    /\ Shifted(r, s, p, -p.amount, v.amount) /\ SameClosed(r, s)

\* A void of p.
VoidedBy(r, s, v, p) ==
    /\ Recorded(r, s, v) /\ classify(v) = "Void" /\ v.flags \cap Closing = {}
    /\ "PENDING" \notin v.flags
    /\ OutstandingIn(s, p) /\ v.pending_id = p.id
    /\ v.debit_account_id = p.debit_account_id
    /\ v.credit_account_id = p.credit_account_id
    /\ r.resolved = Put(s.resolved, p.id, "Voided")
    /\ r.expiry_removals = s.expiry_removals \cup IndexEntry(p)
    /\ Shifted(r, s, p, -p.amount, 0) /\ Reopens(r, s, p)

\* The expiry of p: no transfer is recorded.
ExpiredIn(r, s, p) ==
    /\ OverlaySound(r) /\ OutstandingIn(s, p)
    /\ r.transfers = s.transfers /\ r.accepted = s.accepted
    /\ r.failed_ids = s.failed_ids /\ r.ts = s.ts
    /\ r.resolved = Put(s.resolved, p.id, "Expired")
    /\ r.expiry_removals = s.expiry_removals \cup {ExpiryKey(p)} /\ p.timeout # 0
    /\ Shifted(r, s, p, -p.amount, 0) /\ Reopens(r, s, p)

\* A new account, with nothing on it.
Opened(r, s, v) ==
    /\ v \in Account /\ v.id \notin DOMAIN s.accounts
    /\ OverlaySound(r)
    /\ r.accounts = Put(s.accounts, v.id, v)
    /\ r.transfers = s.transfers /\ r.resolved = s.resolved
    /\ r.expiry_removals = s.expiry_removals /\ r.failed_ids = s.failed_ids
    /\ r.accepted = s.accepted \cup {v.id}
    /\ r.ts = v.timestamp /\ v.timestamp > s.ts
    /\ v.debits_pending = 0 /\ v.debits_posted = 0
    /\ v.credits_pending = 0 /\ v.credits_posted = 0
    /\ \E spec \in AccountSpecs : spec.id = v.id /\ spec.flags = v.flags

LEMMA SidesPointwise ==
    ASSUME NEW s, OverlaySound(s), NEW d, NEW c, d.id # c.id,
           d.id \in DOMAIN s.accounts, c.id \in DOMAIN s.accounts,
           NEW r, r.accounts = WithSides(s, d, c).accounts
    PROVE  /\ DOMAIN r.accounts = DOMAIN s.accounts
           /\ r.accounts[d.id] = d /\ r.accounts[c.id] = c
           /\ \A a \in DOMAIN s.accounts \ {d.id, c.id} : r.accounts[a] = s.accounts[a]
<1> DEFINE g == Put(Put(s.accounts, d.id, d), c.id, c)
<1>1. "accounts" \in DOMAIN s
  BY OverlayFields DEF ApplyKeys
<1>2. r.accounts = g
  BY <1>1 DEF WithSides
<1>3. /\ DOMAIN g = DOMAIN s.accounts
      /\ g[d.id] = d /\ g[c.id] = c
      /\ \A a \in DOMAIN s.accounts \ {d.id, c.id} : g[a] = s.accounts[a]
  BY DEF Put
<1> QED BY <1>2, <1>3

\* The bucket of x moves by pend and post on the debit side.
DebitMoved(x, old, pend, post) ==
    /\ x \in Account /\ old \in Account /\ x.id = old.id /\ x.timestamp = old.timestamp
    /\ x.debits_pending = old.debits_pending + pend
    /\ x.debits_posted = old.debits_posted + post
    /\ x.credits_pending = old.credits_pending /\ x.credits_posted = old.credits_posted

CreditMoved(x, old, pend, post) ==
    /\ x \in Account /\ old \in Account /\ x.id = old.id /\ x.timestamp = old.timestamp
    /\ x.credits_pending = old.credits_pending + pend
    /\ x.credits_posted = old.credits_posted + post
    /\ x.debits_pending = old.debits_pending /\ x.debits_posted = old.debits_posted

LEMMA AccountNumbers ==
    ASSUME NEW a \in Account
    PROVE  /\ a.debits_pending \in Nat /\ a.debits_posted \in Nat
           /\ a.credits_pending \in Nat /\ a.credits_posted \in Nat
           /\ a.timestamp \in Nat /\ a.id \in Nat
BY LedgerAssumption DEF Account, Amount

LEMMA SidesShifted ==
    ASSUME NEW s, OverlaySound(s), NEW t, SidesIn(s, t),
           NEW pend \in Int, NEW post \in Int,
           NEW d, DebitMoved(d, s.accounts[t.debit_account_id], pend, post),
           NEW c, CreditMoved(c, s.accounts[t.credit_account_id], pend, post),
           NEW r, r.accounts = WithSides(s, d, c).accounts
    PROVE  Shifted(r, s, t, pend, post)
<1>1. \A a \in DOMAIN s.accounts : s.accounts[a].id = a /\ s.accounts[a] \in Account
  BY OverlayFields DEF Keyed, IsMap
<1>2. d.id = t.debit_account_id /\ c.id = t.credit_account_id /\ d.id # c.id
  BY <1>1 DEF SidesIn, DebitMoved, CreditMoved
<1>3. /\ DOMAIN r.accounts = DOMAIN s.accounts
      /\ r.accounts[d.id] = d /\ r.accounts[c.id] = c
      /\ \A a \in DOMAIN s.accounts \ {d.id, c.id} : r.accounts[a] = s.accounts[a]
  BY <1>2, SidesPointwise DEF SidesIn
<1>4. ASSUME NEW a \in DOMAIN s.accounts
      PROVE  /\ r.accounts[a].timestamp = s.accounts[a].timestamp
             /\ r.accounts[a].debits_pending = s.accounts[a].debits_pending
                  + (IF a = t.debit_account_id THEN pend ELSE 0)
             /\ r.accounts[a].debits_posted = s.accounts[a].debits_posted
                  + (IF a = t.debit_account_id THEN post ELSE 0)
             /\ r.accounts[a].credits_pending = s.accounts[a].credits_pending
                  + (IF a = t.credit_account_id THEN pend ELSE 0)
             /\ r.accounts[a].credits_posted = s.accounts[a].credits_posted
                  + (IF a = t.credit_account_id THEN post ELSE 0)
  <2>1. /\ s.accounts[a].debits_pending \in Nat /\ s.accounts[a].debits_posted \in Nat
        /\ s.accounts[a].credits_pending \in Nat /\ s.accounts[a].credits_posted \in Nat
    BY <1>1, AccountNumbers
  <2>2. CASE a = t.debit_account_id
    BY <1>2, <1>3, <2>1, <2>2 DEF DebitMoved
  <2>3. CASE a = t.credit_account_id
    BY <1>2, <1>3, <2>1, <2>3 DEF CreditMoved
  <2>4. CASE a \notin {t.debit_account_id, t.credit_account_id}
    BY <1>2, <1>3, <2>1, <2>4
  <2> QED BY <2>2, <2>3, <2>4
<1> QED BY <1>3, <1>4 DEF Shifted

\* The timestamp an accepted item is given.
Stamp(s, x) == IF BatchImported THEN x.timestamp ELSE Peek(s)

LEMMA StampIsNat ==
    ASSUME NEW s, OverlaySound(s), clock \in Nat, NEW x, x.timestamp \in Nat,
           BatchImported => x.timestamp > s.ts
    PROVE  Stamp(s, x) \in Nat /\ Stamp(s, x) > s.ts
<1>1. s.ts \in Nat
  BY OverlayFields
<1> QED BY <1>1 DEF Stamp, Peek

\* What process_transfer has checked when it accepts t.
LEMMA TransferAccepted ==
    ASSUME NEW s, OverlaySound(s), NEW t \in Transfer, clock \in Nat,
           TransferCode(s, t) = "Created"
    PROVE  /\ t.id \notin DOMAIN s.transfers /\ t.id \notin Burned(s)
           /\ ~InvalidTransfer(t)
           /\ IsResolution(t) => ResolutionCode(s, t) = "Created"
           /\ classify(t) = "PendingReserve" => PendingCode(s, t) = "Created"
           /\ classify(t) = "Regular" => RegularCode(s, t) = "Created"
           /\ Stamp(s, t) \in Nat /\ Stamp(s, t) > s.ts
<1>1. /\ t.id \notin DOMAIN s.transfers /\ t.id \notin Burned(s) /\ ~InvalidTransfer(t)
  BY DEF TransferCode, transfer_exists_result
<1>2. /\ IsResolution(t) => ResolutionCode(s, t) = "Created"
      /\ classify(t) = "PendingReserve" => PendingCode(s, t) = "Created"
      /\ classify(t) = "Regular" => RegularCode(s, t) = "Created"
  BY DEF TransferCode, transfer_exists_result, IsResolution
<1>3. t.timestamp \in Nat /\ s.ts \in Nat
  BY OverlayFields DEF Transfer
<1>4. BatchImported => t.timestamp > s.ts
  <2>1. CASE IsResolution(t)
    <3>1. \E d, c : ~ImportedRefused(s, t, d, c)
      BY <1>2, <2>1, Zenon DEF ResolutionCode
    <3> QED BY <1>3, <3>1 DEF ImportedRefused
  <2>2. CASE ~IsResolution(t)
    <3>1. AccountsCode(s, t) = "Created"
      BY <1>2, <2>2 DEF RegularCode, PendingCode, IsResolution, classify
    <3>2. \E d, c : ~ImportedRefused(s, t, d, c)
      BY <3>1, Zenon DEF AccountsCode
    <3> QED BY <1>3, <3>2 DEF ImportedRefused
  <2> QED BY <2>1, <2>2
<1> QED BY <1>1, <1>2, <1>3, <1>4, StampIsNat

\* A record under its own id, stamped, over a staged movement q.
StagedOver(r, q, t, v) ==
    r = [q EXCEPT !.transfers = Put(@, t.id, v), !.accepted = @ \cup {t.id},
                  !.ts = v.timestamp]

\* q moves balances of s, and no more than balances and pending states.
Staging(q, s) ==
    /\ OverlaySound(q) /\ q.transfers = s.transfers /\ q.accepted = s.accepted
    /\ q.failed_ids = s.failed_ids

LEMMA Recording ==
    ASSUME NEW s, OverlaySound(s), NEW t \in Transfer, clock \in Nat,
           TransferCode(s, t) = "Created", NEW q, Staging(q, s),
           NEW v \in Transfer, v.id = t.id, v.timestamp = Stamp(s, t),
           NEW r, StagedOver(r, q, t, v)
    PROVE  /\ Recorded(r, s, v)
           /\ r.accounts = q.accounts /\ r.resolved = q.resolved
           /\ r.expiry_removals = q.expiry_removals
<1>1. /\ t.id \notin DOMAIN s.transfers /\ t.id \notin Burned(s)
      /\ Stamp(s, t) \in Nat /\ Stamp(s, t) > s.ts
  BY TransferAccepted
<1>2. /\ OverlaySound(q) /\ q.transfers = s.transfers /\ q.accepted = s.accepted
      /\ q.failed_ids = s.failed_ids
  BY DEF Staging
<1>3. DOMAIN q = ApplyKeys /\ Keyed(q.transfers, Transfer) /\ q.accepted \subseteq Nat
  BY <1>2, OverlayFields
<1>4. /\ DOMAIN r = ApplyKeys /\ r.accounts = q.accounts
      /\ r.transfers = Put(q.transfers, t.id, v)
      /\ r.resolved = q.resolved /\ r.expiry_removals = q.expiry_removals
      /\ r.failed_ids = q.failed_ids /\ r.accepted = q.accepted \cup {t.id}
      /\ r.ts = Stamp(s, t)
  BY <1>3 DEF ApplyKeys, StagedOver
<1>5. Keyed(r.transfers, Transfer) /\ r.accepted \subseteq Nat
  <2>1. v.id \in Nat
    BY DEF Transfer
  <2>2. Keyed(Put(q.transfers, v.id, v), Transfer)
    BY <1>3, <2>1, PutKeyed
  <2> QED BY <1>3, <1>4, <2>1, <2>2
<1>6. OverlaySound(r)
  BY <1>1, <1>2, <1>4, <1>5, OverlayFields
<1> QED BY <1>1, <1>2, <1>4, <1>6 DEF Recorded

\* The record an accepted transfer leaves.
Unstamped(s, t) ==
    IF IsResolution(t) THEN Materialized(t, s.transfers[t.pending_id])
    ELSE [t EXCEPT !.amount = Effective(s, t)]

RecordOf(s, t) == [Unstamped(s, t) EXCEPT !.timestamp = Stamp(s, t)]

\* A balance check keeps the debit side of an accepted movement open.
LEMMA SidesOpen ==
    ASSUME NEW s, NEW t, AccountsCode(s, t) = "Created"
    PROVE  /\ t.debit_account_id \in DOMAIN s.accounts
           /\ t.credit_account_id \in DOMAIN s.accounts
           /\ ~IsClosed(s, t.debit_account_id) /\ ~IsClosed(s, t.credit_account_id)
BY DEF AccountsCode, IsClosed

LEMMA BookedEffect ==
    ASSUME NEW s, OverlaySound(s), NEW t \in Transfer, clock \in Nat,
           TransferCode(s, t) = "Created", classify(t) = "Regular"
    PROVE  Booked(process_transfer(s, t), s, RecordOf(s, t))
<1> DEFINE r == process_transfer(s, t)
           v == RecordOf(s, t)
           q == stage_regular(s, t)
           n == Effective(s, t)
           d == RegularDebit(s, t)
           c == RegularCredit(s, t)
           debit == s.accounts[t.debit_account_id]
           credit == s.accounts[t.credit_account_id]
<1>1. /\ RegularCode(s, t) = "Created" /\ ~InvalidTransfer(t) /\ ~IsResolution(t)
      /\ AccountsCode(s, t) = "Created"
  BY TransferAccepted DEF IsResolution, RegularCode
<1>2. MovesOnly(q, s) /\ n \in Amount /\ n \in Nat
  BY <1>1, RegularSound, LedgerAssumption DEF Amount
<1>3. /\ v \in Transfer /\ v.id = t.id /\ v.timestamp = Stamp(s, t)
      /\ v.flags = t.flags /\ v.amount = n
      /\ v.debit_account_id = t.debit_account_id /\ v.credit_account_id = t.credit_account_id
  <2>1. v = [t EXCEPT !.amount = n, !.timestamp = Stamp(s, t)]
    BY <1>1 DEF RecordOf, Unstamped
  <2>2. Stamp(s, t) \in Nat
    BY TransferAccepted
  <2> HIDE DEF v, n
  <2> QED BY <1>2, <2>1, <2>2 DEF Transfer
<1>4. StagedOver(r, q, t, v)
  <2>1. v = [[t EXCEPT !.amount = n] EXCEPT !.timestamp = Stamp(s, t)]
    BY <1>1 DEF RecordOf, Unstamped
  <2>2. r = [q EXCEPT !.transfers = Put(@, t.id, v), !.accepted = @ \cup {t.id},
                      !.ts = Stamp(s, t)]
    BY <1>1, <2>1, Zenon DEF process_transfer, Stamp
  <2> QED BY <1>3, <2>2 DEF StagedOver
<1>5. Sound(debit) /\ Sound(credit)
  BY <1>1, SidesExist
<1>6. SidesIn(s, t)
  BY <1>1, SidesOpen DEF SidesIn, InvalidTransfer
<1>7. /\ DebitMoved(d, debit, 0, n) /\ d.flags = debit.flags
  <2>1. d = [debit EXCEPT !.debits_posted = @ + n]
    BY DEF RegularDebit
  <2>2. Sound(d)
    <3>1. /\ ~ExceedsCredits(d) /\ ~Overflows(d, c)
      BY <1>1 DEF RegularCode, BalanceCode
    <3>2. /\ d.debits_posted \in Nat /\ d.debits_pending \in Nat
      BY <1>2, <1>5, <2>1, AccountNumbers DEF Sound, Account
    <3> HIDE DEF d, c, debit, n
    <3>3. d.debits_posted + d.debits_pending <= AmountMax
      BY <3>1, <3>2, LedgerAssumption DEF Overflows
    <3> QED BY <1>2, <1>5, <2>1, <3>1, <3>3, DebitPostedSound
  <2> HIDE DEF d, debit, n
  <2>3. debit.debits_pending \in Nat /\ debit \in Account /\ d \in Account
    BY <1>5, <2>2, AccountNumbers DEF Sound
  <2> QED BY <2>1, <2>3 DEF Account, DebitMoved
<1>8. CreditMoved(c, credit, 0, n) /\ c.flags = credit.flags
  <2>1. c = [credit EXCEPT !.credits_posted = @ + n]
    BY DEF RegularCredit
  <2>2. Sound(c)
    <3>1. /\ ~ExceedsDebits(c) /\ ~Overflows(d, c)
      BY <1>1 DEF RegularCode, BalanceCode
    <3>2. /\ c.credits_posted \in Nat /\ c.credits_pending \in Nat
      BY <1>2, <1>5, <2>1, AccountNumbers DEF Sound, Account
    <3> HIDE DEF d, c, credit, n
    <3>3. c.credits_posted + c.credits_pending <= AmountMax
      BY <3>1, <3>2, LedgerAssumption DEF Overflows
    <3> QED BY <1>2, <1>5, <2>1, <3>1, <3>3, CreditPostedSound
  <2> HIDE DEF c, credit, n
  <2>3. credit.credits_pending \in Nat /\ credit \in Account /\ c \in Account
    BY <1>5, <2>2, AccountNumbers DEF Sound
  <2> QED BY <2>1, <2>3 DEF Account, CreditMoved
<1>9. /\ Recorded(r, s, v) /\ r.accounts = q.accounts /\ r.resolved = q.resolved
      /\ r.expiry_removals = q.expiry_removals
  <2>1. Staging(q, s)
    BY <1>2 DEF MovesOnly, Staging
  <2> HIDE DEF q, r, v
  <2> QED BY <1>3, <1>4, <2>1, Recording
<1>10. r.accounts = WithSides(s, d, c).accounts
  BY <1>9 DEF stage_regular
<1>11. Shifted(r, s, t, 0, n)
  <2> HIDE DEF r, d, c, n
  <2> QED BY <1>2, <1>6, <1>7, <1>8, <1>10, SidesShifted
<1>12. SameClosed(r, s)
  <2>1. /\ d.id = t.debit_account_id /\ c.id = t.credit_account_id
    <3>1. \A a \in DOMAIN s.accounts : s.accounts[a].id = a
      BY OverlayFields DEF Keyed
    <3> QED BY <1>6, <1>7, <1>8, <3>1 DEF DebitMoved, CreditMoved, SidesIn
  <2> HIDE DEF r, d, c
  <2>2. /\ r.accounts[d.id] = d /\ r.accounts[c.id] = c
        /\ \A a \in DOMAIN s.accounts \ {d.id, c.id} : r.accounts[a] = s.accounts[a]
    BY <1>6, <1>10, <2>1, SidesPointwise DEF SidesIn
  <2> QED BY <1>7, <1>8, <2>1, <2>2 DEF SameClosed, IsClosed
<1>13. classify(v) = "Regular" /\ v.flags \cap Closing = {}
  <2>1. classify(v) = classify(t)
    BY <1>3 DEF classify
  <2>2. "PENDING" \notin t.flags
    BY DEF classify
  <2> QED BY <1>1, <1>3, <2>1, <2>2 DEF InvalidTransfer
<1>14. SidesIn(s, v) /\ Shifted(r, s, v, 0, v.amount)
  <2> HIDE DEF r, v, n
  <2> QED BY <1>3, <1>6, <1>11 DEF SidesIn, Shifted
<1>15. r.resolved = s.resolved /\ r.expiry_removals = s.expiry_removals
  BY <1>2, <1>9 DEF MovesOnly
<1> HIDE DEF r, v
<1>16. Booked(r, s, v)
  BY <1>9, <1>12, <1>13, <1>14, <1>15 DEF Booked
<1> QED BY <1>16 DEF r, v

\* The accounts of a sound overlay are accounts, stored under their ids.
LEMMA AccountAt ==
    ASSUME NEW s, OverlaySound(s), NEW a \in DOMAIN s.accounts
    PROVE  s.accounts[a] \in Account /\ s.accounts[a].id = a
BY OverlayFields DEF Keyed, IsMap

LEMMA WrittenSides ==
    ASSUME NEW s, OverlaySound(s), NEW t, SidesIn(s, t),
           NEW d, d.id = t.debit_account_id, NEW c, c.id = t.credit_account_id,
           OverlaySound(WithSides(s, d, c))
    PROVE  d \in Account /\ c \in Account
<1> DEFINE q == WithSides(s, d, c)
<1>1. /\ DOMAIN q.accounts = DOMAIN s.accounts
      /\ q.accounts[d.id] = d /\ q.accounts[c.id] = c
  BY SidesPointwise DEF SidesIn
<1> HIDE DEF q
<1>2. q.accounts[d.id] \in Account /\ q.accounts[c.id] \in Account
  BY <1>1, AccountAt DEF SidesIn, q
<1> QED BY <1>1, <1>2

LEMMA ReservedEffect ==
    ASSUME NEW s, OverlaySound(s), NEW t \in Transfer, clock \in Nat,
           TransferCode(s, t) = "Created", classify(t) = "PendingReserve"
    PROVE  Reserved(process_transfer(s, t), s, RecordOf(s, t))
<1> DEFINE r == process_transfer(s, t)
           v == RecordOf(s, t)
           q == stage_pending(s, t)
           n == Effective(s, t)
           d == PendingDebit(s, t)
           c == PendingCredit(s, t)
           debit == s.accounts[t.debit_account_id]
           credit == s.accounts[t.credit_account_id]
<1>1. /\ PendingCode(s, t) = "Created" /\ ~InvalidTransfer(t) /\ ~IsResolution(t)
      /\ AccountsCode(s, t) = "Created"
  BY TransferAccepted DEF IsResolution, PendingCode
<1>2. MovesOnly(q, s) /\ n \in Amount /\ n \in Nat
  BY <1>1, PendingSound, LedgerAssumption DEF Amount
<1>3. /\ v \in Transfer /\ v.id = t.id /\ v.timestamp = Stamp(s, t)
      /\ v.flags = t.flags /\ v.amount = n
      /\ v.debit_account_id = t.debit_account_id /\ v.credit_account_id = t.credit_account_id
  <2>1. v = [t EXCEPT !.amount = n, !.timestamp = Stamp(s, t)]
    BY <1>1 DEF RecordOf, Unstamped
  <2>2. Stamp(s, t) \in Nat
    BY TransferAccepted
  <2> HIDE DEF v, n
  <2> QED BY <1>2, <2>1, <2>2 DEF Transfer
<1>4. StagedOver(r, q, t, v)
  <2>1. v = [[t EXCEPT !.amount = n] EXCEPT !.timestamp = Stamp(s, t)]
    BY <1>1 DEF RecordOf, Unstamped
  <2>2. r = [q EXCEPT !.transfers = Put(@, t.id, v), !.accepted = @ \cup {t.id},
                      !.ts = Stamp(s, t)]
    BY <1>1, <2>1, Zenon DEF process_transfer, Stamp
  <2> QED BY <1>3, <2>2 DEF StagedOver
<1>5. SidesIn(s, t) /\ ~IsClosed(s, t.debit_account_id) /\ ~IsClosed(s, t.credit_account_id)
  BY <1>1, SidesOpen DEF SidesIn, InvalidTransfer
<1>6. debit \in Account /\ credit \in Account
      /\ debit.id = t.debit_account_id /\ credit.id = t.credit_account_id
  BY <1>5, AccountAt DEF SidesIn
<1>7. /\ d.id = debit.id /\ d.timestamp = debit.timestamp
      /\ d.debits_pending = debit.debits_pending + n
      /\ d.debits_posted = debit.debits_posted
      /\ d.credits_pending = debit.credits_pending
      /\ d.credits_posted = debit.credits_posted
      /\ "CLOSED" \in d.flags <=> ("CLOSED" \in debit.flags \/ "CLOSING_DEBIT" \in t.flags)
  BY <1>6 DEF PendingDebit, Account
<1>8. /\ c.id = credit.id /\ c.timestamp = credit.timestamp
      /\ c.credits_pending = credit.credits_pending + n
      /\ c.credits_posted = credit.credits_posted
      /\ c.debits_pending = credit.debits_pending
      /\ c.debits_posted = credit.debits_posted
      /\ "CLOSED" \in c.flags <=> ("CLOSED" \in credit.flags \/ "CLOSING_CREDIT" \in t.flags)
  BY <1>6 DEF PendingCredit, Account
<1>9. d \in Account /\ c \in Account
  <2>1. OverlaySound(WithSides(s, d, c))
    BY <1>2 DEF MovesOnly, stage_pending
  <2> HIDE DEF d, c
  <2> QED BY <1>5, <1>6, <1>7, <1>8, <2>1, WrittenSides
<1>10. DebitMoved(d, debit, n, 0) /\ CreditMoved(c, credit, n, 0)
  <2> HIDE DEF d, c, debit, credit, n
  <2> QED BY <1>6, <1>7, <1>8, <1>9, AccountNumbers DEF DebitMoved, CreditMoved
<1>11. /\ Recorded(r, s, v) /\ r.accounts = q.accounts /\ r.resolved = q.resolved
       /\ r.expiry_removals = q.expiry_removals
  <2>1. Staging(q, s)
    BY <1>2 DEF MovesOnly, Staging
  <2> HIDE DEF q, r, v
  <2> QED BY <1>3, <1>4, <2>1, Recording
<1>12. r.accounts = WithSides(s, d, c).accounts
  BY <1>11 DEF stage_pending
<1>13. Shifted(r, s, t, n, 0)
  <2> HIDE DEF r, d, c, n
  <2> QED BY <1>2, <1>5, <1>10, <1>12, SidesShifted
<1>14. Closes(r, s, t)
  <2> HIDE DEF r, d, c
  <2>1. /\ r.accounts[d.id] = d /\ r.accounts[c.id] = c
        /\ \A a \in DOMAIN s.accounts \ {d.id, c.id} : r.accounts[a] = s.accounts[a]
    BY <1>5, <1>6, <1>7, <1>8, <1>12, SidesPointwise DEF SidesIn
  <2> QED BY <1>5, <1>6, <1>7, <1>8, <2>1 DEF Closes, IsClosed, ClosesAccount, SidesIn
<1>15. classify(v) = "PendingReserve"
  BY <1>3 DEF classify
<1>16. /\ SidesIn(s, v) /\ Shifted(r, s, v, v.amount, 0) /\ Closes(r, s, v)
       /\ ~IsClosed(s, v.debit_account_id) /\ ~IsClosed(s, v.credit_account_id)
  <2> HIDE DEF r, v, n
  <2> QED BY <1>3, <1>5, <1>13, <1>14 DEF SidesIn, Shifted, Closes, ClosesAccount
<1>17. r.resolved = s.resolved /\ r.expiry_removals = s.expiry_removals
  BY <1>2, <1>11 DEF MovesOnly
<1> HIDE DEF r, v
<1>18. Reserved(r, s, v)
  BY <1>11, <1>15, <1>16, <1>17 DEF Reserved
<1> QED BY <1>18 DEF r, v

\* Releasing p, with `posted` of it posted.
LEMMA ReleaseEffect ==
    ASSUME NEW s, OverlaySound(s), NEW p \in Transfer, ReservationHeld(s, p),
           p.debit_account_id # p.credit_account_id,
           NEW m \in 0..p.amount, NEW reopen \in BOOLEAN,
           NEW r, r.accounts = WithSides(s, ReleaseDebit(s, p, m, reopen),
                                            ReleaseCredit(s, p, m, reopen)).accounts
    PROVE  /\ Shifted(r, s, p, -p.amount, m)
           /\ reopen => Reopens(r, s, p)
           /\ ~reopen => SameClosed(r, s)
<1> DEFINE d == ReleaseDebit(s, p, m, reopen)
           c == ReleaseCredit(s, p, m, reopen)
           q == WithSides(s, d, c)
           debit == s.accounts[p.debit_account_id]
           credit == s.accounts[p.credit_account_id]
<1>1. MovesOnly(q, s)
  BY ReleaseSound
<1>2. SidesIn(s, p) /\ p.amount \in Nat
  BY LedgerAssumption DEF ReservationHeld, SidesIn, Transfer, Amount
<1>3. debit \in Account /\ credit \in Account
      /\ debit.id = p.debit_account_id /\ credit.id = p.credit_account_id
  BY <1>2, AccountAt DEF SidesIn
<1>4. /\ debit.debits_pending \in Nat /\ credit.credits_pending \in Nat
      /\ debit.debits_pending - p.amount = debit.debits_pending + (-p.amount)
      /\ credit.credits_pending - p.amount = credit.credits_pending + (-p.amount)
  BY <1>2, <1>3, AccountNumbers
<1>5. /\ d.id = debit.id /\ d.timestamp = debit.timestamp
      /\ d.debits_pending = debit.debits_pending - p.amount
      /\ d.debits_posted = debit.debits_posted + m
      /\ d.credits_pending = debit.credits_pending
      /\ d.credits_posted = debit.credits_posted
      /\ "CLOSED" \in d.flags <=>
            ("CLOSED" \in debit.flags /\ ~(reopen /\ "CLOSING_DEBIT" \in p.flags))
  BY <1>3 DEF ReleaseDebit, Account
<1>6. /\ c.id = credit.id /\ c.timestamp = credit.timestamp
      /\ c.credits_pending = credit.credits_pending - p.amount
      /\ c.credits_posted = credit.credits_posted + m
      /\ c.debits_pending = credit.debits_pending
      /\ c.debits_posted = credit.debits_posted
      /\ "CLOSED" \in c.flags <=>
            ("CLOSED" \in credit.flags /\ ~(reopen /\ "CLOSING_CREDIT" \in p.flags))
  BY <1>3 DEF ReleaseCredit, Account
<1>7. d \in Account /\ c \in Account
  <2>1. OverlaySound(WithSides(s, d, c))
    BY <1>1 DEF MovesOnly
  <2> HIDE DEF d, c
  <2> QED BY <1>2, <1>3, <1>5, <1>6, <2>1, WrittenSides
<1>8. DebitMoved(d, debit, -p.amount, m) /\ CreditMoved(c, credit, -p.amount, m)
  <2> HIDE DEF d, c, debit, credit
  <2> QED BY <1>3, <1>4, <1>5, <1>6, <1>7 DEF DebitMoved, CreditMoved
<1> HIDE DEF d, c
<1>9. Shifted(r, s, p, -p.amount, m)
  <2>1. -p.amount \in Int /\ m \in Int
    BY <1>2
  <2> QED BY <1>2, <1>8, <2>1, SidesShifted DEF d, c
<1>10. /\ r.accounts[d.id] = d /\ r.accounts[c.id] = c
       /\ \A a \in DOMAIN s.accounts \ {d.id, c.id} : r.accounts[a] = s.accounts[a]
  <2>1. r.accounts = WithSides(s, d, c).accounts
    BY DEF d, c
  <2> QED BY <1>2, <1>3, <1>5, <1>6, <2>1, SidesPointwise DEF SidesIn
<1>11. reopen => Reopens(r, s, p)
  BY <1>2, <1>3, <1>5, <1>6, <1>10 DEF Reopens, IsClosed, ClosesAccount, SidesIn
<1>12. ~reopen => SameClosed(r, s)
  BY <1>2, <1>3, <1>5, <1>6, <1>10 DEF SameClosed, IsClosed, SidesIn
<1> QED BY <1>9, <1>11, <1>12

\* What a post or a void has established about its pending.
LEMMA ResolutionNames ==
    ASSUME NEW s, OverlaySound(s), NEW t \in Transfer, ResolutionCode(s, t) = "Created"
    PROVE  /\ OutstandingIn(s, s.transfers[t.pending_id])
           /\ s.transfers[t.pending_id].id = t.pending_id
<1> DEFINE p == s.transfers[t.pending_id]
<1>1. t.pending_id \in DOMAIN s.transfers
  BY DEF ResolutionCode
<1>2. p.id = t.pending_id
  BY <1>1, OverlayFields DEF Keyed
<1>3. MatchesPending(t, p)
  BY <1>1, Zenon DEF ResolutionCode
<1>4. p \in Transfer /\ p.id \notin DOMAIN s.resolved
  BY ResolutionAccepted
<1> QED BY <1>1, <1>2, <1>3, <1>4 DEF OutstandingIn, MatchesPending

\* The staged overlay of a resolution, and the record it leaves.
LEMMA ResolutionEffect ==
    ASSUME NEW s, OverlaySound(s), SidesKnown(s.accounts, s.transfers),
           NEW t \in Transfer, clock \in Nat,
           TransferCode(s, t) = "Created", IsResolution(t)
    PROVE  LET r == process_transfer(s, t)
               v == RecordOf(s, t)
               p == s.transfers[t.pending_id]
               posted == IF classify(t) = "Post" THEN v.amount ELSE 0
           IN  /\ Recorded(r, s, v) /\ v.flags = t.flags /\ v.pending_id = p.id
               /\ v.debit_account_id = p.debit_account_id
               /\ v.credit_account_id = p.credit_account_id
               /\ OutstandingIn(s, p)
               /\ r.resolved = Put(s.resolved, p.id, SettlementOf(t))
               /\ r.expiry_removals = s.expiry_removals \cup IndexEntry(p)
               /\ Shifted(r, s, p, -p.amount, posted)
               /\ classify(t) = "Post" => SameClosed(r, s)
               /\ classify(t) # "Post" => Reopens(r, s, p)
<1> DEFINE r == process_transfer(s, t)
           v == RecordOf(s, t)
           q == stage_resolution(s, t)
           p == s.transfers[t.pending_id]
           post == classify(t) = "Post"
           m == IF post THEN Settled(t, p) ELSE 0
           w == WithSides(s, ReleaseDebit(s, p, m, ~post), ReleaseCredit(s, p, m, ~post))
<1>1. ResolutionCode(s, t) = "Created"
  BY TransferAccepted
<1>2. /\ p \in Transfer /\ ReservationHeld(s, p) /\ Settled(t, p) \in 0..p.amount
  BY <1>1, ResolutionAccepted
<1>3. OutstandingIn(s, p) /\ p.id = t.pending_id
  BY <1>1, ResolutionNames
<1>4. /\ v \in Transfer /\ v.id = t.id /\ v.timestamp = Stamp(s, t)
      /\ v.flags = t.flags /\ v.amount = Settled(t, p) /\ v.pending_id = t.pending_id
      /\ v.debit_account_id = p.debit_account_id /\ v.credit_account_id = p.credit_account_id
  <2>1. v = [Materialized(t, p) EXCEPT !.timestamp = Stamp(s, t)]
    BY DEF RecordOf, Unstamped
  <2>2. Stamp(s, t) \in Nat
    BY TransferAccepted
  <2>3. Settled(t, p) \in Amount
    BY <1>2, LedgerAssumption DEF Transfer, Amount
  <2> HIDE DEF v, p
  <2> QED BY <1>2, <2>1, <2>2, <2>3 DEF Transfer, Materialized
<1>5. StagedOver(r, q, t, v)
  <2>1. v = [Materialized(t, p) EXCEPT !.timestamp = Stamp(s, t)]
    BY DEF RecordOf, Unstamped
  <2>2. r = [q EXCEPT !.transfers = Put(@, t.id, v), !.accepted = @ \cup {t.id},
                      !.ts = Stamp(s, t)]
    BY <2>1, Zenon DEF process_transfer, Stamp
  <2> QED BY <1>4, <2>2 DEF StagedOver
<1>6. m \in 0..p.amount /\ (~post) \in BOOLEAN
  <2>1. p.amount \in Nat
    BY <1>2, LedgerAssumption DEF Transfer, Amount
  <2> HIDE DEF p
  <2> QED BY <1>2, <2>1
<1>7. MovesOnly(w, s)
  <2> HIDE DEF p, m, post
  <2> QED BY <1>2, <1>6, ReleaseSound
<1>8. /\ q.accounts = w.accounts /\ q.transfers = s.transfers
      /\ q.resolved = Put(s.resolved, p.id, SettlementOf(t))
      /\ q.expiry_removals = s.expiry_removals \cup IndexEntry(p)
      /\ q.failed_ids = s.failed_ids /\ q.accepted = s.accepted
  <2>1. q = [w EXCEPT !.resolved = Put(s.resolved, p.id, SettlementOf(t)),
                      !.expiry_removals = @ \cup IndexEntry(p)]
    BY DEF stage_resolution, RecordSettled, SettlementOf
  <2>2. DOMAIN w = ApplyKeys
    BY <1>7, OverlayFields DEF MovesOnly
  <2> HIDE DEF q, w
  <2> QED BY <1>7, <2>1, <2>2 DEF ApplyKeys, MovesOnly
<1>9. Staging(q, s)
  BY <1>1, <1>8, ResolutionSound DEF Staging
<1>10. /\ Recorded(r, s, v) /\ r.accounts = q.accounts /\ r.resolved = q.resolved
       /\ r.expiry_removals = q.expiry_removals
  <2> HIDE DEF q, r, v
  <2> QED BY <1>4, <1>5, <1>9, Recording
<1>11. /\ Shifted(r, s, p, -p.amount, m)
       /\ ~post => Reopens(r, s, p)
       /\ post => SameClosed(r, s)
  <2>1. p.debit_account_id # p.credit_account_id
    BY <1>3 DEF OutstandingIn, SidesKnown
  <2>2. r.accounts = w.accounts
    BY <1>8, <1>10
  <2> HIDE DEF p, m, post, r
  <2> QED BY <1>2, <1>6, <2>1, <2>2, ReleaseEffect DEF w
<1>12. m = IF post THEN v.amount ELSE 0
  BY <1>4
<1> HIDE DEF r, v, q, p, m
<1> QED BY <1>3, <1>4, <1>8, <1>10, <1>11, <1>12 DEF r, v, p

\* A resolution carries none of the closing flags, and reserves nothing itself.
LEMMA ResolutionFlags ==
    ASSUME NEW t \in Transfer, ~InvalidTransfer(t), IsResolution(t)
    PROVE  t.flags \cap Closing = {} /\ "PENDING" \notin t.flags
BY DEF InvalidTransfer, IsResolution, classify, Phases

LEMMA PostedEffect ==
    ASSUME NEW s, OverlaySound(s), SidesKnown(s.accounts, s.transfers),
           NEW t \in Transfer, clock \in Nat,
           TransferCode(s, t) = "Created", classify(t) = "Post"
    PROVE  PostedBy(process_transfer(s, t), s, RecordOf(s, t), s.transfers[t.pending_id])
<1>1. IsResolution(t) /\ SettlementOf(t) = "Posted"
  BY DEF IsResolution, SettlementOf
<1>2. t.flags \cap Closing = {} /\ "PENDING" \notin t.flags
  BY <1>1, TransferAccepted, ResolutionFlags
<1>3. RecordOf(s, t).flags = t.flags => classify(RecordOf(s, t)) = classify(t)
  BY DEF classify
<1> QED BY <1>1, <1>2, <1>3, ResolutionEffect DEF PostedBy

LEMMA VoidedEffect ==
    ASSUME NEW s, OverlaySound(s), SidesKnown(s.accounts, s.transfers),
           NEW t \in Transfer, clock \in Nat,
           TransferCode(s, t) = "Created", classify(t) = "Void"
    PROVE  VoidedBy(process_transfer(s, t), s, RecordOf(s, t), s.transfers[t.pending_id])
<1>1. IsResolution(t) /\ SettlementOf(t) = "Voided"
  BY DEF IsResolution, SettlementOf
<1>2. t.flags \cap Closing = {} /\ "PENDING" \notin t.flags
  BY <1>1, TransferAccepted, ResolutionFlags
<1>3. RecordOf(s, t).flags = t.flags => classify(RecordOf(s, t)) = classify(t)
  BY DEF classify
<1> QED BY <1>1, <1>2, <1>3, ResolutionEffect DEF VoidedBy

LEMMA OpenedEffect ==
    ASSUME NEW s, OverlaySound(s), NEW a \in AccountSpecs, clock \in Nat,
           AccountCode(s, a) = "Created"
    PROVE  Opened(stage_account(s, a), s, [a EXCEPT !.timestamp = Stamp(s, a)])
<1> DEFINE r == stage_account(s, a)
           v == [a EXCEPT !.timestamp = Stamp(s, a)]
<1>1. a \in Account
  BY LedgerAssumption
<1>2. /\ a.id \notin DOMAIN s.accounts /\ ~InvalidAccount(a)
      /\ ~(BatchImported /\ a.timestamp <= s.ts)
  BY DEF AccountCode, account_exists_result
<1>3. Stamp(s, a) \in Nat /\ Stamp(s, a) > s.ts
  <2>1. a.timestamp \in Nat /\ s.ts \in Nat
    BY <1>1, OverlayFields DEF Account
  <2> QED BY <1>2, <2>1, StampIsNat
<1>4. /\ v \in Account /\ v.id = a.id /\ v.timestamp = Stamp(s, a) /\ v.flags = a.flags
      /\ v.debits_pending = 0 /\ v.debits_posted = 0
      /\ v.credits_pending = 0 /\ v.credits_posted = 0
  BY <1>1, <1>2, <1>3 DEF Account, InvalidAccount
<1>5. r = [s EXCEPT !.accounts = Put(@, a.id, v), !.accepted = @ \cup {a.id},
                    !.ts = Stamp(s, a)]
  BY DEF stage_account, Stamp
<1>6. OverlaySound(r)
  BY <1>1, StageAccountSound
<1> HIDE DEF r, v
<1>7. /\ r.accounts = Put(s.accounts, v.id, v)
      /\ r.transfers = s.transfers /\ r.resolved = s.resolved
      /\ r.expiry_removals = s.expiry_removals /\ r.failed_ids = s.failed_ids
      /\ r.accepted = s.accepted \cup {v.id} /\ r.ts = v.timestamp
  <2>1. DOMAIN s = ApplyKeys
    BY OverlayFields
  <2> QED BY <1>4, <1>5, <2>1 DEF ApplyKeys
<1>8. Opened(r, s, v)
  BY <1>2, <1>3, <1>4, <1>6, <1>7 DEF Opened
<1> QED BY <1>8 DEF r, v

\* The item an apply works on comes from the specifications.
LEMMA ItemSpec ==
    ASSUME LedgerInv, Item <= Len(batch)
    PROVE  /\ pc = "create_accounts" => batch[Item] \in AccountSpecs
           /\ pc # "create_accounts" => batch[Item] \in TransferSpecs /\ batch[Item] \in Transfer
<1> DEFINE S == IF pc = "create_accounts" THEN AccountSpecs ELSE TransferSpecs
<1>1. batch \in Seq(S) /\ results \in Seq(Result)
  BY LedgerInvParts
<1>2. /\ Len(batch) \in Nat /\ Len(results) \in Nat
      /\ batch \in [1..Len(batch) -> S]
  <2> HIDE DEF S
  <2> QED BY <1>1, LenProperties
<1>3. batch[Item] \in S
  BY <1>2 DEF Item
<1> QED BY <1>3, LedgerAssumption

\* The ways an item of the batch changes the overlay.
ItemStep(r, s) ==
    \/ r = s
    \/ pc = "create_accounts" /\ \E v : Opened(r, s, v)
    \/ pc = "create_transfers" /\ \E v : Booked(r, s, v) \/ Reserved(r, s, v)
    \/ pc = "create_transfers" /\ \E v, p : PostedBy(r, s, v, p) \/ VoidedBy(r, s, v, p)

LEMMA ItemEffect ==
    ASSUME HistoryInv, apply_item
    PROVE  ItemStep(apply', apply)
<1>1. /\ Item <= Len(batch) /\ Code(Item) \in {"Created", "Exists"} /\ pc # "idle"
      /\ apply' = IF Code(Item) = "Exists" THEN apply
                  ELSE IF pc = "create_accounts" THEN stage_account(apply, batch[Item])
                  ELSE process_transfer(apply, batch[Item])
  BY DEF apply_item, Processing
<1>2. /\ LedgerInv /\ OverlaySound(apply) /\ clock \in Nat
      /\ pc \in {"idle", "create_accounts", "create_transfers"}
      /\ SidesKnown(apply.accounts, apply.transfers)
  BY LedgerInvParts DEF HistoryInv, OverlayExact, RecordsExact
<1>3. CASE Code(Item) = "Exists"
  BY <1>1, <1>3 DEF ItemStep
<1>4. CASE Code(Item) = "Created" /\ pc = "create_accounts"
  <2>1. batch[Item] \in AccountSpecs
    BY <1>1, <1>2, <1>4, ItemSpec
  <2>2. AccountCode(apply, batch[Item]) = "Created"
    BY <1>4 DEF Code
  <2> QED BY <1>1, <1>2, <1>4, <2>1, <2>2, OpenedEffect DEF ItemStep
<1>5. CASE Code(Item) = "Created" /\ pc = "create_transfers"
  <2>1. batch[Item] \in Transfer
    BY <1>1, <1>2, <1>5, ItemSpec
  <2>2. TransferCode(apply, batch[Item]) = "Created"
    BY <1>5 DEF Code
  <2>3. apply' = process_transfer(apply, batch[Item])
    BY <1>1, <1>5
  <2>4. CASE classify(batch[Item]) = "Regular"
    BY <1>2, <1>5, <2>1, <2>2, <2>3, <2>4, BookedEffect DEF ItemStep
  <2>5. CASE classify(batch[Item]) = "PendingReserve"
    BY <1>2, <1>5, <2>1, <2>2, <2>3, <2>5, ReservedEffect DEF ItemStep
  <2>6. CASE classify(batch[Item]) = "Post"
    BY <1>2, <1>5, <2>1, <2>2, <2>3, <2>6, PostedEffect DEF ItemStep
  <2>7. CASE classify(batch[Item]) = "Void"
    BY <1>2, <1>5, <2>1, <2>2, <2>3, <2>7, VoidedEffect DEF ItemStep
  <2>8. classify(batch[Item]) \in {"Regular", "PendingReserve", "Post", "Void"}
    BY DEF classify
  <2> QED BY <2>4, <2>5, <2>6, <2>7, <2>8
<1> QED BY <1>1, <1>2, <1>3, <1>4, <1>5

\* An entry the sweep finds is that of a pending still outstanding: the index
\* is exact, and what this apply resolved it has dropped.
LEMMA DueIsOutstanding ==
    ASSUME HistoryInv, NEW k \in Due
    PROVE  /\ k.id \in DOMAIN transfers /\ k.id \notin DOMAIN apply.resolved
           /\ k = ExpiryKey(transfers[k.id]) /\ transfers[k.id].timeout # 0
           /\ OutstandingIn(apply, transfers[k.id]) /\ transfers[k.id].id = k.id
<1>1. k \in expiry /\ k \notin apply.expiry_removals
  BY DEF Due
<1>2. /\ Keyed(transfers, Transfer) /\ OverlaySound(apply) /\ ExpiryIndexExact
      /\ Extends(apply) /\ Dropped(apply)
  BY LedgerInvParts DEF HistoryInv, OverlayExact
<1>3. PICK i \in DOMAIN transfers :
         /\ k = ExpiryKey(transfers[i]) /\ Timed(transfers[i])
         /\ "PENDING" \in transfers[i].flags /\ i \notin DOMAIN pending_state
  BY <1>1, <1>2 DEF ExpiryIndexExact, Outstanding
<1>4. k.id = i /\ transfers[i].id = i /\ transfers[i] \in Transfer
  BY <1>2, <1>3 DEF ExpiryKey, Keyed, IsMap
<1>5. i \in DOMAIN apply.transfers /\ apply.transfers[i] = transfers[i]
  BY <1>2 DEF Extends
<1>6. i \notin DOMAIN apply.resolved
  <2>1. SUFFICES ASSUME i \in DOMAIN apply.resolved PROVE FALSE
    OBVIOUS
  <2>2. ExpiryKey(apply.transfers[i]) \in apply.expiry_removals
    BY <1>2, <1>3, <1>5, <2>1 DEF Dropped
  <2> QED BY <1>1, <1>3, <1>5, <2>2
<1> QED BY <1>3, <1>4, <1>5, <1>6 DEF OutstandingIn, Timed

LEMMA SweepEffect ==
    ASSUME HistoryInv, sweep_expired
    PROVE  \E p : ExpiredIn(apply', apply, p) /\ p.id \in DOMAIN transfers
<1> DEFINE moved(p) == WithSides(apply, ReleaseDebit(apply, p, 0, TRUE),
                                        ReleaseCredit(apply, p, 0, TRUE))
<1>1. PICK k \in Due :
         LET p == transfers[k.id]
             stale == k.id \in DOMAIN apply.resolved \/ k.id \notin DOMAIN transfers
         IN  /\ stale \/ ReservationHeld(apply, p)
             /\ apply' =
                  [(IF stale THEN apply
                    ELSE [moved(p) EXCEPT !.resolved = Put(@, k.id, "Expired")])
                   EXCEPT !.expiry_removals = @ \cup {k}]
  BY DEF sweep_expired
<1>2. PICK p : p = transfers[k.id]
  OBVIOUS
<1>3. /\ k.id \in DOMAIN transfers /\ k.id \notin DOMAIN apply.resolved
      /\ k = ExpiryKey(p) /\ p.timeout # 0 /\ OutstandingIn(apply, p) /\ p.id = k.id
  BY <1>2, DueIsOutstanding
<1>4. PICK q : q = moved(p)
  OBVIOUS
<1>5. /\ ReservationHeld(apply, p)
      /\ apply' = [[q EXCEPT !.resolved = Put(@, p.id, "Expired")]
                   EXCEPT !.expiry_removals = @ \cup {k}]
  BY <1>1, <1>2, <1>3, <1>4
<1>6. /\ OverlaySound(apply) /\ LedgerInv /\ SidesKnown(apply.accounts, apply.transfers)
      /\ Extends(apply)
  BY LedgerInvParts DEF HistoryInv, OverlayExact, RecordsExact
<1>7. p \in Transfer /\ p.amount \in Nat /\ 0 \in 0..p.amount
  BY <1>3, LedgerAssumption DEF OutstandingIn, Transfer, Amount
<1>8. MovesOnly(q, apply)
  BY <1>4, <1>5, <1>6, <1>7, ReleaseSound
<1> HIDE DEF moved
<1>9. /\ apply'.accounts = q.accounts /\ apply'.transfers = apply.transfers
      /\ apply'.accepted = apply.accepted /\ apply'.failed_ids = apply.failed_ids
      /\ apply'.ts = apply.ts
      /\ apply'.resolved = Put(apply.resolved, p.id, "Expired")
      /\ apply'.expiry_removals = apply.expiry_removals \cup {k}
  <2>1. DOMAIN q = ApplyKeys
    BY <1>8, OverlayFields DEF MovesOnly
  <2> QED BY <1>5, <1>8, <2>1 DEF ApplyKeys, MovesOnly
<1>10. OverlaySound(apply')
  <2>1. LedgerInv'
    BY <1>6, SweepInv
  <2> QED BY <2>1 DEF LedgerInv, TypeOK, OverlaySound
<1>11. Shifted(apply', apply, p, -p.amount, 0) /\ Reopens(apply', apply, p)
  <2>1. p.debit_account_id # p.credit_account_id
    BY <1>3, <1>6 DEF OutstandingIn, SidesKnown
  <2>2. apply'.accounts = moved(p).accounts
    BY <1>4, <1>9
  <2> QED BY <1>5, <1>6, <1>7, <2>1, <2>2, ReleaseEffect DEF moved
<1>12. ExpiredIn(apply', apply, p)
  BY <1>3, <1>9, <1>10, <1>11 DEF ExpiredIn
<1> QED BY <1>3, <1>12

-----------------------------------------------------------------------------
(* 3. Each way keeps each predicate of the records.                        *)

\* g is f with one more key.
Added(g, f, k, v) ==
    /\ k \notin DOMAIN f /\ DOMAIN g = DOMAIN f \cup {k}
    /\ g[k] = v /\ \A x \in DOMAIN f : g[x] = f[x]

LEMMA PutAdded ==
    ASSUME NEW f, NEW k, k \notin DOMAIN f, NEW v
    PROVE  Added(Put(f, k, v), f, k, v)
BY DEF Put, Added

\* The accounts g have the ids and the timestamps of f.
SameStamps(g, f) ==
    DOMAIN g = DOMAIN f /\ \A a \in DOMAIN f : g[a].timestamp = f[a].timestamp

LEMMA DatedTransfer ==
    ASSUME NEW A, NEW B, SameStamps(B, A), NEW X, NEW Y, NEW ts \in Nat,
           Dated(A, X, ts), NEW k, NEW v, Added(Y, X, k, v),
           v.timestamp \in Nat, v.timestamp > ts
    PROVE  Dated(B, Y, v.timestamp)
<1>1. \A i \in DOMAIN Y : \/ i = k /\ Y[i] = v
                          \/ i \in DOMAIN X /\ Y[i] = X[i] /\ i # k
  BY DEF Added
<1>2. /\ \A i \in DOMAIN X : X[i].timestamp \in 1..ts
      /\ \A a \in DOMAIN B : B[a].timestamp \in 1..ts
      /\ \A i, j \in DOMAIN X : X[i].timestamp = X[j].timestamp => i = j
      /\ \A a, b \in DOMAIN B : B[a].timestamp = B[b].timestamp => a = b
      /\ \A i \in DOMAIN X, a \in DOMAIN B : X[i].timestamp # B[a].timestamp
  BY DEF Dated, SameStamps
<1>3. \A n \in 1..ts : n \in 1..v.timestamp /\ n # v.timestamp
  OBVIOUS
<1>4. v.timestamp \in 1..v.timestamp
  OBVIOUS
<1>5. \A i \in DOMAIN Y : Y[i].timestamp \in 1..v.timestamp
  BY <1>1, <1>2, <1>3, <1>4
<1>6. \A a \in DOMAIN B : B[a].timestamp \in 1..v.timestamp
  BY <1>2, <1>3
<1>7. \A i, j \in DOMAIN Y : Y[i].timestamp = Y[j].timestamp => i = j
  BY <1>1, <1>2, <1>3, Zenon
<1>8. \A i \in DOMAIN Y, a \in DOMAIN B : Y[i].timestamp # B[a].timestamp
  BY <1>1, <1>2, <1>3
<1> QED BY <1>2, <1>5, <1>6, <1>7, <1>8 DEF Dated

LEMMA DatedAccount ==
    ASSUME NEW A, NEW B, NEW X, NEW ts \in Nat, Dated(A, X, ts),
           NEW k, NEW v, Added(B, A, k, v), v.timestamp \in Nat, v.timestamp > ts
    PROVE  Dated(B, X, v.timestamp)
<1>1. \A i \in DOMAIN B : \/ i = k /\ B[i] = v
                          \/ i \in DOMAIN A /\ B[i] = A[i] /\ i # k
  BY DEF Added
<1>2. /\ \A i \in DOMAIN X : X[i].timestamp \in 1..ts
      /\ \A a \in DOMAIN A : A[a].timestamp \in 1..ts
      /\ \A i, j \in DOMAIN X : X[i].timestamp = X[j].timestamp => i = j
      /\ \A a, b \in DOMAIN A : A[a].timestamp = A[b].timestamp => a = b
      /\ \A i \in DOMAIN X, a \in DOMAIN A : X[i].timestamp # A[a].timestamp
  BY DEF Dated
<1>3. \A n \in 1..ts : n \in 1..v.timestamp /\ n # v.timestamp
  OBVIOUS
<1>4. v.timestamp \in 1..v.timestamp
  OBVIOUS
<1>5. \A i \in DOMAIN X : X[i].timestamp \in 1..v.timestamp
  BY <1>2, <1>3
<1>6. \A a \in DOMAIN B : B[a].timestamp \in 1..v.timestamp
  BY <1>1, <1>2, <1>3, <1>4
<1>7. \A a, b \in DOMAIN B : B[a].timestamp = B[b].timestamp => a = b
  BY <1>1, <1>2, <1>3, Zenon
<1>8. \A i \in DOMAIN X, a \in DOMAIN B : X[i].timestamp # B[a].timestamp
  BY <1>1, <1>2, <1>3, Zenon
<1> QED BY <1>2, <1>5, <1>6, <1>7, <1>8 DEF Dated

LEMMA DatedSame ==
    ASSUME NEW A, NEW B, SameStamps(B, A), NEW X, NEW ts, Dated(A, X, ts)
    PROVE  Dated(B, X, ts)
BY DEF Dated, SameStamps

\* A transfer that resolves nothing.
LEMMA SettlementsUnrelated ==
    ASSUME NEW X, NEW Y, NEW S, Settlements(X, S),
           NEW k, NEW v, Added(Y, X, k, v), ~IsResolution(v)
    PROVE  Settlements(Y, S)
<1>1. \A i \in DOMAIN Y : \/ i = k /\ Y[i] = v
                          \/ i \in DOMAIN X /\ Y[i] = X[i] /\ i # k
  BY DEF Added
<1>2. \A i \in DOMAIN X : i \in DOMAIN Y /\ Y[i] = X[i]
  BY DEF Added
<1>3. \A i \in DOMAIN S : i \in DOMAIN Y /\ "PENDING" \in Y[i].flags
  BY <1>2 DEF Settlements
<1>4. \A i \in DOMAIN S : S[i] # "Expired" => \E j \in DOMAIN Y : Resolves(Y, j, i)
  BY <1>2 DEF Settlements, Resolves
<1>5. \A j \in DOMAIN Y : IsResolution(Y[j]) =>
         j \in DOMAIN X /\ Y[j] = X[j] /\ X[j].pending_id \in DOMAIN X
  BY <1>1 DEF Settlements
<1>6. \A i, j \in DOMAIN Y : Resolves(Y, j, i) =>
         i \in DOMAIN S /\ S[i] = SettlementOf(Y[j])
  BY <1>5 DEF Settlements, Resolves
<1>7. \A j, n \in DOMAIN Y :
         /\ IsResolution(Y[j]) /\ IsResolution(Y[n])
         /\ Y[j].pending_id = Y[n].pending_id
         => j = n
  BY <1>5 DEF Settlements
<1> QED BY <1>2, <1>3, <1>4, <1>5, <1>6, <1>7 DEF Settlements

\* A post or a void of p.
LEMMA SettlementsResolved ==
    ASSUME NEW X, NEW Y, NEW S, NEW T, Settlements(X, S),
           NEW k, NEW v, Added(Y, X, k, v), IsResolution(v),
           NEW p \in DOMAIN X, v.pending_id = p, "PENDING" \in X[p].flags,
           Added(T, S, p, SettlementOf(v))
    PROVE  Settlements(Y, T)
<1>1. \A i \in DOMAIN Y : \/ i = k /\ Y[i] = v
                          \/ i \in DOMAIN X /\ Y[i] = X[i] /\ i # k
  BY DEF Added
<1>2. /\ \A i \in DOMAIN X : i \in DOMAIN Y /\ Y[i] = X[i]
      /\ k \in DOMAIN Y /\ Y[k] = v
  BY DEF Added
<1>3. /\ \A i \in DOMAIN T : i = p \/ (i \in DOMAIN S /\ T[i] = S[i])
      /\ \A i \in DOMAIN S : i \in DOMAIN T /\ T[i] = S[i]
      /\ p \in DOMAIN T /\ T[p] = SettlementOf(v) /\ p \notin DOMAIN S
  BY DEF Added
<1>4. \A i \in DOMAIN T : i \in DOMAIN Y /\ "PENDING" \in Y[i].flags
  BY <1>2, <1>3 DEF Settlements
<1>5. \A i \in DOMAIN T : T[i] # "Expired" => \E j \in DOMAIN Y : Resolves(Y, j, i)
  BY <1>2, <1>3 DEF Settlements, Resolves
<1>6. \A j \in DOMAIN X : IsResolution(X[j]) =>
         X[j].pending_id \in DOMAIN S /\ X[j].pending_id # p
            /\ S[X[j].pending_id] = SettlementOf(X[j])
  BY <1>3 DEF Settlements, Resolves
<1>7. \A i, j \in DOMAIN Y : Resolves(Y, j, i) =>
         i \in DOMAIN T /\ T[i] = SettlementOf(Y[j])
  BY <1>1, <1>3, <1>6 DEF Resolves
<1>8. \A j \in DOMAIN Y : IsResolution(Y[j]) => Y[j].pending_id \in DOMAIN Y
  BY <1>1, <1>2 DEF Settlements
<1>9. \A j, n \in DOMAIN Y :
         /\ IsResolution(Y[j]) /\ IsResolution(Y[n])
         /\ Y[j].pending_id = Y[n].pending_id
         => j = n
  BY <1>1, <1>6 DEF Settlements
<1> QED BY <1>4, <1>5, <1>7, <1>8, <1>9 DEF Settlements

LEMMA SettlementsExpired ==
    ASSUME NEW X, NEW S, NEW T, Settlements(X, S),
           NEW p \in DOMAIN X, "PENDING" \in X[p].flags, Added(T, S, p, "Expired")
    PROVE  Settlements(X, T)
<1>1. /\ \A i \in DOMAIN T : \/ i = p /\ T[i] = "Expired"
                             \/ i \in DOMAIN S /\ T[i] = S[i]
      /\ \A i \in DOMAIN S : i \in DOMAIN T /\ T[i] = S[i]
      /\ p \notin DOMAIN S
  BY DEF Added
<1>2. \A i, j \in DOMAIN X : Resolves(X, j, i) =>
         i \in DOMAIN T /\ T[i] = SettlementOf(X[j])
  BY <1>1 DEF Settlements
<1> QED BY <1>1, <1>2 DEF Settlements

ClosedIn(accts, a) == "CLOSED" \in accts[a].flags

\* Closings of one account.
ClosingsOf(accts, xfers, states, a) ==
    /\ \A i \in DOMAIN xfers : Holds(xfers, states, i, a) => ClosedIn(accts, a)
    /\ \A i, j \in DOMAIN xfers :
          Holds(xfers, states, i, a) /\ Holds(xfers, states, j, a) => i = j
    /\ ClosedIn(accts, a) =>
          \/ \E i \in DOMAIN xfers : Holds(xfers, states, i, a)
          \/ MayStartClosed(a)
    /\ MustStartClosed(a) =>
          /\ ClosedIn(accts, a)
          /\ \A i \in DOMAIN xfers : ~Holds(xfers, states, i, a)

LEMMA ClosingsByAccount ==
    ASSUME NEW A, NEW X, NEW S
    PROVE  Closings(A, X, S) <=> \A a \in DOMAIN A : ClosingsOf(A, X, S, a)
BY DEF Closings, ClosingsOf, ClosedIn

\* The same transfers hold a, and its flag is the same.
LEMMA ClosingsSame ==
    ASSUME NEW A, NEW B, NEW X, NEW Y, NEW S, NEW T, NEW a, ClosingsOf(A, X, S, a),
           ClosedIn(B, a) <=> ClosedIn(A, a), DOMAIN X \subseteq DOMAIN Y,
           \A i \in DOMAIN Y :
              Holds(Y, T, i, a) <=> (i \in DOMAIN X /\ Holds(X, S, i, a))
    PROVE  ClosingsOf(B, Y, T, a)
BY DEF ClosingsOf

\* A transfer that closes nothing, over settlements that may gain a post.
LEMMA ClosingsUnrelated ==
    ASSUME NEW A, NEW B, DOMAIN B = DOMAIN A,
           \A a \in DOMAIN A : ClosedIn(B, a) <=> ClosedIn(A, a),
           NEW X, NEW Y, NEW S, NEW T, Closings(A, X, S),
           NEW k, NEW v, Added(Y, X, k, v), v.flags \cap Closing = {},
           \A i \in DOMAIN X : (i \in DOMAIN S => S[i] = "Posted")
                                 <=> (i \in DOMAIN T => T[i] = "Posted")
    PROVE  Closings(B, Y, T)
<1>1. \A a : ~ClosesAccount(v, a)
  BY DEF ClosesAccount, Closing
<1>2. \A i \in DOMAIN Y : \/ i = k /\ Y[i] = v /\ i \notin DOMAIN X
                          \/ i \in DOMAIN X /\ Y[i] = X[i]
  BY DEF Added
<1>3. DOMAIN X \subseteq DOMAIN Y
  BY DEF Added
<1>4. ASSUME NEW a \in DOMAIN B PROVE ClosingsOf(B, Y, T, a)
  <2>1. \A i \in DOMAIN Y :
           Holds(Y, T, i, a) <=> (i \in DOMAIN X /\ Holds(X, S, i, a))
    BY <1>1, <1>2 DEF Holds
  <2>2. ClosingsOf(A, X, S, a)
    BY ClosingsByAccount
  <2> QED BY <1>3, <2>1, <2>2, ClosingsSame
<1> QED BY <1>4, ClosingsByAccount

\* A reservation over accounts that were open.
LEMMA ClosingsReserved ==
    ASSUME NEW A, NEW B, DOMAIN B = DOMAIN A,
           NEW X, NEW Y, NEW S, Closings(A, X, S),
           NEW k, NEW v, Added(Y, X, k, v), k \notin DOMAIN S,
           \A a \in DOMAIN A : ClosedIn(B, a) <=> (ClosedIn(A, a) \/ ClosesAccount(v, a)),
           \A a \in DOMAIN A : ClosesAccount(v, a) => ~ClosedIn(A, a)
    PROVE  Closings(B, Y, S)
<1>1. \A i \in DOMAIN Y : \/ i = k /\ Y[i] = v /\ i \notin DOMAIN X
                          \/ i \in DOMAIN X /\ Y[i] = X[i]
  BY DEF Added
<1>2. DOMAIN X \subseteq DOMAIN Y /\ k \in DOMAIN Y /\ Y[k] = v
  BY DEF Added
<1>3. ASSUME NEW a \in DOMAIN B PROVE ClosingsOf(B, Y, S, a)
  <2>1. ClosingsOf(A, X, S, a)
    BY ClosingsByAccount
  <2>2. CASE ~ClosesAccount(v, a)
    <3>1. \A i \in DOMAIN Y :
             Holds(Y, S, i, a) <=> (i \in DOMAIN X /\ Holds(X, S, i, a))
      BY <1>1, <2>2 DEF Holds
    <3> QED BY <1>2, <2>1, <2>2, <3>1, ClosingsSame
  <2>3. CASE ClosesAccount(v, a)
    <3>1. ~ClosedIn(A, a) /\ ClosedIn(B, a)
      BY <2>3
    <3>2. /\ \A i \in DOMAIN X : ~Holds(X, S, i, a)
          /\ ~MustStartClosed(a)
      BY <2>1, <3>1 DEF ClosingsOf
    <3>3. \A i \in DOMAIN Y : Holds(Y, S, i, a) <=> i = k
      BY <1>1, <1>2, <2>3, <3>2 DEF Holds
    <3> QED BY <1>2, <3>1, <3>2, <3>3 DEF ClosingsOf
  <2> QED BY <2>2, <2>3
<1> QED BY <1>3, ClosingsByAccount

\* A void or an expiry of p: nobody else held what p closed.
LEMMA ClosingsReleased ==
    ASSUME NEW A, NEW B, DOMAIN B = DOMAIN A,
           NEW X, NEW Y, NEW S, NEW T, Closings(A, X, S),
           NEW p \in DOMAIN X, p \notin DOMAIN S, NEW o, o # "Posted", Added(T, S, p, o),
           DOMAIN X \subseteq DOMAIN Y, \A i \in DOMAIN X : Y[i] = X[i],
           \A i \in DOMAIN Y \ DOMAIN X : Y[i].flags \cap Closing = {},
           \A a \in DOMAIN A : ClosedIn(B, a) <=> (ClosedIn(A, a) /\ ~ClosesAccount(X[p], a))
    PROVE  Closings(B, Y, T)
<1>1. \A i \in DOMAIN Y \ DOMAIN X : \A a : ~ClosesAccount(Y[i], a)
  BY DEF ClosesAccount, Closing
<1>2. /\ p \in DOMAIN T /\ T[p] = o
      /\ \A i : i # p => (i \in DOMAIN S <=> i \in DOMAIN T)
      /\ \A i \in DOMAIN S : T[i] = S[i]
  BY DEF Added
<1>3. ASSUME NEW a \in DOMAIN B PROVE ClosingsOf(B, Y, T, a)
  <2>1. ClosingsOf(A, X, S, a)
    BY ClosingsByAccount
  <2>2. \A i \in DOMAIN Y : Holds(Y, T, i, a) <=>
           (i \in DOMAIN X /\ i # p /\ Holds(X, S, i, a))
    BY <1>1, <1>2 DEF Holds
  <2>3. CASE ~ClosesAccount(X[p], a)
    <3>1. ~Holds(X, S, p, a)
      BY <2>3 DEF Holds
    <3>2. ClosedIn(B, a) <=> ClosedIn(A, a)
      BY <2>3
    <3> QED BY <2>1, <2>2, <3>1, <3>2, ClosingsSame
  <2>4. CASE ClosesAccount(X[p], a)
    <3>1. Holds(X, S, p, a) /\ ~ClosedIn(B, a)
      BY <2>4 DEF Holds
    <3>2. /\ \A i \in DOMAIN X : Holds(X, S, i, a) => i = p
          /\ ~MustStartClosed(a)
      BY <2>1, <3>1 DEF ClosingsOf
    <3> QED BY <2>2, <3>1, <3>2 DEF ClosingsOf
  <2> QED BY <2>3, <2>4
<1> QED BY <1>3, ClosingsByAccount

\* A new account: no transfer names it yet.
LEMMA ClosingsOpened ==
    ASSUME NEW A, NEW B, NEW X, NEW S, Closings(A, X, S), SidesKnown(A, X),
           NEW v, Added(B, A, v.id, v),
           \E spec \in AccountSpecs : spec.id = v.id /\ spec.flags = v.flags
    PROVE  Closings(B, X, S)
<1>1. ASSUME NEW a \in DOMAIN A PROVE ClosingsOf(B, X, S, a)
  BY ClosingsByAccount DEF ClosingsOf, ClosedIn, Added
<1>2. ClosingsOf(B, X, S, v.id)
  <2>1. B[v.id] = v /\ v.id \notin DOMAIN A
    BY DEF Added
  <2>2. \A i \in DOMAIN X : ~Holds(X, S, i, v.id)
    BY <2>1 DEF SidesKnown, Holds, ClosesAccount
  <2> QED BY <2>1, <2>2 DEF ClosingsOf, ClosedIn, MayStartClosed, MustStartClosed
<1>3. DOMAIN B = DOMAIN A \cup {v.id}
  BY DEF Added
<1> QED BY <1>1, <1>2, <1>3, ClosingsByAccount

-----------------------------------------------------------------------------
(* 4. Each way keeps the overlay exact.                                    *)

LEMMA ShiftedStamps ==
    ASSUME NEW r, NEW s, NEW t, NEW m, NEW n, Shifted(r, s, t, m, n)
    PROVE  SameStamps(r.accounts, s.accounts)
BY DEF Shifted, SameStamps

\* r keeps what s resolved.
KeepsResolved(r, s) ==
    \A i \in DOMAIN s.resolved : i \in DOMAIN r.resolved /\ r.resolved[i] = s.resolved[i]

\* What every accepted transfer keeps.
LEMMA RecordedKeeps ==
    ASSUME NEW s, OverlaySound(s), OverlayExact(s), NEW r, NEW v, Recorded(r, s, v),
           SameStamps(r.accounts, s.accounts), SidesIn(s, v), KeepsResolved(r, s),
           pc = "create_transfers", watermark \in Nat
    PROVE  /\ Added(r.transfers, s.transfers, v.id, v)
           /\ Dated(r.accounts, r.transfers, r.ts)
           /\ SidesKnown(r.accounts, r.transfers)
           /\ Extends(r) /\ Unburned(r)
<1>1. /\ v \in Transfer /\ v.id \notin DOMAIN s.transfers /\ v.id \notin Burned(s)
      /\ r.transfers = Put(s.transfers, v.id, v)
      /\ r.accepted = s.accepted \cup {v.id} /\ r.failed_ids = s.failed_ids
      /\ r.ts = v.timestamp /\ v.timestamp > s.ts
  BY DEF Recorded
<1>2. Added(r.transfers, s.transfers, v.id, v)
  BY <1>1, PutAdded
<1>3. s.ts \in Nat /\ v.timestamp \in Nat
  BY <1>1, OverlayFields DEF Transfer
<1>4. /\ Dated(s.accounts, s.transfers, s.ts) /\ SidesKnown(s.accounts, s.transfers)
      /\ Extends(s) /\ Unburned(s)
  BY DEF OverlayExact, RecordsExact
<1>5. Dated(r.accounts, r.transfers, r.ts)
  BY <1>1, <1>2, <1>3, <1>4, DatedTransfer
<1>6. SidesKnown(r.accounts, r.transfers)
  BY <1>2, <1>4 DEF SidesKnown, SidesIn, SameStamps, Added
<1>7. Unburned(r)
  BY <1>1, <1>2, <1>4 DEF Unburned, Burned, Added
<1>8. Extends(r)
  <2>1. \A i \in DOMAIN transfers :
           i \in DOMAIN r.transfers /\ r.transfers[i] = transfers[i]
    BY <1>2, <1>4 DEF Extends, Added
  <2>2. \A i \in DOMAIN pending_state :
           i \in DOMAIN r.resolved /\ r.resolved[i] = pending_state[i]
    BY <1>4 DEF Extends, KeepsResolved
  <2>3. watermark <= s.ts
    BY <1>4 DEF Extends
  <2>4. watermark <= r.ts /\ v.timestamp > watermark
    BY <1>1, <1>3, <2>3
  <2>5. \A i \in DOMAIN r.transfers \ DOMAIN transfers :
           r.transfers[i].timestamp > watermark
    BY <1>2, <1>4, <2>4 DEF Extends, Added
  <2>6. r.accepted # {}
    BY <1>1
  <2>7. /\ DOMAIN r.transfers = DOMAIN transfers \cup r.accepted
        /\ r.accepted \cap DOMAIN transfers = {}
    BY <1>1, <1>2, <1>4 DEF Extends, Added
  <2> QED BY <2>1, <2>2, <2>4, <2>5, <2>6, <2>7 DEF Extends
<1> QED BY <1>2, <1>5, <1>6, <1>7, <1>8

\* A transfer that resolves nothing drops no index entry.
LEMMA DroppedSame ==
    ASSUME NEW s, OverlayExact(s), NEW r, NEW k, NEW v,
           Added(r.transfers, s.transfers, k, v),
           r.resolved = s.resolved, r.expiry_removals = s.expiry_removals
    PROVE  Dropped(r)
<1>1. \A i \in DOMAIN s.resolved : r.transfers[i] = s.transfers[i]
  BY DEF OverlayExact, RecordsExact, Settlements, Added
<1>2. Dropped(s)
  BY DEF OverlayExact
<1> QED BY <1>1, <1>2 DEF Dropped

\* Resolving a timed pending drops its entry.
LEMMA DroppedMore ==
    ASSUME NEW s, OverlayExact(s), NEW p, OutstandingIn(s, p), NEW r, NEW o,
           \A i \in DOMAIN s.transfers : r.transfers[i] = s.transfers[i],
           Added(r.resolved, s.resolved, p.id, o),
           r.expiry_removals = s.expiry_removals \cup IndexEntry(p)
    PROVE  Dropped(r)
<1> DEFINE old == {j \in DOMAIN s.resolved \ DOMAIN pending_state : Timed(s.transfers[j])}
           new == {j \in DOMAIN r.resolved \ DOMAIN pending_state : Timed(r.transfers[j])}
<1>1. s.expiry_removals = {ExpiryKey(s.transfers[i]) : i \in old}
  BY DEF OverlayExact, Dropped
<1>2. p.id \notin DOMAIN pending_state
  BY DEF OverlayExact, Extends, OutstandingIn
<1>3. \A i \in DOMAIN s.resolved : i \in DOMAIN s.transfers /\ r.transfers[i] = s.transfers[i]
  BY DEF OverlayExact, RecordsExact, Settlements
<1>4. r.transfers[p.id] = p /\ (Timed(p) <=> p.timeout # 0)
  BY DEF OutstandingIn, Timed
<1>5. \A j : j \in new <=> \/ j \in old
                           \/ j = p.id /\ p.timeout # 0
  BY <1>2, <1>3, <1>4 DEF Added
<1>6. \A j \in old : r.transfers[j] = s.transfers[j]
  BY <1>3
<1> HIDE DEF old, new
<1>7. {ExpiryKey(r.transfers[i]) : i \in new}
        = {ExpiryKey(s.transfers[i]) : i \in old} \cup IndexEntry(p)
  <2>1. ASSUME NEW k \in {ExpiryKey(r.transfers[i]) : i \in new}
        PROVE  k \in {ExpiryKey(s.transfers[i]) : i \in old} \cup IndexEntry(p)
    <3>1. PICK i \in new : k = ExpiryKey(r.transfers[i])
      OBVIOUS
    <3>2. CASE i \in old
      BY <1>6, <3>1, <3>2
    <3>3. CASE i = p.id /\ p.timeout # 0
      BY <1>4, <3>1, <3>3 DEF IndexEntry
    <3> QED BY <1>5, <3>1, <3>2, <3>3
  <2>2. ASSUME NEW k \in {ExpiryKey(s.transfers[i]) : i \in old}
        PROVE  k \in {ExpiryKey(r.transfers[i]) : i \in new}
    BY <1>5, <1>6
  <2>3. ASSUME NEW k \in IndexEntry(p)
        PROVE  k \in {ExpiryKey(r.transfers[i]) : i \in new}
    BY <1>4, <1>5 DEF IndexEntry
  <2> QED BY <2>1, <2>2, <2>3
<1> QED BY <1>1, <1>7 DEF Dropped, new

LEMMA BookedExact ==
    ASSUME NEW s, OverlaySound(s), OverlayExact(s), NEW r, NEW v, Booked(r, s, v),
           pc = "create_transfers", watermark \in Nat
    PROVE  OverlayExact(r)
<1>1. /\ Recorded(r, s, v) /\ classify(v) = "Regular" /\ v.flags \cap Closing = {}
      /\ SidesIn(s, v) /\ Shifted(r, s, v, 0, v.amount) /\ SameClosed(r, s)
      /\ r.resolved = s.resolved /\ r.expiry_removals = s.expiry_removals
  BY DEF Booked
<1>2. SameStamps(r.accounts, s.accounts) /\ KeepsResolved(r, s)
  BY <1>1, ShiftedStamps DEF KeepsResolved
<1>3. /\ Added(r.transfers, s.transfers, v.id, v)
      /\ Dated(r.accounts, r.transfers, r.ts) /\ SidesKnown(r.accounts, r.transfers)
      /\ Extends(r) /\ Unburned(r)
  BY <1>1, <1>2, RecordedKeeps
<1>4. Settlements(s.transfers, s.resolved) /\ Closings(s.accounts, s.transfers, s.resolved)
  BY DEF OverlayExact, RecordsExact
<1>5. Settlements(r.transfers, r.resolved)
  BY <1>1, <1>3, <1>4, SettlementsUnrelated DEF IsResolution
<1>6. Closings(r.accounts, r.transfers, r.resolved)
  <2>1. DOMAIN r.accounts = DOMAIN s.accounts
    BY <1>2 DEF SameStamps
  <2>2. \A a \in DOMAIN s.accounts : ClosedIn(r.accounts, a) <=> ClosedIn(s.accounts, a)
    BY <1>1 DEF SameClosed, IsClosed, ClosedIn
  <2> QED BY <1>1, <1>3, <1>4, <2>1, <2>2, ClosingsUnrelated
<1>7. Dropped(r)
  BY <1>1, <1>3, DroppedSame
<1> QED BY <1>3, <1>5, <1>6, <1>7 DEF OverlayExact, RecordsExact

LEMMA ReservedExact ==
    ASSUME NEW s, OverlaySound(s), OverlayExact(s), NEW r, NEW v, Reserved(r, s, v),
           pc = "create_transfers", watermark \in Nat
    PROVE  OverlayExact(r)
<1>1. /\ Recorded(r, s, v) /\ classify(v) = "PendingReserve"
      /\ SidesIn(s, v) /\ Shifted(r, s, v, v.amount, 0) /\ Closes(r, s, v)
      /\ ~IsClosed(s, v.debit_account_id) /\ ~IsClosed(s, v.credit_account_id)
      /\ r.resolved = s.resolved /\ r.expiry_removals = s.expiry_removals
  BY DEF Reserved
<1>2. SameStamps(r.accounts, s.accounts) /\ KeepsResolved(r, s)
  BY <1>1, ShiftedStamps DEF KeepsResolved
<1>3. /\ Added(r.transfers, s.transfers, v.id, v)
      /\ Dated(r.accounts, r.transfers, r.ts) /\ SidesKnown(r.accounts, r.transfers)
      /\ Extends(r) /\ Unburned(r)
  BY <1>1, <1>2, RecordedKeeps
<1>4. Settlements(s.transfers, s.resolved) /\ Closings(s.accounts, s.transfers, s.resolved)
  BY DEF OverlayExact, RecordsExact
<1>5. Settlements(r.transfers, r.resolved)
  BY <1>1, <1>3, <1>4, SettlementsUnrelated DEF IsResolution
<1>6. Closings(r.accounts, r.transfers, r.resolved)
  <2>1. DOMAIN r.accounts = DOMAIN s.accounts
    BY <1>2 DEF SameStamps
  <2>2. v.id \notin DOMAIN s.resolved
    BY <1>3, <1>4 DEF Settlements, Added
  <2>3. \A a \in DOMAIN s.accounts :
           ClosedIn(r.accounts, a) <=> (ClosedIn(s.accounts, a) \/ ClosesAccount(v, a))
    BY <1>1 DEF Closes, IsClosed, ClosedIn
  <2>4. \A a \in DOMAIN s.accounts : ClosesAccount(v, a) => ~ClosedIn(s.accounts, a)
    BY <1>1 DEF ClosesAccount, IsClosed, ClosedIn
  <2> QED BY <1>1, <1>3, <1>4, <2>1, <2>2, <2>3, <2>4, ClosingsReserved
<1>7. Dropped(r)
  BY <1>1, <1>3, DroppedSame
<1> QED BY <1>3, <1>5, <1>6, <1>7 DEF OverlayExact, RecordsExact

LEMMA PostedExact ==
    ASSUME NEW s, OverlaySound(s), OverlayExact(s), NEW r, NEW v, NEW p, PostedBy(r, s, v, p),
           pc = "create_transfers", watermark \in Nat
    PROVE  OverlayExact(r)
<1>1. /\ Recorded(r, s, v) /\ classify(v) = "Post" /\ v.flags \cap Closing = {}
      /\ OutstandingIn(s, p) /\ v.pending_id = p.id
      /\ v.debit_account_id = p.debit_account_id /\ v.credit_account_id = p.credit_account_id
      /\ Shifted(r, s, p, -p.amount, v.amount) /\ SameClosed(r, s)
      /\ r.resolved = Put(s.resolved, p.id, "Posted")
      /\ r.expiry_removals = s.expiry_removals \cup IndexEntry(p)
  BY DEF PostedBy
<1>2. /\ Settlements(s.transfers, s.resolved) /\ Closings(s.accounts, s.transfers, s.resolved)
      /\ SidesKnown(s.accounts, s.transfers)
  BY DEF OverlayExact, RecordsExact
<1>3. /\ p.id \in DOMAIN s.transfers /\ s.transfers[p.id] = p
      /\ "PENDING" \in p.flags /\ p.id \notin DOMAIN s.resolved
  BY <1>1 DEF OutstandingIn
<1>4. Added(r.resolved, s.resolved, p.id, "Posted")
  BY <1>1, <1>3, PutAdded
<1>5. /\ SameStamps(r.accounts, s.accounts) /\ KeepsResolved(r, s) /\ SidesIn(s, v)
  BY <1>1, <1>2, <1>3, <1>4, ShiftedStamps DEF KeepsResolved, Added, SidesKnown, SidesIn
<1>6. /\ Added(r.transfers, s.transfers, v.id, v)
      /\ Dated(r.accounts, r.transfers, r.ts) /\ SidesKnown(r.accounts, r.transfers)
      /\ Extends(r) /\ Unburned(r)
  BY <1>1, <1>5, RecordedKeeps
<1>7. Settlements(r.transfers, r.resolved)
  <2>1. IsResolution(v) /\ SettlementOf(v) = "Posted"
    BY <1>1 DEF IsResolution, SettlementOf
  <2> QED BY <1>1, <1>2, <1>3, <1>4, <1>6, <2>1, SettlementsResolved
<1>8. Closings(r.accounts, r.transfers, r.resolved)
  <2>1. DOMAIN r.accounts = DOMAIN s.accounts
    BY <1>5 DEF SameStamps
  <2>2. \A a \in DOMAIN s.accounts : ClosedIn(r.accounts, a) <=> ClosedIn(s.accounts, a)
    BY <1>1 DEF SameClosed, IsClosed, ClosedIn
  <2>3. \A i \in DOMAIN s.transfers :
           (i \in DOMAIN s.resolved => s.resolved[i] = "Posted")
             <=> (i \in DOMAIN r.resolved => r.resolved[i] = "Posted")
    BY <1>4 DEF Added
  <2> QED BY <1>1, <1>2, <1>6, <2>1, <2>2, <2>3, ClosingsUnrelated
<1>9. Dropped(r)
  <2>1. \A i \in DOMAIN s.transfers : r.transfers[i] = s.transfers[i]
    BY <1>6 DEF Added
  <2> QED BY <1>1, <1>4, <2>1, DroppedMore
<1> QED BY <1>6, <1>7, <1>8, <1>9 DEF OverlayExact, RecordsExact

LEMMA VoidedExact ==
    ASSUME NEW s, OverlaySound(s), OverlayExact(s), NEW r, NEW v, NEW p, VoidedBy(r, s, v, p),
           pc = "create_transfers", watermark \in Nat
    PROVE  OverlayExact(r)
<1>1. /\ Recorded(r, s, v) /\ classify(v) = "Void" /\ v.flags \cap Closing = {}
      /\ OutstandingIn(s, p) /\ v.pending_id = p.id
      /\ v.debit_account_id = p.debit_account_id /\ v.credit_account_id = p.credit_account_id
      /\ Shifted(r, s, p, -p.amount, 0) /\ Reopens(r, s, p)
      /\ r.resolved = Put(s.resolved, p.id, "Voided")
      /\ r.expiry_removals = s.expiry_removals \cup IndexEntry(p)
  BY DEF VoidedBy
<1>2. /\ Settlements(s.transfers, s.resolved) /\ Closings(s.accounts, s.transfers, s.resolved)
      /\ SidesKnown(s.accounts, s.transfers)
  BY DEF OverlayExact, RecordsExact
<1>3. /\ p.id \in DOMAIN s.transfers /\ s.transfers[p.id] = p
      /\ "PENDING" \in p.flags /\ p.id \notin DOMAIN s.resolved
  BY <1>1 DEF OutstandingIn
<1>4. Added(r.resolved, s.resolved, p.id, "Voided")
  BY <1>1, <1>3, PutAdded
<1>5. /\ SameStamps(r.accounts, s.accounts) /\ KeepsResolved(r, s) /\ SidesIn(s, v)
  BY <1>1, <1>2, <1>3, <1>4, ShiftedStamps DEF KeepsResolved, Added, SidesKnown, SidesIn
<1>6. /\ Added(r.transfers, s.transfers, v.id, v)
      /\ Dated(r.accounts, r.transfers, r.ts) /\ SidesKnown(r.accounts, r.transfers)
      /\ Extends(r) /\ Unburned(r)
  BY <1>1, <1>5, RecordedKeeps
<1>7. Settlements(r.transfers, r.resolved)
  <2>1. IsResolution(v) /\ SettlementOf(v) = "Voided"
    BY <1>1 DEF IsResolution, SettlementOf
  <2> QED BY <1>1, <1>2, <1>3, <1>4, <1>6, <2>1, SettlementsResolved
<1>8. /\ \A i \in DOMAIN s.transfers : r.transfers[i] = s.transfers[i]
      /\ DOMAIN s.transfers \subseteq DOMAIN r.transfers
      /\ \A i \in DOMAIN r.transfers \ DOMAIN s.transfers :
            r.transfers[i].flags \cap Closing = {}
  BY <1>1, <1>6 DEF Added
<1>9. Closings(r.accounts, r.transfers, r.resolved)
  <2>1. DOMAIN r.accounts = DOMAIN s.accounts
    BY <1>5 DEF SameStamps
  <2>2. \A a \in DOMAIN s.accounts :
           ClosedIn(r.accounts, a) <=>
              (ClosedIn(s.accounts, a) /\ ~ClosesAccount(s.transfers[p.id], a))
    BY <1>1, <1>3 DEF Reopens, IsClosed, ClosedIn
  <2>3. "Voided" # "Posted"
    OBVIOUS
  <2> QED BY <1>2, <1>3, <1>4, <1>8, <2>1, <2>2, <2>3, ClosingsReleased
<1>10. Dropped(r)
  BY <1>1, <1>4, <1>8, DroppedMore
<1> QED BY <1>6, <1>7, <1>9, <1>10 DEF OverlayExact, RecordsExact

LEMMA ExpiredExact ==
    ASSUME NEW s, OverlaySound(s), OverlayExact(s), NEW r, NEW p, ExpiredIn(r, s, p)
    PROVE  OverlayExact(r)
<1>1. /\ OutstandingIn(s, p) /\ p.timeout # 0
      /\ r.transfers = s.transfers /\ r.accepted = s.accepted
      /\ r.failed_ids = s.failed_ids /\ r.ts = s.ts
      /\ Shifted(r, s, p, -p.amount, 0) /\ Reopens(r, s, p)
      /\ r.resolved = Put(s.resolved, p.id, "Expired")
      /\ r.expiry_removals = s.expiry_removals \cup {ExpiryKey(p)}
  BY DEF ExpiredIn
<1>2. /\ Settlements(s.transfers, s.resolved) /\ Closings(s.accounts, s.transfers, s.resolved)
      /\ SidesKnown(s.accounts, s.transfers) /\ Dated(s.accounts, s.transfers, s.ts)
      /\ Extends(s) /\ Unburned(s)
  BY DEF OverlayExact, RecordsExact
<1>3. /\ p.id \in DOMAIN s.transfers /\ s.transfers[p.id] = p
      /\ "PENDING" \in p.flags /\ p.id \notin DOMAIN s.resolved
  BY <1>1 DEF OutstandingIn
<1>4. Added(r.resolved, s.resolved, p.id, "Expired")
  BY <1>1, <1>3, PutAdded
<1>5. SameStamps(r.accounts, s.accounts) /\ DOMAIN r.accounts = DOMAIN s.accounts
  BY <1>1, ShiftedStamps DEF SameStamps
<1>6. Dated(r.accounts, r.transfers, r.ts) /\ SidesKnown(r.accounts, r.transfers)
  BY <1>1, <1>2, <1>5, DatedSame DEF SidesKnown
<1>7. Extends(r) /\ Unburned(r)
  BY <1>1, <1>2, <1>4 DEF Extends, Unburned, Burned, Added
<1>8. Settlements(r.transfers, r.resolved)
  BY <1>1, <1>2, <1>3, <1>4, SettlementsExpired
<1>9. Closings(r.accounts, r.transfers, r.resolved)
  <2>1. \A a \in DOMAIN s.accounts :
           ClosedIn(r.accounts, a) <=>
              (ClosedIn(s.accounts, a) /\ ~ClosesAccount(s.transfers[p.id], a))
    BY <1>1, <1>3 DEF Reopens, IsClosed, ClosedIn
  <2>2. "Expired" # "Posted"
    OBVIOUS
  <2>3. /\ DOMAIN s.transfers \subseteq DOMAIN r.transfers
        /\ \A i \in DOMAIN s.transfers : r.transfers[i] = s.transfers[i]
        /\ \A i \in DOMAIN r.transfers \ DOMAIN s.transfers :
              r.transfers[i].flags \cap Closing = {}
    BY <1>1
  <2> QED BY <1>2, <1>3, <1>4, <1>5, <2>1, <2>2, <2>3, ClosingsReleased
<1>10. Dropped(r)
  <2>1. IndexEntry(p) = {ExpiryKey(p)}
    BY <1>1 DEF IndexEntry
  <2> QED BY <1>1, <1>4, <2>1, DroppedMore
<1> QED BY <1>6, <1>7, <1>8, <1>9, <1>10 DEF OverlayExact, RecordsExact

LEMMA OpenedExact ==
    ASSUME NEW s, OverlaySound(s), OverlayExact(s), NEW r, NEW v, Opened(r, s, v),
           pc = "create_accounts", watermark \in Nat
    PROVE  OverlayExact(r)
<1>1. /\ v \in Account /\ v.id \notin DOMAIN s.accounts
      /\ r.accounts = Put(s.accounts, v.id, v)
      /\ r.transfers = s.transfers /\ r.resolved = s.resolved
      /\ r.expiry_removals = s.expiry_removals /\ r.failed_ids = s.failed_ids
      /\ r.accepted = s.accepted \cup {v.id} /\ r.ts = v.timestamp /\ v.timestamp > s.ts
      /\ \E spec \in AccountSpecs : spec.id = v.id /\ spec.flags = v.flags
  BY DEF Opened
<1>2. /\ Settlements(s.transfers, s.resolved) /\ Closings(s.accounts, s.transfers, s.resolved)
      /\ SidesKnown(s.accounts, s.transfers) /\ Dated(s.accounts, s.transfers, s.ts)
      /\ Extends(s) /\ Unburned(s) /\ Dropped(s)
  BY DEF OverlayExact, RecordsExact
<1>3. Added(r.accounts, s.accounts, v.id, v)
  BY <1>1, PutAdded
<1>4. s.ts \in Nat /\ v.timestamp \in Nat
  BY <1>1, OverlayFields DEF Account
<1>5. Dated(r.accounts, r.transfers, r.ts)
  BY <1>1, <1>2, <1>3, <1>4, DatedAccount
<1>6. SidesKnown(r.accounts, r.transfers)
  BY <1>1, <1>2, <1>3 DEF SidesKnown, Added
<1>7. Closings(r.accounts, r.transfers, r.resolved)
  BY <1>1, <1>2, <1>3, ClosingsOpened
<1>8. Extends(r)
  <2>1. watermark <= s.ts /\ DOMAIN s.transfers = DOMAIN transfers
    BY <1>2 DEF Extends
  <2>2. watermark <= r.ts /\ r.accepted # {}
    BY <1>1, <1>4, <2>1
  <2> QED BY <1>1, <1>2, <2>1, <2>2 DEF Extends
<1>9. Unburned(r) /\ Dropped(r) /\ Settlements(r.transfers, r.resolved)
  BY <1>1, <1>2 DEF Unburned, Burned, Dropped
<1> QED BY <1>5, <1>6, <1>7, <1>8, <1>9 DEF OverlayExact, RecordsExact

LEMMA ItemExact ==
    ASSUME NEW s, OverlaySound(s), OverlayExact(s), watermark \in Nat,
           NEW r, ItemStep(r, s)
    PROVE  OverlayExact(r) /\ DOMAIN s.transfers \subseteq DOMAIN r.transfers
<1>1. ASSUME NEW v, Recorded(r, s, v)
      PROVE  DOMAIN s.transfers \subseteq DOMAIN r.transfers
  BY <1>1 DEF Recorded, Put
<1>2. CASE r = s
  BY <1>2
<1>3. CASE pc = "create_accounts" /\ \E v : Opened(r, s, v)
  BY <1>3, OpenedExact DEF Opened
<1>4. ASSUME pc = "create_transfers", NEW v, Booked(r, s, v) \/ Reserved(r, s, v)
      PROVE  OverlayExact(r) /\ DOMAIN s.transfers \subseteq DOMAIN r.transfers
  <2>1. CASE Booked(r, s, v)
    BY <1>1, <1>4, <2>1, BookedExact DEF Booked
  <2>2. CASE Reserved(r, s, v)
    BY <1>1, <1>4, <2>2, ReservedExact DEF Reserved
  <2> QED BY <1>4, <2>1, <2>2
<1>5. ASSUME pc = "create_transfers", NEW v, NEW p,
             PostedBy(r, s, v, p) \/ VoidedBy(r, s, v, p)
      PROVE  OverlayExact(r) /\ DOMAIN s.transfers \subseteq DOMAIN r.transfers
  <2>1. CASE PostedBy(r, s, v, p)
    BY <1>1, <1>5, <2>1, PostedExact DEF PostedBy
  <2>2. CASE VoidedBy(r, s, v, p)
    BY <1>1, <1>5, <2>2, VoidedExact DEF VoidedBy
  <2> QED BY <1>5, <2>1, <2>2
<1> QED BY <1>2, <1>3, <1>4, <1>5 DEF ItemStep

-----------------------------------------------------------------------------
(* 5. The invariant is inductive: one lemma per action.                    *)

\* HistoryInv of the next state, when the records stay as they are.
LEMMA HistoryInvKept ==
    ASSUME HistoryInv, LedgerInv', UNCHANGED store, pc' = pc, pc # "idle",
           OverlayExact(apply'), OverlayExact(rollback'),
           DOMAIN rollback'.transfers \subseteq DOMAIN apply'.transfers
    PROVE  HistoryInv'
<1>1. OverlayExact(apply)' /\ OverlayExact(rollback)'
  BY DEF OverlayExact, Extends, Unburned, Burned, Dropped, store
<1>2. RecordsExact(accounts', transfers', pending_state', watermark')
  BY DEF HistoryInv, store
<1>3. ExpiryIndexExact'
  BY DEF HistoryInv, ExpiryIndexExact, Outstanding, store
<1> QED BY <1>1, <1>2, <1>3 DEF HistoryInv

\* A fresh overlay over exact records is exact.
LEMMA HistoryInvFresh ==
    ASSUME LedgerInv', RecordsExact(accounts', transfers', pending_state', watermark'),
           ExpiryIndexExact', failed' \cap DOMAIN transfers' = {}, Idle
    PROVE  HistoryInv'
<1>1. /\ apply' = FreshApply' /\ rollback' = FreshApply' /\ pc' = "idle"
  BY DEF Idle
<1>2. /\ apply'.accounts = accounts' /\ apply'.transfers = transfers'
      /\ apply'.resolved = pending_state' /\ apply'.expiry_removals = {}
      /\ apply'.failed_ids = {} /\ apply'.accepted = {} /\ apply'.ts = watermark'
      /\ rollback' = apply'
  BY <1>1 DEF FreshApply
<1>3. watermark' \in Nat
  BY DEF LedgerInv, TypeOK
<1>4. Settlements(transfers', pending_state')
  BY DEF RecordsExact
<1>5. Extends(apply)'
  BY <1>1, <1>2, <1>3 DEF Extends
<1>6. Unburned(apply)'
  BY <1>2 DEF Unburned, Burned
<1>7. Dropped(apply)'
  BY <1>2 DEF Dropped
<1>8. OverlayExact(apply)'
  BY <1>2, <1>5, <1>6, <1>7 DEF OverlayExact
<1>9. OverlayExact(rollback)'
  BY <1>2, <1>8 DEF OverlayExact, Extends, Unburned, Burned, Dropped
<1> QED BY <1>1, <1>2, <1>8, <1>9 DEF HistoryInv

LEMMA InitHistory == Init => HistoryInv
<1> SUFFICES ASSUME Init PROVE HistoryInv
  OBVIOUS
<1>1. LedgerInv
  BY InitInv
<1>2. /\ accounts = <<>> /\ transfers = <<>> /\ pending_state = <<>> /\ watermark = 0
      /\ expiry = {} /\ failed = {} /\ pc = "idle"
      /\ apply = FreshApply /\ rollback = FreshApply
  BY DEF Init
<1>3. DOMAIN accounts = {} /\ DOMAIN transfers = {} /\ DOMAIN pending_state = {}
  BY <1>2
<1>4. RecordsExact(accounts, transfers, pending_state, watermark)
  BY <1>3 DEF RecordsExact, Dated, SidesKnown, Settlements, Closings
<1>5. ExpiryIndexExact
  BY <1>2, <1>3 DEF ExpiryIndexExact, Outstanding
<1>6. /\ apply.accounts = accounts /\ apply.transfers = transfers
      /\ apply.resolved = pending_state /\ apply.expiry_removals = {}
      /\ apply.failed_ids = {} /\ apply.accepted = {} /\ apply.ts = watermark
      /\ rollback = apply
  BY <1>2 DEF FreshApply
<1>7. OverlayExact(apply)
  BY <1>2, <1>3, <1>4, <1>6 DEF OverlayExact, Extends, Unburned, Burned, Dropped
<1> QED BY <1>1, <1>2, <1>4, <1>5, <1>6, <1>7 DEF HistoryInv

LEMMA BeginHistory ==
    ASSUME HistoryInv, LedgerInv', NEW op \in {"create_accounts", "create_transfers"},
           NEW items, NEW now, Begin(op, items, now)
    PROVE  HistoryInv'
<1>1. /\ pc = "idle" /\ pc' = op /\ apply' = apply /\ rollback' = rollback /\ UNCHANGED store
  BY DEF Begin
<1>2. apply.accepted = {} /\ rollback.accepted = {}
  BY <1>1 DEF HistoryInv
<1>3. OverlayExact(apply)' /\ OverlayExact(rollback)'
  <2>1. OverlayExact(apply) /\ OverlayExact(rollback)
    BY DEF HistoryInv
  <2> QED BY <1>1, <1>2, <2>1 DEF OverlayExact, Extends, Unburned, Burned, Dropped, store
<1>4. RecordsExact(accounts', transfers', pending_state', watermark')
  BY <1>1 DEF HistoryInv, store
<1>5. ExpiryIndexExact'
  BY <1>1 DEF HistoryInv, ExpiryIndexExact, Outstanding, store
<1> QED BY <1>1, <1>3, <1>4, <1>5 DEF HistoryInv

LEMMA AbortHistory ==
    ASSUME HistoryInv, LedgerInv', abort
    PROVE  HistoryInv'
<1>1. UNCHANGED store /\ Idle
  BY DEF abort
<1>2. RecordsExact(accounts', transfers', pending_state', watermark')
  BY <1>1 DEF HistoryInv, store
<1>3. ExpiryIndexExact'
  BY <1>1 DEF HistoryInv, ExpiryIndexExact, Outstanding, store
<1>4. failed \cap DOMAIN transfers = {}
  BY DEF HistoryInv, OverlayExact, Extends, Unburned, Burned
<1>5. failed' \cap DOMAIN transfers' = {}
  BY <1>1, <1>4 DEF store
<1> QED BY <1>1, <1>2, <1>3, <1>5, HistoryInvFresh

\* The commit's index: what was there and what was accepted, less what was
\* resolved.
LEMMA CommitIndex ==
    ASSUME HistoryInv, commit
    PROVE  ExpiryIndexExact'
<1> DEFINE X == apply.transfers
           R == apply.resolved
           N == {j \in apply.accepted \cap DOMAIN X : pc = "create_transfers" /\ Timed(X[j])}
           K == {j \in DOMAIN X : "PENDING" \in X[j].flags /\ j \notin DOMAIN R /\ Timed(X[j])}
           D == {j \in DOMAIN R \ DOMAIN pending_state : Timed(X[j])}
<1>1. /\ expiry' = (expiry \cup {ExpiryKey(X[i]) : i \in N}) \ apply.expiry_removals
      /\ transfers' = X /\ pending_state' = R
  BY DEF commit
<1>2. /\ Keyed(X, Transfer) /\ Extends(apply) /\ ExpiryIndexExact
      /\ apply.expiry_removals = {ExpiryKey(X[i]) : i \in D}
      /\ Settlements(X, R) /\ Settlements(transfers, pending_state)
  BY LedgerInvParts, OverlayFields DEF HistoryInv, OverlayExact, RecordsExact, Dropped
<1>3. \A i \in DOMAIN X : ExpiryKey(X[i]).id = i
  BY <1>2 DEF Keyed, ExpiryKey
<1>4. \A i \in DOMAIN transfers : i \in DOMAIN X /\ X[i] = transfers[i]
  BY <1>2 DEF Extends
<1>5. D \subseteq DOMAIN X /\ K \cap D = {}
  BY <1>2 DEF Settlements
<1>6. expiry = {ExpiryKey(X[i]) : i \in {j \in DOMAIN transfers :
                    j \notin DOMAIN pending_state /\ Timed(X[j])}}
  BY <1>2, <1>4 DEF ExpiryIndexExact, Outstanding, Timed
<1>7. ASSUME NEW k \in expiry' PROVE k \in {ExpiryKey(X[i]) : i \in K}
  <2>1. PICK i \in DOMAIN X : k = ExpiryKey(X[i]) /\ Timed(X[i]) /\ i \notin DOMAIN pending_state
    <3>1. CASE k \in expiry
      BY <1>4, <1>6, <3>1
    <3>2. CASE k \in {ExpiryKey(X[i]) : i \in N}
      BY <1>2, <3>2 DEF Extends, Settlements
    <3> QED BY <1>1, <3>1, <3>2
  <2>2. i \notin D
    BY <1>1, <1>2, <2>1
  <2>3. i \in K
    BY <2>1, <2>2 DEF Timed
  <2> QED BY <2>1, <2>3
<1>8. ASSUME NEW i \in K PROVE ExpiryKey(X[i]) \in expiry'
  <2>1. i \notin DOMAIN pending_state
    BY <1>2 DEF Extends
  <2>2. CASE i \in DOMAIN transfers
    BY <1>1, <1>2, <1>3, <1>5, <1>6, <2>1, <2>2
  <2>3. CASE i \notin DOMAIN transfers
    <3>1. i \in apply.accepted /\ pc = "create_transfers"
      BY <1>2, <2>3 DEF Extends
    <3> QED BY <1>1, <1>2, <1>3, <1>5, <3>1
  <2> QED BY <2>2, <2>3
<1>9. expiry' = {ExpiryKey(X[i]) : i \in K}
  BY <1>7, <1>8
<1>10. K = {j \in {i \in DOMAIN X : "PENDING" \in X[i].flags /\ i \notin DOMAIN R} : Timed(X[j])}
  OBVIOUS
<1> QED BY <1>1, <1>9, <1>10 DEF ExpiryIndexExact, Outstanding

LEMMA CommitHistory ==
    ASSUME HistoryInv, LedgerInv', commit
    PROVE  HistoryInv'
<1>1. /\ accounts' = apply.accounts /\ transfers' = apply.transfers
      /\ pending_state' = apply.resolved /\ failed' = failed \cup apply.failed_ids
      /\ watermark' = IF apply.accepted = {} THEN watermark ELSE apply.ts
      /\ Idle
  BY DEF commit
<1>2. /\ RecordsExact(apply.accounts, apply.transfers, apply.resolved, apply.ts)
      /\ Extends(apply) /\ Unburned(apply)
  BY DEF HistoryInv, OverlayExact
<1>3. watermark' = apply.ts
  BY <1>1, <1>2 DEF Extends
<1>4. RecordsExact(accounts', transfers', pending_state', watermark')
  BY <1>1, <1>2, <1>3
<1>5. failed' \cap DOMAIN transfers' = {}
  BY <1>1, <1>2 DEF Unburned, Burned
<1>6. ExpiryIndexExact'
  BY CommitIndex
<1> QED BY <1>1, <1>4, <1>5, <1>6, HistoryInvFresh

LEMMA SweepHistory ==
    ASSUME HistoryInv, LedgerInv', sweep_expired
    PROVE  HistoryInv'
<1>1. PICK p : ExpiredIn(apply', apply, p)
  BY SweepEffect
<1>2. OverlaySound(apply) /\ OverlayExact(apply) /\ OverlayExact(rollback)
      /\ DOMAIN rollback.transfers \subseteq DOMAIN apply.transfers
  BY LedgerInvParts DEF HistoryInv
<1>3. OverlayExact(apply')
  BY <1>1, <1>2, ExpiredExact
<1>4. rollback' = rollback /\ UNCHANGED store /\ pc' = pc /\ pc # "idle"
  BY DEF sweep_expired, request
<1>5. apply'.transfers = apply.transfers
  BY <1>1 DEF ExpiredIn
<1> QED BY <1>2, <1>3, <1>4, <1>5, HistoryInvKept

LEMMA ItemHistory ==
    ASSUME HistoryInv, LedgerInv', apply_item
    PROVE  HistoryInv'
<1>1. /\ OverlaySound(apply) /\ OverlayExact(apply) /\ OverlayExact(rollback)
      /\ watermark \in Nat /\ DOMAIN rollback.transfers \subseteq DOMAIN apply.transfers
  BY LedgerInvParts DEF HistoryInv
<1>2. OverlayExact(apply') /\ DOMAIN apply.transfers \subseteq DOMAIN apply'.transfers
  BY <1>1, ItemEffect, ItemExact
<1>3. /\ rollback' = apply \/ rollback' = rollback
      /\ UNCHANGED store /\ pc' = pc /\ pc # "idle"
  BY DEF apply_item, Processing, request
<1>4. OverlayExact(rollback') /\ DOMAIN rollback'.transfers \subseteq DOMAIN apply'.transfers
  BY <1>1, <1>2, <1>3
<1> QED BY <1>2, <1>3, <1>4, HistoryInvKept

\* A transient failure is only reported for an id that names no transfer.
LEMMA BurnsUnusedId ==
    ASSUME transfer_burns_id(Code(Item)), pc \in {"create_accounts", "create_transfers"}
    PROVE  batch[Item].id \notin DOMAIN apply.transfers
<1>1. pc = "create_transfers"
  <2>1. AccountCode(apply, batch[Item]) \notin Transient
    BY DEF AccountCode, account_exists_result, Transient
  <2> QED BY <2>1 DEF transfer_burns_id, Code
<1>2. TransferCode(apply, batch[Item]) \in Transient
  BY <1>1 DEF transfer_burns_id, Code
<1>3. SUFFICES ASSUME batch[Item].id \in DOMAIN apply.transfers PROVE FALSE
  OBVIOUS
<1>4. TransferCode(apply, batch[Item])
        \in {"InvalidInput", "Exists", "ExistsWithDifferentFields"}
  BY <1>3 DEF TransferCode, transfer_exists_result
<1> QED BY <1>2, <1>4 DEF Transient

LEMMA FailHistory ==
    ASSUME HistoryInv, LedgerInv', fail_chain
    PROVE  HistoryInv'
<1>1. PICK q : q = ChainBase
  OBVIOUS
<1>2. PICK ids : ids = {i \in {batch[Item].id} : transfer_burns_id(Code(Item))}
  OBVIOUS
<1>3. /\ apply' = [q EXCEPT !.failed_ids = @ \cup ids]
      /\ rollback' = rollback /\ UNCHANGED store /\ pc' = pc /\ pc # "idle"
  BY <1>1, <1>2 DEF fail_chain, Processing, request
<1>4. /\ OverlaySound(q) /\ OverlayExact(q) /\ OverlayExact(rollback)
      /\ DOMAIN rollback.transfers \subseteq DOMAIN q.transfers
      /\ DOMAIN q.transfers \subseteq DOMAIN apply.transfers
      /\ pc \in {"idle", "create_accounts", "create_transfers"}
  BY <1>1, LedgerInvParts DEF HistoryInv, ChainBase
<1>5. ids \cap DOMAIN q.transfers = {}
  BY <1>2, <1>3, <1>4, BurnsUnusedId
<1>6. PICK r : r = apply'
  OBVIOUS
<1>7. /\ r.accounts = q.accounts /\ r.transfers = q.transfers /\ r.resolved = q.resolved
      /\ r.expiry_removals = q.expiry_removals /\ r.failed_ids = q.failed_ids \cup ids
      /\ r.accepted = q.accepted /\ r.ts = q.ts
  <2>1. DOMAIN q = ApplyKeys
    BY <1>4, OverlayFields
  <2> QED BY <1>3, <1>6, <2>1 DEF ApplyKeys
<1>8. OverlayExact(r)
  <2>1. /\ RecordsExact(r.accounts, r.transfers, r.resolved, r.ts)
        /\ Extends(q) /\ Unburned(q) /\ Dropped(q)
    BY <1>4, <1>7 DEF OverlayExact
  <2>2. Extends(r) /\ Dropped(r)
    BY <1>7, <2>1 DEF Extends, Dropped
  <2>3. Unburned(r)
    BY <1>5, <1>7, <2>1 DEF Unburned, Burned
  <2> QED BY <2>1, <2>2, <2>3 DEF OverlayExact
<1> QED BY <1>3, <1>4, <1>6, <1>7, <1>8, HistoryInvKept

LEMMA OpenChainHistory ==
    ASSUME HistoryInv, LedgerInv', open_chain
    PROVE  HistoryInv'
<1>1. /\ apply' = apply /\ rollback' = rollback
      /\ UNCHANGED store /\ pc' = pc /\ pc # "idle"
  BY DEF open_chain, Processing, request
<1>2. /\ OverlayExact(apply) /\ OverlayExact(rollback)
      /\ DOMAIN rollback.transfers \subseteq DOMAIN apply.transfers
  BY DEF HistoryInv
<1> QED BY <1>1, <1>2, HistoryInvKept

LEMMA NextHistory == HistoryInv /\ [Next]_vars => HistoryInv'
<1> SUFFICES ASSUME HistoryInv, [Next]_vars PROVE HistoryInv'
  OBVIOUS
<1>1. LedgerInv'
  BY NextInv DEF HistoryInv
<1>2. CASE create_accounts
  BY <1>1, <1>2, BeginHistory DEF create_accounts
<1>3. CASE create_transfers
  BY <1>1, <1>3, BeginHistory DEF create_transfers
<1>4. CASE sweep_expired
  BY <1>1, <1>4, SweepHistory
<1>5. CASE apply_item
  BY <1>1, <1>5, ItemHistory
<1>6. CASE fail_chain
  BY <1>1, <1>6, FailHistory
<1>7. CASE open_chain
  BY <1>1, <1>7, OpenChainHistory
<1>8. CASE commit
  BY <1>1, <1>8, CommitHistory
<1>9. CASE abort
  BY <1>1, <1>9, AbortHistory
<1>10. CASE UNCHANGED vars
  <2>1. /\ UNCHANGED store /\ pc' = pc /\ apply' = apply /\ rollback' = rollback
    BY <1>10 DEF vars, request
  <2>2. OverlayExact(apply)' /\ OverlayExact(rollback)'
    <3>1. OverlayExact(apply) /\ OverlayExact(rollback)
      BY DEF HistoryInv
    <3> QED BY <2>1, <3>1 DEF OverlayExact, Extends, Unburned, Burned, Dropped, store
  <2>3. RecordsExact(accounts', transfers', pending_state', watermark')
    BY <2>1 DEF HistoryInv, store
  <2>4. ExpiryIndexExact'
    BY <2>1 DEF HistoryInv, ExpiryIndexExact, Outstanding, store
  <2> QED BY <1>1, <2>1, <2>2, <2>3, <2>4 DEF HistoryInv
<1> QED BY <1>2, <1>3, <1>4, <1>5, <1>6, <1>7, <1>8, <1>9, <1>10 DEF Next

LEMMA HistoryInvHolds == Spec => []HistoryInv
BY InitHistory, NextHistory, PTL DEF Spec

-----------------------------------------------------------------------------
(* 6. The theorems.                                                        *)

\* Whatever clock each apply reads, backwards or not, and however imported and
\* assigned timestamps mix, no two records share a timestamp and none is ahead
\* of the persisted watermark (TimestampSource, commit).
THEOREM TimestampsAreUnique == Spec => []TimestampsUnique
<1>1. HistoryInv => TimestampsUnique
  BY DEF HistoryInv, RecordsExact, Dated, TimestampsUnique
<1> QED BY <1>1, HistoryInvHolds, PTL

\* An id burned by a transient failure never names a transfer, over failed
\* chains, retries and later batches (transfer_burns_id, the failed index).
THEOREM BurnedIdsStayUnused == Spec => []BurnedNeverCreated
<1>1. HistoryInv => BurnedNeverCreated
  BY DEF HistoryInv, OverlayExact, Extends, Unburned, Burned, BurnedNeverCreated
<1> QED BY <1>1, HistoryInvHolds, PTL

\* The expiry index holds exactly the timed pendings still outstanding, after
\* reserves, posts, voids, sweeps and chains rolled back over any of them.
THEOREM ExpiryIndexIsExact == Spec => []ExpiryIndexExact
<1>1. HistoryInv => ExpiryIndexExact
  BY DEF HistoryInv
<1> QED BY <1>1, HistoryInvHolds, PTL

\* A pending has exactly the one post or void its state names: no retry,
\* expiry or second resolution settles it again (stage_resolution).
THEOREM PendingsSettleOnce == Spec => []SettledOnce
<1>1. HistoryInv => SettledOnce
  <2> SUFFICES ASSUME HistoryInv, NEW i \in DOMAIN transfers, "PENDING" \in transfers[i].flags
               PROVE  LET state == IF i \in DOMAIN pending_state
                                   THEN pending_state[i] ELSE "Outstanding"
                      IN  /\ Cardinality(Resolving(i, "Post"))
                               = (IF state = "Posted" THEN 1 ELSE 0)
                          /\ Cardinality(Resolving(i, "Void"))
                               = (IF state = "Voided" THEN 1 ELSE 0)
    BY DEF SettledOnce
  <2>1. Settlements(transfers, pending_state)
    BY DEF HistoryInv, RecordsExact
  <2>2. IsMap(pending_state, Nat, PendingStatus)
    BY LedgerInvParts DEF HistoryInv
  <2>3. \A j \in DOMAIN transfers :
           /\ j \in Resolving(i, "Post") <=>
                (Resolves(transfers, j, i) /\ SettlementOf(transfers[j]) = "Posted")
           /\ j \in Resolving(i, "Void") <=>
                (Resolves(transfers, j, i) /\ SettlementOf(transfers[j]) = "Voided")
    BY DEF Resolving, Resolves, SettlementOf, IsResolution
  <2>4. /\ Resolving(i, "Post") \subseteq DOMAIN transfers
        /\ Resolving(i, "Void") \subseteq DOMAIN transfers
    BY DEF Resolving
  <2>5. Cardinality({}) = 0
    BY FS_EmptySet
  <2>6. ASSUME NEW j \in DOMAIN transfers PROVE Cardinality({j}) = 1
    BY FS_Singleton
  <2>7. CASE i \notin DOMAIN pending_state
    <3>1. Resolving(i, "Post") = {} /\ Resolving(i, "Void") = {}
      BY <2>1, <2>3, <2>4, <2>7 DEF Settlements
    <3> QED BY <2>5, <2>7, <3>1
  <2>8. CASE i \in DOMAIN pending_state /\ pending_state[i] = "Expired"
    <3>1. Resolving(i, "Post") = {} /\ Resolving(i, "Void") = {}
      BY <2>1, <2>3, <2>4, <2>8 DEF Settlements
    <3> QED BY <2>5, <2>8, <3>1
  <2>9. CASE i \in DOMAIN pending_state /\ pending_state[i] # "Expired"
    <3>1. PICK j \in DOMAIN transfers : Resolves(transfers, j, i)
      BY <2>1, <2>9 DEF Settlements
    <3>2. pending_state[i] = SettlementOf(transfers[j])
      BY <2>1, <3>1 DEF Settlements
    <3>3. \A k \in DOMAIN transfers : Resolves(transfers, k, i) => k = j
      BY <2>1, <3>1 DEF Settlements, Resolves
    <3>4. CASE SettlementOf(transfers[j]) = "Posted"
      <4>1. Resolving(i, "Post") = {j} /\ Resolving(i, "Void") = {}
        BY <2>3, <2>4, <3>1, <3>3, <3>4
      <4> QED BY <2>5, <2>6, <2>9, <3>2, <3>4, <4>1
    <3>5. CASE SettlementOf(transfers[j]) = "Voided"
      <4>1. Resolving(i, "Void") = {j} /\ Resolving(i, "Post") = {}
        BY <2>3, <2>4, <3>1, <3>3, <3>5
      <4> QED BY <2>5, <2>6, <2>9, <3>2, <3>5, <4>1
    <3> QED BY <3>4, <3>5 DEF SettlementOf
  <2> QED BY <2>7, <2>8, <2>9
<1> QED BY <1>1, HistoryInvHolds, PTL

\* An account is closed exactly while a closing pending holds it, or because
\* it was created so: voiding or expiring one pending never reopens what
\* another one closed (stage_pending, stage_resolution, sweep_expired).
THEOREM ClosedWhileHeld == Spec => []ClosedByClosingPending
<1>1. HistoryInv => ClosedByClosingPending
  BY DEF HistoryInv, RecordsExact, Closings, Holds, MayStartClosed, MustStartClosed,
         ClosedByClosingPending
<1> QED BY <1>1, HistoryInvHolds, PTL

\* No step rewrites a committed transfer or a settled pending's state, unburns
\* an id or moves the watermark back, and what a commit adds is stamped after
\* everything before it.
THEOREM RecordsAreAppendOnly == Spec => AppendOnly
<1> DEFINE A == /\ \A i \in DOMAIN transfers :
                      i \in DOMAIN transfers' /\ transfers'[i] = transfers[i]
                /\ \A i \in DOMAIN pending_state :
                      i \in DOMAIN pending_state' /\ pending_state'[i] = pending_state[i]
                /\ failed \subseteq failed'
                /\ watermark <= watermark'
                /\ \A i \in DOMAIN transfers' \ DOMAIN transfers :
                      transfers'[i].timestamp > watermark
<1>1. HistoryInv /\ [Next]_vars => [A]_vars
  <2> SUFFICES ASSUME HistoryInv, [Next]_vars PROVE A
    OBVIOUS
  <2>1. watermark \in Nat /\ Extends(apply)
    BY LedgerInvParts DEF HistoryInv, OverlayExact
  <2>2. CASE commit
    BY <2>1, <2>2 DEF commit, Extends
  <2>3. CASE UNCHANGED store
    BY <2>1, <2>3 DEF store
  <2>4. commit \/ UNCHANGED store
    BY DEF Next, vars, create_accounts, create_transfers, Begin, sweep_expired,
           apply_item, fail_chain, open_chain, abort
  <2> QED BY <2>2, <2>3, <2>4
<1> QED BY <1>1, HistoryInvHolds, PTL DEF Spec, AppendOnly

-----------------------------------------------------------------------------
(* 7. What a caller is told: the invariant.                                *)

Positive(code) == code \in {"Created", "Exists"}

\* A retry of t would be answered from s.
Remembered(s, t) ==
    /\ ~InvalidBeforeLookup(t) /\ t.id \in DOMAIN s.transfers
    /\ t.flags \cap Balancing = {} =>
          transfer_exists_result(t, s.transfers[t.id]) = "Exists"

\* The first k of the results `res` describe the overlay s.
Answered(s, res, k) ==
    /\ s.accepted = {batch[i].id : i \in {j \in 1..k : res[j] = "Created"}}
    /\ pc = "create_transfers" =>
          \A i \in 1..k : res[i] = "Created" => Remembered(s, batch[i])

\* The next item goes on with a chain.
MidChain == Item <= Len(batch) /\ ~ChainHead(Item)

ChainsWhole ==
    /\ \A i \in 1 .. Len(results) - 1 : Linked(i) =>
          (Positive(results[i]) <=> Positive(results[i + 1]))
    /\ (/\ Len(batch) > 0 /\ Len(results) = Len(batch) /\ Linked(Len(batch)))
          => ~Positive(results[Len(batch)])

Refusals == {"Exists", "LinkedEventFailed", "LinkedEventChainOpen"}

\* An item that repeats an earlier one of its batch is a retry.
RetriesIn(res) ==
    pc = "create_transfers" =>
        \A i, j \in DOMAIN res :
            (/\ i < j /\ batch[i] = batch[j] /\ res[i] = "Created"
             /\ batch[i].flags \cap Balancing = {})
            => res[j] \in Refusals

RepliesInv ==
    /\ HistoryInv
    /\ pc # "idle" =>
          /\ Answered(apply, results, Len(results))
          /\ MidChain => /\ Answered(rollback, results, ChainStart(Item) - 1)
                         /\ ~ChainOpen(Item)
                         /\ Positive(results[Len(results)])
          /\ ChainsWhole
    /\ RetriesIn(results)

-----------------------------------------------------------------------------
(* 8. The chains of a batch.                                              *)

LEMMA ChainStartIs ==
    ASSUME NEW i \in Nat \ {0}
    PROVE  /\ ChainStart(i) \in 1..i /\ ChainHead(ChainStart(i))
           /\ \A j \in ChainStart(i) + 1 .. i : ~ChainHead(j)
<1> DEFINE T == {n \in 0 .. i - 1 : ChainHead(i - n)}
           P(k) == ChainHead(k) /\ \A j \in k + 1 .. i : ~ChainHead(j)
<1>1. i - 1 \in T /\ T \subseteq Nat
  <2>1. i - (i - 1) = 1
    OBVIOUS
  <2>2. ChainHead(1)
    BY DEF ChainHead
  <2> QED BY <2>1, <2>2
<1> HIDE DEF T
<1>2. PICK n \in T : \A m \in T : n <= m
  BY <1>1, LeastNatural
<1>3. n \in 0 .. i - 1 /\ ChainHead(i - n)
  BY <1>2 DEF T
<1>4. ASSUME NEW j \in (i - n) + 1 .. i PROVE ~ChainHead(j)
  <2>1. i - j \in 0 .. i - 1 /\ i - j < n /\ i - (i - j) = j
    BY <1>3
  <2>2. i - j \notin T
    BY <1>2, <1>3, <2>1
  <2> QED BY <2>1, <2>2 DEF T
<1>5. P(i - n) /\ i - n \in 1..i
  BY <1>3, <1>4
<1> HIDE DEF P
<1>6. PICK c : c = CHOOSE k \in 1..i : P(k)
  OBVIOUS
<1>7. c \in 1..i /\ P(c)
  BY <1>5, <1>6
<1>8. c = ChainStart(i)
  BY <1>6 DEF ChainStart, P
<1> QED BY <1>7, <1>8 DEF P

\* The head of i's chain is the only one with no head after it up to i.
LEMMA ChainStartUnique ==
    ASSUME NEW i \in Nat \ {0}, NEW k \in 1..i, ChainHead(k),
           \A j \in k + 1 .. i : ~ChainHead(j)
    PROVE  ChainStart(i) = k
<1>1. PICK c : c = ChainStart(i)
  OBVIOUS
<1>2. c \in 1..i /\ ChainHead(c) /\ \A j \in c + 1 .. i : ~ChainHead(j)
  BY <1>1, ChainStartIs
<1>3. ~(c < k)
  BY <1>2
<1>4. ~(k < c)
  BY <1>2
<1> QED BY <1>1, <1>2, <1>3, <1>4

LEMMA ChainStartSteps ==
    ASSUME NEW i \in Nat \ {0}
    PROVE  /\ ChainHead(i) => ChainStart(i) = i
           /\ ~ChainHead(i + 1) => ChainStart(i + 1) = ChainStart(i)
<1>1. ASSUME ChainHead(i) PROVE ChainStart(i) = i
  BY <1>1, ChainStartUnique
<1>2. ASSUME ~ChainHead(i + 1) PROVE ChainStart(i + 1) = ChainStart(i)
  <2>1. PICK c : c = ChainStart(i)
    OBVIOUS
  <2>2. c \in 1..i /\ ChainHead(c) /\ \A j \in c + 1 .. i : ~ChainHead(j)
    BY <2>1, ChainStartIs
  <2>3. c \in 1 .. i + 1 /\ i + 1 \in Nat \ {0}
    BY <2>2
  <2>4. \A j \in c + 1 .. i + 1 : ~ChainHead(j)
    <3> TAKE j \in c + 1 .. i + 1
    <3>1. j = i + 1 \/ j \in c + 1 .. i
      BY <2>2
    <3> QED BY <1>2, <2>2, <3>1
  <2> QED BY <2>1, <2>2, <2>3, <2>4, ChainStartUnique
<1> QED BY <1>1, <1>2

\* A chain that is not open ends at its terminator.
LEMMA ChainEndIs ==
    ASSUME Len(batch) \in Nat, NEW i \in 1..Len(batch), ~ChainOpen(i)
    PROVE  ~Linked(ChainEnd(i))
<1> DEFINE T == {j \in i..Len(batch) : ~Linked(j)}
           P(j) == ~Linked(j) /\ \A k \in i .. j - 1 : Linked(k)
<1>1. T # {} /\ T \subseteq Nat
  BY DEF ChainOpen
<1> HIDE DEF T
<1>2. PICK x \in T : \A y \in T : x <= y
  BY <1>1, LeastNatural
<1>3. x \in i..Len(batch) /\ ~Linked(x)
  BY <1>2 DEF T
<1>4. ASSUME NEW k \in i .. x - 1 PROVE Linked(k)
  <2>1. k \in i..Len(batch) /\ k < x
    BY <1>3
  <2>2. k \notin T
    BY <1>2, <1>3, <2>1
  <2> QED BY <2>1, <2>2 DEF T
<1>5. P(x)
  BY <1>3, <1>4
<1> HIDE DEF P
<1>6. PICK c : c = CHOOSE j \in i..Len(batch) : P(j)
  OBVIOUS
<1>7. P(c)
  BY <1>3, <1>5, <1>6
<1>8. c = ChainEnd(i)
  BY <1>6 DEF ChainEnd, P
<1> QED BY <1>7, <1>8 DEF P

\* The results once a chain is refused: as before up to its head, none of its
\* members good.
LEMMA RefusedResults ==
    ASSUME Len(batch) \in Nat, results \in Seq(Result), Item <= Len(batch), NEW o,
           NEW why, ~Positive(why), NEW res, res = ChainRefused(Item, o, why)
    PROVE  /\ Len(res) = ChainEnd(Item) /\ DOMAIN res = 1..ChainEnd(Item)
           /\ ChainEnd(Item) \in Item..Len(batch) /\ ChainStart(Item) \in 1..Item
           /\ \A k \in 1 .. ChainStart(Item) - 1 : res[k] = results[k]
           /\ \A k \in ChainStart(Item)..ChainEnd(Item) :
                 ~Positive(res[k]) /\ (k # o => res[k] = "LinkedEventFailed")
                               /\ (k = o => res[k] = why)
<1>1. /\ Len(results) \in Nat
      /\ Item = Len(results) + 1 /\ Item \in 1..Len(batch) /\ Item \in Nat \ {0}
  BY LenProperties DEF Item
<1>2. PICK e, c : e = ChainEnd(Item) /\ c = ChainStart(Item)
  OBVIOUS
<1>3. e \in Item..Len(batch) /\ c \in 1..Item
  BY <1>1, <1>2, ChainEndInBatch, ChainStartInBatch
<1>4. res = [k \in 1..e |-> IF k < c THEN results[k]
                            ELSE IF k = o THEN why ELSE "LinkedEventFailed"]
  BY <1>2 DEF ChainRefused
<1>5. e \in Nat /\ c \in Nat
  BY <1>1, <1>3
<1>6. Len(res) = e /\ DOMAIN res = 1..e
  BY <1>4, <1>5
<1>7. \A k \in 1 .. c - 1 : res[k] = results[k]
  BY <1>1, <1>3, <1>4, <1>5
<1>8. \A k \in c..e : ~Positive(res[k]) /\ (k # o => res[k] = "LinkedEventFailed")
                                    /\ (k = o => res[k] = why)
  BY <1>1, <1>3, <1>4, <1>5 DEF Positive
<1> QED BY <1>2, <1>3, <1>6, <1>7, <1>8

-----------------------------------------------------------------------------
(* 9. The answer to one item.                                             *)

LEMMA ProcessRecorded ==
    ASSUME NEW s, OverlaySound(s), SidesKnown(s.accounts, s.transfers),
           NEW t \in Transfer, clock \in Nat, TransferCode(s, t) = "Created"
    PROVE  Recorded(process_transfer(s, t), s, RecordOf(s, t))
<1>1. CASE classify(t) = "Regular"
  BY <1>1, BookedEffect DEF Booked
<1>2. CASE classify(t) = "PendingReserve"
  BY <1>2, ReservedEffect DEF Reserved
<1>3. CASE classify(t) = "Post"
  BY <1>3, PostedEffect DEF PostedBy
<1>4. CASE classify(t) = "Void"
  BY <1>4, VoidedEffect DEF VoidedBy
<1>5. classify(t) \in {"Regular", "PendingReserve", "Post", "Void"}
  BY DEF classify
<1> QED BY <1>1, <1>2, <1>3, <1>4, <1>5

\* The record of a transfer, field by field.
LEMMA RecordFields ==
    ASSUME NEW s, OverlaySound(s), NEW t \in Transfer, clock \in Nat,
           TransferCode(s, t) = "Created"
    PROVE  LET v == RecordOf(s, t)
               p == s.transfers[t.pending_id]
           IN  /\ v.id = t.id /\ v.flags = t.flags /\ v.pending_id = t.pending_id
               /\ v.timeout = t.timeout
               /\ IsResolution(t) => /\ v.debit_account_id = p.debit_account_id
                                     /\ v.credit_account_id = p.credit_account_id
                                     /\ v.amount = Settled(t, p) /\ v.ledger = p.ledger
                                     /\ v.code = IF t.code # 0 THEN t.code ELSE p.code
               /\ ~IsResolution(t) => /\ v.debit_account_id = t.debit_account_id
                                      /\ v.credit_account_id = t.credit_account_id
                                      /\ v.amount = Effective(s, t)
                                      /\ v.ledger = t.ledger /\ v.code = t.code
<1> DEFINE v == RecordOf(s, t)
           p == s.transfers[t.pending_id]
<1>1. CASE IsResolution(t)
  <2>1. v = [Materialized(t, p) EXCEPT !.timestamp = Stamp(s, t)]
    BY <1>1 DEF RecordOf, Unstamped
  <2> HIDE DEF v, p
  <2> QED BY <1>1, <2>1 DEF Materialized, Transfer, v, p
<1>2. CASE ~IsResolution(t)
  <2>1. v = [[t EXCEPT !.amount = Effective(s, t)] EXCEPT !.timestamp = Stamp(s, t)]
    BY <1>2 DEF RecordOf, Unstamped
  <2> HIDE DEF v, p
  <2> QED BY <1>2, <2>1 DEF Transfer, v
<1> QED BY <1>1, <1>2

\* Without a balancing flag the amount is what was asked for.
LEMMA EffectivePlain ==
    ASSUME NEW s, NEW t, t.flags \cap Balancing = {}
    PROVE  Effective(s, t) = t.amount
BY DEF Effective, balancing_amount, Balancing

\* What a resolution states of its pending matches what it inherits.
LEMMA ResolutionMatches ==
    ASSUME NEW s, OverlaySound(s), NEW t \in Transfer, ResolutionCode(s, t) = "Created"
    PROVE  LET p == s.transfers[t.pending_id]
           IN  /\ \A f \in {"debit_account_id", "credit_account_id", "ledger", "code"} :
                     t[f] = 0 \/ t[f] = p[f]
               /\ classify(t) # "Post" => t.amount = 0 \/ t.amount = p.amount
<1> DEFINE p == s.transfers[t.pending_id]
<1>1. t.pending_id \in DOMAIN s.transfers
  BY DEF ResolutionCode
<1>2. MatchesPending(t, p)
  BY <1>1, Zenon DEF ResolutionCode
<1>3. classify(t) # "Post" => ~(t.amount # 0 /\ t.amount # p.amount)
  BY <1>1, Zenon DEF ResolutionCode
<1> HIDE DEF p
<1> QED BY <1>2, <1>3 DEF MatchesPending, p

LEMMA RetryAnswersExists ==
    ASSUME NEW s, OverlaySound(s), NEW t \in Transfer, clock \in Nat,
           TransferCode(s, t) = "Created", t.flags \cap Balancing = {}
    PROVE  transfer_exists_result(t, RecordOf(s, t)) = "Exists"
<1>1. PICK v : v = RecordOf(s, t)
  OBVIOUS
<1>2. PICK p : p = s.transfers[t.pending_id]
  OBVIOUS
<1>3. /\ v.id = t.id /\ v.flags = t.flags /\ v.pending_id = t.pending_id
      /\ v.timeout = t.timeout
      /\ IsResolution(t) => /\ v.debit_account_id = p.debit_account_id
                            /\ v.credit_account_id = p.credit_account_id
                            /\ v.amount = Settled(t, p) /\ v.ledger = p.ledger
                            /\ v.code = IF t.code # 0 THEN t.code ELSE p.code
      /\ ~IsResolution(t) => /\ v.debit_account_id = t.debit_account_id
                             /\ v.credit_account_id = t.credit_account_id
                             /\ v.amount = Effective(s, t)
                             /\ v.ledger = t.ledger /\ v.code = t.code
  BY <1>1, <1>2, RecordFields
<1>4. CASE ~IsResolution(t)
  <2>1. Effective(s, t) = t.amount
    BY EffectivePlain
  <2> QED BY <1>1, <1>3, <1>4, <2>1 DEF transfer_exists_result
<1>5. CASE IsResolution(t)
  <2>1. ResolutionCode(s, t) = "Created"
    BY <1>5, TransferAccepted
  <2>2. /\ t.debit_account_id = 0 \/ t.debit_account_id = p.debit_account_id
        /\ t.credit_account_id = 0 \/ t.credit_account_id = p.credit_account_id
        /\ t.ledger = 0 \/ t.ledger = p.ledger
        /\ t.code = 0 \/ t.code = p.code
        /\ classify(t) # "Post" => t.amount = 0 \/ t.amount = p.amount
    BY <1>2, <2>1, ResolutionMatches
  <2>3. /\ classify(t) = "Post" => t.amount = AmountMax \/ t.amount = Settled(t, p)
        /\ classify(t) # "Post" => t.amount = 0 \/ t.amount = Settled(t, p)
    BY <2>2 DEF Settled
  <2> QED BY <1>1, <1>3, <1>5, <2>2, <2>3 DEF transfer_exists_result
<1> QED BY <1>4, <1>5

\* What apply_item does to what the replies speak of.
LEMMA ItemReplies ==
    ASSUME HistoryInv, apply_item
    PROVE  /\ Code(Item) = "Exists" => apply' = apply
           /\ Code(Item) = "Created" =>
                 /\ apply'.accepted = apply.accepted \cup {batch[Item].id}
                 /\ pc = "create_transfers" =>
                       /\ Remembered(apply', batch[Item])
                       /\ \A i \in DOMAIN apply.transfers :
                             /\ i \in DOMAIN apply'.transfers
                             /\ apply'.transfers[i] = apply.transfers[i]
<1>1. /\ Item <= Len(batch) /\ Code(Item) \in {"Created", "Exists"} /\ pc # "idle"
      /\ apply' = IF Code(Item) = "Exists" THEN apply
                  ELSE IF pc = "create_accounts" THEN stage_account(apply, batch[Item])
                  ELSE process_transfer(apply, batch[Item])
  BY DEF apply_item, Processing
<1>2. /\ LedgerInv /\ OverlaySound(apply) /\ clock \in Nat
      /\ pc \in {"idle", "create_accounts", "create_transfers"}
      /\ SidesKnown(apply.accounts, apply.transfers)
  BY LedgerInvParts DEF HistoryInv, OverlayExact, RecordsExact
<1>3. CASE Code(Item) = "Exists"
  BY <1>1, <1>3
<1>4. CASE Code(Item) = "Created" /\ pc = "create_accounts"
  <2>1. DOMAIN apply = ApplyKeys
    BY <1>2, OverlayFields
  <2>2. apply' = stage_account(apply, batch[Item])
    BY <1>1, <1>4
  <2>3. apply'.accepted = apply.accepted \cup {batch[Item].id}
    BY <2>1, <2>2 DEF stage_account, ApplyKeys
  <2> QED BY <1>4, <2>3
<1>5. CASE Code(Item) = "Created" /\ pc = "create_transfers"
  <2>1. PICK t : t = batch[Item]
    OBVIOUS
  <2>2. t \in Transfer
    BY <1>1, <1>2, <1>5, <2>1, ItemSpec
  <2>3. TransferCode(apply, t) = "Created"
    BY <1>5, <2>1 DEF Code
  <2>4. PICK v : v = RecordOf(apply, t)
    OBVIOUS
  <2>5. Recorded(apply', apply, v)
    BY <1>1, <1>2, <1>5, <2>1, <2>2, <2>3, <2>4, ProcessRecorded
  <2>6. v.id = t.id
    BY <1>2, <2>2, <2>3, <2>4, RecordFields
  <2>7. /\ apply'.accepted = apply.accepted \cup {t.id}
        /\ Added(apply'.transfers, apply.transfers, t.id, v)
    BY <2>5, <2>6, PutAdded DEF Recorded
  <2>8. ~InvalidBeforeLookup(t)
    BY <2>3 DEF TransferCode
  <2>9. t.flags \cap Balancing = {} => transfer_exists_result(t, v) = "Exists"
    BY <1>2, <2>2, <2>3, <2>4, RetryAnswersExists
  <2>10. Remembered(apply', t)
    BY <2>7, <2>8, <2>9 DEF Remembered, Added
  <2>11. \A i \in DOMAIN apply.transfers :
            i \in DOMAIN apply'.transfers /\ apply'.transfers[i] = apply.transfers[i]
    BY <2>7 DEF Added
  <2> QED BY <1>5, <2>1, <2>7, <2>10, <2>11
<1> QED BY <1>1, <1>2, <1>3, <1>4, <1>5

\* A retry of a remembered transfer is answered Exists.
LEMMA RememberedIsExists ==
    ASSUME pc = "create_transfers", NEW i, Remembered(apply, batch[i]),
           batch[i].flags \cap Balancing = {}
    PROVE  Code(i) = "Exists"
BY DEF Code, TransferCode, Remembered

-----------------------------------------------------------------------------
(* 10. The invariant of the answers is inductive.                          *)

\* The parts of the invariant, of results that are not the current ones.
WholeIn(res) ==
    /\ \A i \in 1 .. Len(res) - 1 : Linked(i) => (Positive(res[i]) <=> Positive(res[i + 1]))
    /\ (/\ Len(batch) > 0 /\ Len(res) = Len(batch) /\ Linked(Len(batch)))
          => ~Positive(res[Len(batch)])

InChain(s, res) ==
    LET next == Len(res) + 1
    IN  next <= Len(batch) /\ ~ChainHead(next) =>
           /\ Answered(s, res, ChainStart(next) - 1)
           /\ ~ChainOpen(next)
           /\ Positive(res[Len(res)])

LEMMA RepliesInvParts ==
    RepliesInv <=>
    /\ HistoryInv
    /\ pc # "idle" => /\ Answered(apply, results, Len(results))
                      /\ InChain(rollback, results)
                      /\ WholeIn(results)
    /\ RetriesIn(results)
BY DEF RepliesInv, InChain, MidChain, Item, ChainsWhole, WholeIn

LEMMA RepliesInvKept ==
    ASSUME HistoryInv', UNCHANGED request, Answered(apply', results', Len(results')),
           InChain(rollback', results'), WholeIn(results'), RetriesIn(results')
    PROVE  RepliesInv'
<1>1. pc' = pc /\ batch' = batch /\ clock' = clock
  BY DEF request
<1>2. Answered(apply, results, Len(results))'
  BY <1>1 DEF Answered, Remembered, InvalidBeforeLookup, BatchImported
<1>3. (MidChain => /\ Answered(rollback, results, ChainStart(Item) - 1)
                   /\ ~ChainOpen(Item)
                   /\ Positive(results[Len(results)]))'
  <2> SUFFICES ASSUME MidChain'
               PROVE  /\ Answered(rollback, results, ChainStart(Item) - 1)'
                      /\ ~ChainOpen(Item)'
                      /\ Positive(results'[Len(results')])
    OBVIOUS
  <2>1. /\ Len(results') + 1 <= Len(batch) /\ ~ChainHead(Len(results') + 1)
    BY <1>1 DEF MidChain, Item, ChainHead, Linked
  <2>2. /\ Answered(rollback', results', ChainStart(Len(results') + 1) - 1)
        /\ ~ChainOpen(Len(results') + 1) /\ Positive(results'[Len(results')])
    BY <2>1 DEF InChain
  <2>3. ChainStart(Item)' = ChainStart(Len(results') + 1)
    BY <1>1 DEF Item, ChainStart, ChainHead, Linked
  <2>4. ~ChainOpen(Item)'
    BY <1>1, <2>2 DEF Item, ChainOpen, Linked
  <2>5. Answered(rollback, results, ChainStart(Item) - 1)'
    BY <1>1, <2>2, <2>3 DEF Answered, Remembered, InvalidBeforeLookup, BatchImported
  <2> QED BY <2>2, <2>4, <2>5
<1>4. ChainsWhole'
  BY <1>1 DEF WholeIn, ChainsWhole, Linked
<1>5. RetriesIn(results)'
  BY <1>1 DEF RetriesIn
<1> QED BY <1>2, <1>3, <1>4, <1>5 DEF RepliesInv

LEMMA IdleReplies ==
    ASSUME HistoryInv', Idle
    PROVE  RepliesInv'
BY DEF Idle, RepliesInv, RetriesIn

LEMMA BeginReplies ==
    ASSUME RepliesInv, HistoryInv', NEW op \in {"create_accounts", "create_transfers"},
           NEW items, NEW now, Begin(op, items, now)
    PROVE  RepliesInv'
<1>1. /\ pc = "idle" /\ pc' = op /\ batch' = items /\ results' = results
      /\ apply' = apply /\ rollback' = rollback
  BY DEF Begin
<1>2. results = <<>> /\ apply.accepted = {}
  BY <1>1, LedgerInvParts DEF RepliesInv, HistoryInv
<1>3. Len(results') = 0 /\ DOMAIN results' = {}
  BY <1>1, <1>2
<1>4. Answered(apply, results, Len(results))'
  BY <1>1, <1>2, <1>3 DEF Answered
<1>5. ~MidChain'
  BY <1>3 DEF MidChain, Item, ChainHead
<1>6. ChainsWhole'
  <2>1. Len(batch') > 0 /\ Len(results') = Len(batch') => FALSE
    BY <1>3
  <2> QED BY <1>3, <2>1 DEF ChainsWhole
<1>7. RetriesIn(results)'
  BY <1>3 DEF RetriesIn
<1> QED BY <1>4, <1>5, <1>6, <1>7 DEF RepliesInv

LEMMA SweepReplies ==
    ASSUME RepliesInv, HistoryInv', sweep_expired
    PROVE  RepliesInv'
<1>1. PICK p : ExpiredIn(apply', apply, p)
  BY SweepEffect DEF RepliesInv
<1>2. apply'.transfers = apply.transfers /\ apply'.accepted = apply.accepted
  BY <1>1 DEF ExpiredIn
<1>3. /\ UNCHANGED request /\ rollback' = rollback /\ results' = results /\ pc # "idle"
  BY DEF sweep_expired
<1>4. /\ Answered(apply, results, Len(results)) /\ InChain(rollback, results)
      /\ WholeIn(results) /\ RetriesIn(results)
  BY <1>3, RepliesInvParts
<1>5. Answered(apply', results, Len(results))
  BY <1>2, <1>4 DEF Answered, Remembered
<1> QED BY <1>3, <1>4, <1>5, RepliesInvKept

LEMMA ItemsReply ==
    ASSUME RepliesInv, HistoryInv', apply_item
    PROVE  RepliesInv'
<1>1. PICK n, c, res : n = Len(results) /\ c = Code(Item) /\ res = results'
  OBVIOUS
<1>2. /\ Item <= Len(batch) /\ ~ChainOpen(Item) /\ Positive(c) /\ pc # "idle"
      /\ rollback' = (IF ChainHead(Item) /\ Linked(Item) THEN apply ELSE rollback)
      /\ res = Append(results, c) /\ UNCHANGED request
  BY <1>1 DEF apply_item, Processing, Positive
<1>3. /\ HistoryInv /\ Answered(apply, results, n) /\ InChain(rollback, results)
      /\ WholeIn(results) /\ RetriesIn(results)
  BY <1>1, <1>2, RepliesInvParts
<1>4. /\ results \in Seq(Result) /\ n \in Nat /\ Len(batch) \in Nat /\ Item = n + 1
      /\ DOMAIN results = 1..n /\ n + 1 <= Len(batch)
  <2>1. LedgerInv
    BY <1>3 DEF HistoryInv
  <2>2. results \in Seq(Result)
    BY <2>1, LedgerInvParts
  <2> QED BY <1>1, <1>2, <2>1, <2>2, ItemOK, LenProperties DEF Item
<1>5. /\ Len(res) = n + 1 /\ DOMAIN res = 1 .. n + 1
      /\ \A k \in 1..n : res[k] = results[k]
      /\ res[n + 1] = c
  BY <1>1, <1>2, <1>4
<1>6. /\ c = "Exists" => apply' = apply
      /\ c = "Created" =>
            /\ apply'.accepted = apply.accepted \cup {batch[n + 1].id}
            /\ pc = "create_transfers" =>
                  /\ Remembered(apply', batch[n + 1])
                  /\ \A i \in DOMAIN apply.transfers :
                        /\ i \in DOMAIN apply'.transfers
                        /\ apply'.transfers[i] = apply.transfers[i]
  BY <1>1, <1>3, <1>4, ItemReplies
<1>7. \A k \in 1 .. n + 1 : k \in 1..n \/ k = n + 1
  BY <1>4
<1>8. Answered(apply', res, n + 1)
  <2>1. CASE c = "Exists"
    <3>1. {j \in 1 .. n + 1 : res[j] = "Created"} = {j \in 1..n : results[j] = "Created"}
      BY <1>4, <1>5, <1>7, <2>1
    <3> QED BY <1>3, <1>5, <1>6, <1>7, <2>1, <3>1 DEF Answered
  <2>2. CASE c = "Created"
    <3>1. {j \in 1 .. n + 1 : res[j] = "Created"}
             = {j \in 1..n : results[j] = "Created"} \cup {n + 1}
      BY <1>4, <1>5, <1>7, <2>2
    <3>2. apply'.accepted = {batch[i].id : i \in {j \in 1 .. n + 1 : res[j] = "Created"}}
      BY <1>3, <1>6, <2>2, <3>1 DEF Answered
    <3>3. ASSUME pc = "create_transfers", NEW i \in 1 .. n + 1, res[i] = "Created"
          PROVE  Remembered(apply', batch[i])
      <4>1. CASE i = n + 1
        BY <1>6, <2>2, <3>3, <4>1
      <4>2. CASE i \in 1..n
        <5>1. Remembered(apply, batch[i])
          BY <1>3, <1>5, <3>3, <4>2 DEF Answered
        <5> QED BY <1>6, <2>2, <3>3, <5>1 DEF Remembered
      <4> QED BY <1>7, <4>1, <4>2
    <3> QED BY <3>2, <3>3 DEF Answered
  <2> QED BY <1>2, <2>1, <2>2 DEF Positive
<1>9. InChain(rollback', res)
  <2> SUFFICES ASSUME n + 2 <= Len(batch), ~ChainHead(n + 2)
               PROVE  /\ Answered(rollback', res, ChainStart(n + 2) - 1)
                      /\ ~ChainOpen(n + 2) /\ Positive(res[n + 1])
    BY <1>4, <1>5 DEF InChain
  <2>1. Linked(n + 1)
    BY <1>4 DEF ChainHead
  <2>2. ~ChainOpen(n + 2)
    <3>1. PICK j \in n + 1 .. Len(batch) : ~Linked(j)
      BY <1>2, <1>4 DEF ChainOpen
    <3>2. j \in n + 2 .. Len(batch)
      BY <1>4, <2>1, <3>1
    <3> QED BY <3>1, <3>2 DEF ChainOpen
  <2>3. n + 1 \in Nat \ {0} /\ (n + 1) + 1 = n + 2
    BY <1>4
  <2>4. ChainStart(n + 2) = ChainStart(n + 1)
    BY <2>3, ChainStartSteps
  <2>5. PICK b : b = ChainStart(n + 1)
    OBVIOUS
  <2>6. b \in 1 .. n + 1
    BY <2>3, <2>5, ChainStartIs
  <2>7. Answered(rollback', results, b - 1)
    <3>1. CASE ChainHead(n + 1)
      <4>1. b = n + 1 /\ rollback' = apply
        BY <1>2, <1>4, <2>1, <2>3, <2>5, <3>1, ChainStartSteps
      <4>2. b - 1 = n
        BY <1>4, <4>1
      <4> QED BY <1>3, <4>1, <4>2
    <3>2. CASE ~ChainHead(n + 1)
      <4>1. rollback' = rollback
        BY <1>2, <1>4, <3>2
      <4>2. Answered(rollback, results, ChainStart(n + 1) - 1)
        BY <1>1, <1>3, <1>4, <3>2 DEF InChain
      <4> QED BY <2>5, <4>1, <4>2
    <3> QED BY <3>1, <3>2
  <2>8. \A k \in 1 .. b - 1 : k \in 1..n /\ res[k] = results[k]
    BY <1>4, <1>5, <2>6
  <2>9. {j \in 1 .. b - 1 : res[j] = "Created"} = {j \in 1 .. b - 1 : results[j] = "Created"}
    BY <2>8
  <2>10. Answered(rollback', res, b - 1)
    BY <2>7, <2>8, <2>9 DEF Answered
  <2> QED BY <1>2, <1>5, <2>2, <2>4, <2>5, <2>10
<1>10. WholeIn(res)
  <2>1. ASSUME NEW i \in 1 .. Len(res) - 1, Linked(i)
        PROVE  Positive(res[i]) <=> Positive(res[i + 1])
    <3>1. i \in 1..n
      BY <1>4, <1>5
    <3>2. CASE i = n
      <4>1. ~ChainHead(n + 1)
        BY <1>4, <2>1, <3>1, <3>2 DEF ChainHead
      <4>2. Positive(results[n])
        BY <1>1, <1>3, <1>4, <4>1 DEF InChain
      <4> QED BY <1>2, <1>5, <3>1, <3>2, <4>2
    <3>3. CASE i # n
      <4>1. i \in 1 .. n - 1 /\ i + 1 \in 1..n
        BY <1>4, <3>1, <3>3
      <4> QED BY <1>1, <1>3, <1>5, <2>1, <3>1, <4>1 DEF WholeIn
    <3> QED BY <3>2, <3>3
  <2>2. ASSUME Len(res) = Len(batch), Linked(Len(batch)) PROVE FALSE
    <3>1. Len(batch) = n + 1
      BY <1>5, <2>2
    <3>2. ChainOpen(n + 1)
      BY <1>4, <2>2, <3>1 DEF ChainOpen
    <3> QED BY <1>2, <1>4, <3>2
  <2> QED BY <2>1, <2>2 DEF WholeIn
<1>11. RetriesIn(res)
  <2> SUFFICES ASSUME pc = "create_transfers", NEW i \in DOMAIN res, NEW j \in DOMAIN res,
                      i < j, batch[i] = batch[j], res[i] = "Created",
                      batch[i].flags \cap Balancing = {}
               PROVE  res[j] \in Refusals
    BY DEF RetriesIn
  <2>1. i \in 1..n /\ results[i] = "Created" /\ i \in DOMAIN results
    BY <1>4, <1>5
  <2>2. CASE j \in 1..n
    BY <1>3, <1>4, <1>5, <2>1, <2>2 DEF RetriesIn
  <2>3. CASE j = n + 1
    <3>1. Remembered(apply, batch[j])
      BY <1>3, <2>1 DEF Answered
    <3>2. Code(j) = "Exists"
      BY <3>1, RememberedIsExists
    <3> QED BY <1>1, <1>4, <1>5, <2>3, <3>2 DEF Refusals
  <2> QED BY <1>5, <1>7, <2>2, <2>3
<1> QED BY <1>1, <1>2, <1>5, <1>8, <1>9, <1>10, <1>11, RepliesInvKept

\* A chain that is refused leaves the overlay its head found.
LEMMA RefusalReplies ==
    ASSUME RepliesInv, HistoryInv', pc # "idle", Item <= Len(batch),
           UNCHANGED <<request, rollback>>,
           NEW o, NEW why, ~Positive(why),
           why = "LinkedEventChainOpen" \/ (o = Item /\ why = Code(Item)),
           apply'.transfers = ChainBase.transfers,
           apply'.accepted = ChainBase.accepted,
           results' = ChainRefused(Item, o, why)
    PROVE  RepliesInv'
<1>1. PICK n, c, e, res : /\ n = Len(results) /\ c = ChainStart(Item)
                          /\ e = ChainEnd(Item) /\ res = results'
  OBVIOUS
<1>2. /\ HistoryInv /\ Answered(apply, results, n) /\ InChain(rollback, results)
      /\ WholeIn(results) /\ RetriesIn(results)
  BY <1>1, RepliesInvParts
<1>3. /\ results \in Seq(Result) /\ n \in Nat /\ Len(batch) \in Nat /\ Item = n + 1
      /\ DOMAIN results = 1..n /\ n + 1 <= Len(batch)
  <2>1. LedgerInv
    BY <1>2 DEF HistoryInv
  <2>2. results \in Seq(Result)
    BY <2>1, LedgerInvParts
  <2> QED BY <1>1, <2>1, <2>2, ItemOK, LenProperties DEF Item
<1>4. /\ Len(res) = e /\ DOMAIN res = 1..e
      /\ e \in n + 1 .. Len(batch) /\ c \in 1 .. n + 1
      /\ \A k \in 1 .. c - 1 : res[k] = results[k]
      /\ \A k \in c..e : ~Positive(res[k]) /\ (k # o => res[k] = "LinkedEventFailed")
                                       /\ (k = o => res[k] = why)
  BY <1>1, <1>3, RefusedResults
<1>5. \A k \in 1..e : k \in 1 .. c - 1 \/ k \in c..e
  BY <1>3, <1>4
<1>6. \A k \in 1 .. c - 1 : k \in 1..n /\ k \in 1..e
  BY <1>3, <1>4
<1>7. Answered(ChainBase, results, c - 1)
  <2>1. CASE ChainHead(Item)
    <3>1. c = n + 1
      BY <1>1, <1>3, <2>1, ChainStartSteps
    <3>2. c - 1 = n
      BY <1>3, <3>1
    <3> QED BY <1>2, <2>1, <3>2 DEF ChainBase
  <2>2. CASE ~ChainHead(Item)
    BY <1>1, <1>2, <1>3, <2>2 DEF ChainBase, InChain
  <2> QED BY <2>1, <2>2
<1>8. Answered(apply', res, e)
  <2>1. {j \in 1..e : res[j] = "Created"} = {j \in 1 .. c - 1 : results[j] = "Created"}
    BY <1>4, <1>5, <1>6 DEF Positive
  <2>2. \A i \in 1..e : res[i] = "Created" => i \in 1 .. c - 1 /\ results[i] = "Created"
    BY <1>4, <1>5, <1>6 DEF Positive
  <2> QED BY <1>7, <2>1, <2>2 DEF Answered, Remembered
<1>9. InChain(rollback', res)
  <2> SUFFICES ASSUME e + 1 <= Len(batch), ~ChainHead(e + 1)
               PROVE  FALSE
    BY <1>4 DEF InChain
  <2>1. ~ChainOpen(Item)
    BY <1>1, <1>3, <1>4 DEF ChainEnd
  <2>2. Item \in 1..Len(batch)
    BY <1>3
  <2>3. ~Linked(e)
    BY <1>1, <1>3, <2>1, <2>2, ChainEndIs
  <2>4. (e + 1) - 1 = e
    BY <1>3, <1>4
  <2> QED BY <2>3, <2>4 DEF ChainHead
<1>10. WholeIn(res)
  <2>1. ASSUME NEW i \in 1 .. Len(res) - 1, Linked(i)
        PROVE  Positive(res[i]) <=> Positive(res[i + 1])
    <3>1. i \in 1..e /\ i + 1 \in 1..e
      BY <1>3, <1>4
    <3>2. CASE i \in c..e
      <4>1. i + 1 \in c..e
        BY <1>3, <1>4, <3>1, <3>2
      <4> QED BY <1>4, <3>2, <4>1
    <3>3. CASE i \in 1 .. c - 1 /\ i + 1 \in 1 .. c - 1
      <4>1. i \in 1 .. n - 1
        BY <1>3, <1>4, <3>3
      <4>2. Positive(results[i]) <=> Positive(results[i + 1])
        BY <1>1, <1>2, <2>1, <4>1 DEF WholeIn
      <4> QED BY <1>4, <3>3, <4>2
    <3>4. CASE i = c - 1
      <4>1. ChainHead(c)
        BY <1>1, <1>3, ChainStartIs
      <4>2. ~Linked(i)
        BY <1>3, <1>4, <3>4, <4>1 DEF ChainHead
      <4> QED BY <2>1, <4>2
    <3>5. i \in c..e \/ i = c - 1 \/ (i \in 1 .. c - 1 /\ i + 1 \in 1 .. c - 1)
      BY <1>3, <1>4, <3>1
    <3> QED BY <3>2, <3>3, <3>4, <3>5
  <2>2. ASSUME Len(res) = Len(batch)
        PROVE  ~Positive(res[Len(batch)])
    <3>1. Len(batch) \in c..e
      BY <1>3, <1>4, <2>2
    <3> QED BY <1>4, <3>1
  <2> QED BY <2>1, <2>2 DEF WholeIn
<1>11. RetriesIn(res)
  <2> SUFFICES ASSUME pc = "create_transfers", NEW i \in DOMAIN res, NEW j \in DOMAIN res,
                      i < j, batch[i] = batch[j], res[i] = "Created",
                      batch[i].flags \cap Balancing = {}
               PROVE  res[j] \in Refusals
    BY DEF RetriesIn
  <2>1. i \in 1 .. c - 1 /\ i \in 1..n /\ results[i] = "Created" /\ i \in DOMAIN results
    BY <1>3, <1>4, <1>5, <1>6 DEF Positive
  <2>2. CASE j \in 1 .. c - 1
    <3>1. j \in DOMAIN results
      BY <1>3, <1>6, <2>2
    <3>2. results[j] \in Refusals
      BY <1>2, <2>1, <3>1 DEF RetriesIn
    <3> QED BY <1>4, <2>2, <3>2
  <2>3. CASE j \in c..e /\ j # o
    BY <1>4, <2>3 DEF Refusals
  <2>4. CASE j \in c..e /\ j = o
    <3>1. res[j] = why
      BY <1>4, <2>4
    <3>2. ASSUME o = Item, why = Code(Item) PROVE FALSE
      <4>1. Remembered(apply, batch[j])
        BY <1>2, <2>1 DEF Answered
      <4>2. Code(j) = "Exists"
        BY <4>1, RememberedIsExists
      <4> QED BY <2>4, <3>2, <4>2 DEF Positive
    <3> QED BY <3>1, <3>2 DEF Refusals
  <2> QED BY <1>4, <1>5, <2>2, <2>3, <2>4
<1>12. UNCHANGED request
  OBVIOUS
<1> QED BY <1>1, <1>4, <1>8, <1>9, <1>10, <1>11, <1>12, RepliesInvKept

LEMMA FailReplies ==
    ASSUME RepliesInv, HistoryInv', fail_chain
    PROVE  RepliesInv'
<1>1. /\ Item <= Len(batch) /\ pc # "idle" /\ UNCHANGED <<request, rollback>>
      /\ Code(Item) \notin {"Created", "Exists", "LedgerInvariant"}
      /\ results' = ChainRefused(Item, Item, Code(Item))
      /\ apply' = [ChainBase EXCEPT !.failed_ids =
                      @ \cup {i \in {batch[Item].id} : transfer_burns_id(Code(Item))}]
  BY DEF fail_chain, Processing
<1>2. DOMAIN ChainBase = ApplyKeys
  <2>1. OverlaySound(apply) /\ OverlaySound(rollback)
    BY LedgerInvParts DEF RepliesInv, HistoryInv
  <2> QED BY <2>1, OverlayFields DEF ChainBase
<1>3. apply'.transfers = ChainBase.transfers /\ apply'.accepted = ChainBase.accepted
  BY <1>1, <1>2 DEF ApplyKeys
<1>4. ~Positive(Code(Item))
  BY <1>1 DEF Positive
<1> QED BY <1>1, <1>3, <1>4, RefusalReplies

LEMMA OpenChainReplies ==
    ASSUME RepliesInv, HistoryInv', open_chain
    PROVE  RepliesInv'
<1>1. /\ Item <= Len(batch) /\ ChainOpen(Item) /\ pc # "idle" /\ apply' = apply
      /\ UNCHANGED <<request, rollback>>
      /\ results' = ChainRefused(Item, Len(batch), "LinkedEventChainOpen")
  BY DEF open_chain, Processing
<1>2. ChainHead(Item)
  BY <1>1 DEF RepliesInv, MidChain
<1>3. apply' = ChainBase
  BY <1>1, <1>2 DEF ChainBase
<1>4. ~Positive("LinkedEventChainOpen")
  BY DEF Positive
<1> QED BY <1>1, <1>3, <1>4, RefusalReplies

LEMMA NextReplies ==
    ASSUME RepliesInv, [Next]_vars
    PROVE  RepliesInv'
<1>1. HistoryInv'
  BY NextHistory DEF RepliesInv
<1>2. CASE create_accounts
  BY <1>1, <1>2, BeginReplies DEF create_accounts
<1>3. CASE create_transfers
  BY <1>1, <1>3, BeginReplies DEF create_transfers
<1>4. CASE sweep_expired
  BY <1>1, <1>4, SweepReplies
<1>5. CASE apply_item
  BY <1>1, <1>5, ItemsReply
<1>6. CASE fail_chain
  BY <1>1, <1>6, FailReplies
<1>7. CASE open_chain
  BY <1>1, <1>7, OpenChainReplies
<1>8. CASE commit \/ abort
  <2>1. Idle
    BY <1>8 DEF commit, abort
  <2> QED BY <1>1, <2>1, IdleReplies
<1>9. CASE UNCHANGED vars
  <2>1. /\ UNCHANGED request /\ apply' = apply /\ rollback' = rollback
        /\ results' = results /\ pc' = pc
    BY <1>9 DEF vars, request
  <2>2. CASE pc = "idle"
    BY <1>1, <2>1, <2>2 DEF RepliesInv, RetriesIn
  <2>3. CASE pc # "idle"
    <3>1. /\ Answered(apply, results, Len(results)) /\ InChain(rollback, results)
          /\ WholeIn(results) /\ RetriesIn(results)
      BY <2>3, RepliesInvParts
    <3> QED BY <1>1, <2>1, <3>1, RepliesInvKept
  <2> QED BY <2>2, <2>3
<1> QED BY <1>2, <1>3, <1>4, <1>5, <1>6, <1>7, <1>8, <1>9 DEF Next

LEMMA InitReplies ==
    ASSUME Init
    PROVE  RepliesInv
<1>1. HistoryInv
  BY InitHistory
<1> QED BY <1>1 DEF Init, RepliesInv, RetriesIn

LEMMA RepliesInvHolds == Spec => []RepliesInv
<1>1. Init => RepliesInv
  BY InitReplies
<1>2. RepliesInv /\ [Next]_vars => RepliesInv'
  BY NextReplies
<1> QED BY <1>1, <1>2, PTL DEF Spec

-----------------------------------------------------------------------------
(* 11. The theorems about answers.                                         *)

\* Exactly the items answered Created are what a finished batch writes, and a
\* linked chain is answered all or nothing, for batches of any length: the
\* rollback of create_accounts and create_transfers restores the overlay the
\* head of the chain found, and never more.
THEOREM RepliesAreTheEffects == Spec => []RepliesMatchEffects
<1>1. RepliesInv => RepliesMatchEffects
  <2> SUFFICES ASSUME RepliesInv, pc # "idle", Item > Len(batch)
               PROVE  RepliesMatchEffects
    BY DEF RepliesMatchEffects
  <2>1. /\ LedgerInv /\ Answered(apply, results, Len(results)) /\ ChainsWhole
    BY DEF RepliesInv, HistoryInv
  <2>2. /\ results \in Seq(Result) /\ Len(results) <= Len(batch) /\ Len(batch) \in Nat
        /\ DOMAIN batch = 1..Len(batch)
    <3> DEFINE S == IF pc = "create_accounts" THEN AccountSpecs ELSE TransferSpecs
    <3>1. batch \in Seq(S) /\ results \in Seq(Result) /\ Len(results) <= Len(batch)
      BY <2>1, LedgerInvParts
    <3> HIDE DEF S
    <3> QED BY <3>1, LenProperties
  <2>3. Len(results) = Len(batch)
    BY <2>2, LenProperties DEF Item
  <2>4. apply.accepted = {batch[i].id : i \in {j \in DOMAIN batch : results[j] = "Created"}}
    BY <2>1, <2>2, <2>3 DEF Answered
  <2>5. ASSUME NEW i \in DOMAIN batch, Linked(i)
        PROVE  Positive(results[i]) <=> (i < Len(batch) /\ Positive(results[i + 1]))
    <3>1. CASE i < Len(batch)
      <4>1. i \in 1 .. Len(results) - 1
        BY <2>2, <2>3, <3>1
      <4> QED BY <2>1, <2>5, <3>1, <4>1 DEF ChainsWhole
    <3>2. CASE ~(i < Len(batch))
      <4>1. i = Len(batch) /\ Len(batch) > 0
        BY <2>2, <3>2
      <4> QED BY <2>1, <2>3, <2>5, <3>2, <4>1 DEF ChainsWhole
    <3> QED BY <3>1, <3>2
  <2> QED BY <2>4, <2>5 DEF RepliesMatchEffects, Positive
<1> QED BY <1>1, RepliesInvHolds, PTL

-----------------------------------------------------------------------------
(* 12. Retries of what an earlier batch created.                           *)

\* t was accepted once, under the clock of its batch, and xfers answers for it.
Accepted(xfers, t) ==
    /\ t.id \notin {0, IdMax} /\ t.id \in DOMAIN xfers
    /\ "IMPORTED" \in t.flags => t.timestamp # 0 /\ ~(t.timestamp > TimestampMax)
    /\ "IMPORTED" \notin t.flags => t.timestamp = 0
    /\ t.flags \cap Balancing = {} => transfer_exists_result(t, xfers[t.id]) = "Exists"

CreatedKept == \A t \in created : Accepted(transfers, t)

\* What a retry of t may be answered.
Answerable(code, t) ==
    \/ code \in Refusals
    \/ /\ code = "InvalidInput"
       /\ ("IMPORTED" \in t.flags) # BatchImported \/ t.timestamp > clock

FromStore(res) ==
    pc = "create_transfers" =>
        \A j \in DOMAIN res :
            batch[j] \in created /\ batch[j].flags \cap Balancing = {}
            => Answerable(res[j], batch[j])

RetryInv == RepliesInv /\ CreatedKept /\ FromStore(results)

LEMMA RememberedIsAccepted ==
    ASSUME NEW s, NEW t, Remembered(s, t)
    PROVE  Accepted(s.transfers, t)
BY DEF Remembered, Accepted, InvalidBeforeLookup

\* The answer to a transfer an earlier batch created.
LEMMA CodeOfCreated ==
    ASSUME HistoryInv, CreatedKept, pc = "create_transfers", NEW i,
           batch[i] \in created, batch[i].flags \cap Balancing = {}
    PROVE  /\ Answerable(Code(i), batch[i])
           /\ Positive(Code(i)) => Code(i) = "Exists"
<1>1. PICK t : t = batch[i]
  OBVIOUS
<1>2. Accepted(transfers, t)
  BY <1>1 DEF CreatedKept
<1>3. t.id \in DOMAIN apply.transfers /\ apply.transfers[t.id] = transfers[t.id]
  BY <1>2 DEF Accepted, HistoryInv, OverlayExact, Extends
<1>4. transfer_exists_result(t, apply.transfers[t.id]) = "Exists"
  BY <1>1, <1>2, <1>3 DEF Accepted
<1>5. Code(i) = IF InvalidBeforeLookup(t) THEN "InvalidInput" ELSE "Exists"
  BY <1>1, <1>3, <1>4 DEF Code, TransferCode
<1>6. CASE InvalidBeforeLookup(t)
  <2>1. ("IMPORTED" \in t.flags) # BatchImported \/ t.timestamp > clock
    BY <1>2, <1>6 DEF Accepted, InvalidBeforeLookup
  <2> QED BY <1>1, <1>5, <1>6, <2>1 DEF Answerable, Positive
<1>7. CASE ~InvalidBeforeLookup(t)
  BY <1>5, <1>7 DEF Answerable, Refusals
<1> QED BY <1>6, <1>7

\* A step that leaves the records and the request alone.
LEMMA FromStoreKept ==
    ASSUME RetryInv, RepliesInv', UNCHANGED <<store, request>>, FromStore(results')
    PROVE  RetryInv'
<1>1. /\ created' = created /\ transfers' = transfers /\ pc' = pc
      /\ batch' = batch /\ clock' = clock
  BY DEF store, request
<1>2. CreatedKept'
  BY <1>1 DEF RetryInv, CreatedKept, Accepted
<1>3. FromStore(results)'
  BY <1>1 DEF FromStore, Answerable, BatchImported
<1> QED BY <1>2, <1>3 DEF RetryInv

LEMMA ItemRetry ==
    ASSUME RetryInv, RepliesInv', apply_item
    PROVE  RetryInv'
<1>1. PICK n, res : n = Len(results) /\ res = results'
  OBVIOUS
<1>2. /\ Item <= Len(batch) /\ Positive(Code(Item)) /\ UNCHANGED <<store, request>>
      /\ res = Append(results, Code(Item))
  BY <1>1 DEF apply_item, Positive
<1>3. HistoryInv /\ LedgerInv /\ results \in Seq(Result)
  BY LedgerInvParts DEF RetryInv, RepliesInv, HistoryInv
<1>4. /\ n \in Nat /\ Item = n + 1 /\ DOMAIN results = 1..n
  BY <1>1, <1>3, LenProperties DEF Item
<1>5. /\ DOMAIN res = 1 .. n + 1 /\ res[n + 1] = Code(n + 1)
      /\ \A k \in 1..n : res[k] = results[k]
  BY <1>1, <1>2, <1>3, <1>4
<1>6. ASSUME pc = "create_transfers", NEW j \in DOMAIN res, batch[j] \in created,
             batch[j].flags \cap Balancing = {}
      PROVE  Answerable(res[j], batch[j])
  <2>1. CASE j \in 1..n
    BY <1>4, <1>5, <1>6, <2>1 DEF RetryInv, FromStore
  <2>2. CASE j = n + 1
    BY <1>3, <1>5, <1>6, <2>2, CodeOfCreated DEF RetryInv
  <2> QED BY <1>4, <1>5, <2>1, <2>2
<1>7. FromStore(res)
  BY <1>6 DEF FromStore
<1> QED BY <1>1, <1>2, <1>7, FromStoreKept

LEMMA RefusalRetry ==
    ASSUME RetryInv, RepliesInv', Item <= Len(batch),
           UNCHANGED <<store, request>>,
           NEW o, NEW why, ~Positive(why),
           why = "LinkedEventChainOpen" \/ (o = Item /\ why = Code(Item)),
           results' = ChainRefused(Item, o, why)
    PROVE  RetryInv'
<1>1. PICK n, c, e, res : /\ n = Len(results) /\ c = ChainStart(Item)
                          /\ e = ChainEnd(Item) /\ res = results'
  OBVIOUS
<1>2. /\ HistoryInv /\ LedgerInv /\ results \in Seq(Result)
  BY LedgerInvParts DEF RetryInv, RepliesInv, HistoryInv
<1>3. /\ n \in Nat /\ Len(batch) \in Nat /\ Item = n + 1 /\ DOMAIN results = 1..n
  BY <1>1, <1>2, ItemOK, LenProperties DEF Item
<1>4. /\ DOMAIN res = 1..e /\ e \in n + 1 .. Len(batch) /\ c \in 1 .. n + 1
      /\ \A k \in 1 .. c - 1 : res[k] = results[k]
      /\ \A k \in c..e : (k # o => res[k] = "LinkedEventFailed") /\ (k = o => res[k] = why)
  BY <1>1, <1>2, <1>3, RefusedResults
<1>5. ASSUME pc = "create_transfers", NEW j \in DOMAIN res, batch[j] \in created,
             batch[j].flags \cap Balancing = {}
      PROVE  Answerable(res[j], batch[j])
  <2>1. CASE j \in 1 .. c - 1
    <3>1. j \in DOMAIN results
      BY <1>3, <1>4, <2>1
    <3> QED BY <1>4, <1>5, <2>1, <3>1 DEF RetryInv, FromStore
  <2>2. CASE j \in c..e /\ j # o
    BY <1>4, <2>2 DEF Answerable, Refusals
  <2>3. CASE j \in c..e /\ j = o
    <3>1. res[j] = why
      BY <1>4, <2>3
    <3>2. CASE why = "LinkedEventChainOpen"
      BY <3>1, <3>2 DEF Answerable, Refusals
    <3>3. CASE o = Item /\ why = Code(Item)
      BY <1>2, <1>5, <2>3, <3>1, <3>3, CodeOfCreated DEF RetryInv
    <3> QED BY <3>2, <3>3
  <2>4. j \in 1 .. c - 1 \/ j \in c..e
    BY <1>3, <1>4
  <2> QED BY <2>1, <2>2, <2>3, <2>4
<1>6. FromStore(res)
  BY <1>5 DEF FromStore
<1> QED BY <1>1, <1>6, FromStoreKept

LEMMA CommitRetry ==
    ASSUME RetryInv, RepliesInv', commit
    PROVE  RetryInv'
<1>1. /\ transfers' = apply.transfers /\ created' = created \cup CreatedNow
      /\ pc' = "idle" /\ pc # "idle"
  BY DEF commit, Idle, Processing
<1>2. ASSUME NEW t \in created PROVE Accepted(apply.transfers, t)
  <2>1. Accepted(transfers, t)
    BY DEF RetryInv, CreatedKept
  <2>2. t.id \in DOMAIN apply.transfers /\ apply.transfers[t.id] = transfers[t.id]
    BY <2>1 DEF Accepted, RetryInv, RepliesInv, HistoryInv, OverlayExact, Extends
  <2> QED BY <2>1, <2>2 DEF Accepted
<1>3. ASSUME NEW t \in CreatedNow PROVE Accepted(apply.transfers, t)
  <2>1. PICK i \in DOMAIN results : /\ t = batch[i] /\ pc = "create_transfers"
                                    /\ results[i] = "Created"
    BY DEF CreatedNow
  <2>2. results \in Seq(Result) /\ Answered(apply, results, Len(results))
    BY <1>1, LedgerInvParts DEF RetryInv, RepliesInv, HistoryInv
  <2>3. i \in 1..Len(results)
    BY <2>2, LenProperties
  <2>4. Remembered(apply, t)
    BY <2>1, <2>2, <2>3 DEF Answered
  <2> QED BY <2>4, RememberedIsAccepted
<1>4. CreatedKept'
  BY <1>1, <1>2, <1>3 DEF CreatedKept, Accepted
<1>5. FromStore(results)'
  BY <1>1 DEF FromStore
<1> QED BY <1>4, <1>5 DEF RetryInv

LEMMA NextRetry ==
    ASSUME RetryInv, [Next]_vars
    PROVE  RetryInv'
<1>1. RepliesInv'
  BY NextReplies DEF RetryInv
<1>2. ASSUME NEW op, NEW items, NEW now, Begin(op, items, now)
      PROVE  RetryInv'
  <2>1. /\ pc = "idle" /\ results' = results /\ UNCHANGED store
    BY <1>2 DEF Begin
  <2>2. results' = <<>>
    BY <2>1, LedgerInvParts DEF RetryInv, RepliesInv, HistoryInv
  <2>3. CreatedKept'
    BY <2>1 DEF RetryInv, CreatedKept, Accepted, store
  <2>4. FromStore(results)'
    BY <2>2 DEF FromStore
  <2> QED BY <1>1, <2>3, <2>4 DEF RetryInv
<1>3. CASE create_accounts
  BY <1>2, <1>3 DEF create_accounts
<1>4. CASE create_transfers
  BY <1>2, <1>4 DEF create_transfers
<1>5. CASE sweep_expired
  <2>1. UNCHANGED <<store, request>> /\ results' = results
    BY <1>5 DEF sweep_expired
  <2> QED BY <1>1, <2>1, FromStoreKept DEF RetryInv
<1>6. CASE apply_item
  BY <1>1, <1>6, ItemRetry
<1>7. CASE fail_chain
  <2>1. /\ Item <= Len(batch) /\ UNCHANGED <<store, request>>
        /\ Code(Item) \notin {"Created", "Exists"}
        /\ results' = ChainRefused(Item, Item, Code(Item))
    BY <1>7 DEF fail_chain
  <2>2. ~Positive(Code(Item))
    BY <2>1 DEF Positive
  <2> QED BY <1>1, <2>1, <2>2, RefusalRetry
<1>8. CASE open_chain
  <2>1. /\ Item <= Len(batch) /\ UNCHANGED <<store, request>>
        /\ results' = ChainRefused(Item, Len(batch), "LinkedEventChainOpen")
    BY <1>8 DEF open_chain
  <2>2. ~Positive("LinkedEventChainOpen")
    BY DEF Positive
  <2> QED BY <1>1, <2>1, <2>2, RefusalRetry
<1>9. CASE commit
  BY <1>1, <1>9, CommitRetry
<1>10. CASE abort
  <2>1. UNCHANGED store /\ pc' = "idle"
    BY <1>10 DEF abort, Idle
  <2>2. CreatedKept'
    BY <2>1 DEF RetryInv, CreatedKept, Accepted, store
  <2>3. FromStore(results)'
    BY <2>1 DEF FromStore
  <2> QED BY <1>1, <2>2, <2>3 DEF RetryInv
<1>11. CASE UNCHANGED vars
  <2>1. UNCHANGED <<store, request>> /\ results' = results
    BY <1>11 DEF vars
  <2> QED BY <1>1, <2>1, FromStoreKept DEF RetryInv
<1> QED BY <1>3, <1>4, <1>5, <1>6, <1>7, <1>8, <1>9, <1>10, <1>11 DEF Next

LEMMA RetryInvHolds == Spec => []RetryInv
<1>1. Init => RetryInv
  <2> SUFFICES ASSUME Init PROVE RetryInv
    OBVIOUS
  <2>1. RepliesInv
    BY InitReplies
  <2>2. created = {} /\ pc = "idle"
    BY DEF Init
  <2> QED BY <2>1, <2>2 DEF RetryInv, CreatedKept, FromStore
<1>2. RetryInv /\ [Next]_vars => RetryInv'
  BY NextRetry
<1> QED BY <1>1, <1>2, PTL DEF Spec

\* A repeated transfer is answered Exists whatever it is (the zero fields and
\* the amount sentinel of a post or a void included), in the batch that
\* created it and in every later one, whatever was applied, swept or closed in
\* between, unless its own chain is refused or its batch does not admit it.
THEOREM RetriesAnswerExists == Spec => []RetryIsExists
<1>1. RetryInv => RetryIsExists
  <2> SUFFICES ASSUME RetryInv, pc = "create_transfers", NEW j \in DOMAIN results,
                      batch[j] \in created \cup {batch[i] : i \in {k \in 1 .. j - 1 :
                                                    results[k] = "Created"}},
                      batch[j].flags \cap Balancing = {}
               PROVE  Answerable(results[j], batch[j])
    BY DEF RetryIsExists, Answerable, Refusals
  <2>1. CASE batch[j] \in created
    BY <2>1 DEF RetryInv, FromStore
  <2>2. CASE batch[j] \notin created
    <3>1. PICK i \in 1 .. j - 1 : batch[j] = batch[i] /\ results[i] = "Created"
      BY <2>2
    <3>2. results \in Seq(Result)
      BY LedgerInvParts DEF RetryInv, RepliesInv, HistoryInv
    <3>3. j \in 1..Len(results) /\ Len(results) \in Nat /\ DOMAIN results = 1..Len(results)
      BY <3>2, LenProperties
    <3>4. i \in DOMAIN results /\ i < j
      BY <3>1, <3>3
    <3>5. results[j] \in Refusals
      BY <3>1, <3>4 DEF RetryInv, RepliesInv, RetriesIn
    <3> QED BY <3>5 DEF Answerable
  <2> QED BY <2>1, <2>2
<1> QED BY <1>1, RetryInvHolds, PTL

=============================================================================
