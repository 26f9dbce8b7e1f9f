------------------------------- MODULE Ledger -------------------------------
(***************************************************************************)
(* The double-entry ledger of bluedb-ledger: `create_accounts` and         *)
(* `create_transfers` (crates/bluedb-ledger/src/ledger.rs) over the        *)
(* persisted records they read and write.                                  *)
(*                                                                         *)
(* An apply holds the database's write lease from its first read to its    *)
(* atomic write, so applies never interleave; inside one, the code works   *)
(* on an overlay (ApplyState, staged, accepted, failed_ids, ts) that only  *)
(* the final WriteBatch makes visible.  The module keeps that structure:   *)
(* `apply` is the overlay, `rollback` the snapshot taken at the head of a  *)
(* linked chain, and each loop iteration of the code is one step.  Between *)
(* two steps the apply may also end without writing (an I/O error, the     *)
(* request's future dropped): action Abort.                                *)
(*                                                                         *)
(* Data abstraction.  Amounts are 0..AmountMax (u128), time is in units of *)
(* one second, flags are sets of names, `code` stands for code itself and  *)
(* user_data_* are left out.  The input-only validators return one code    *)
(* ("InvalidInput") for the checks that differ in wording alone: none of   *)
(* them burns an id or changes state.                                      *)
(***************************************************************************)
EXTENDS Integers, Sequences, FiniteSetsExt

CONSTANTS
    AccountSpecs,   \* accounts a caller may submit
    TransferSpecs,  \* transfers a caller may submit
    MaxBatch,       \* bound: the longest batch submitted
    ClockValues,    \* what an apply may read from the wall clock
    IdMax,          \* u128::MAX as an id
    AmountMax,      \* AMOUNT_MAX: u128::MAX, also "post in full"
    TimestampMax    \* TIMESTAMP_MAX: 2^63 - 1

AccountFlag ==
    {"LINKED", "DEBITS_MUST_NOT_EXCEED_CREDITS",
     "CREDITS_MUST_NOT_EXCEED_DEBITS", "IMPORTED", "CLOSED"}

TransferFlag ==
    {"LINKED", "PENDING", "POST_PENDING_TRANSFER", "VOID_PENDING_TRANSFER",
     "BALANCING_DEBIT", "BALANCING_CREDIT", "CLOSING_DEBIT",
     "CLOSING_CREDIT", "IMPORTED"}

Amount == 0..AmountMax

Account ==
    [id : Nat, ledger : Nat, code : Nat, flags : SUBSET AccountFlag,
     timestamp : Nat, debits_pending : Amount, debits_posted : Amount,
     credits_pending : Amount, credits_posted : Amount]

Transfer ==
    [id : Nat, debit_account_id : Nat, credit_account_id : Nat,
     amount : Amount, pending_id : Nat, timeout : Nat, ledger : Nat,
     code : Nat, flags : SUBSET TransferFlag, timestamp : Nat]

PendingStatus == {"Posted", "Voided", "Expired"}

\* CreateAccountResult and CreateTransferResult; "LedgerInvariant" is the Err
\* that fails a whole apply, never an item's result.
Result ==
    {"Created", "Exists", "ExistsWithDifferentFields", "InvalidInput",
     "IdAlreadyFailed", "LinkedEventFailed", "LinkedEventChainOpen",
     "ImportedEventTimestampMustNotRegress", "ImportedEventRefused",
     "DebitAccountNotFound", "CreditAccountNotFound", "LedgerMismatch",
     "DebitAccountAlreadyClosed", "CreditAccountAlreadyClosed", "Overflows",
     "OverflowsTimeout", "ExceedsCredits", "ExceedsDebits",
     "PendingTransferNotFound", "PendingTransferDiffers",
     "PendingTransferHasDifferentAmount", "PendingTransferAlreadyResolved",
     "PendingTransferExpired"}

ASSUME LedgerAssumption ==
    /\ AmountMax \in Nat
    /\ TimestampMax \in Nat
    /\ IdMax \in Nat
    /\ MaxBatch \in Nat
    /\ ClockValues \subseteq Nat
    /\ AccountSpecs \subseteq Account
    /\ TransferSpecs \subseteq Transfer

VARIABLES
    accounts,       \* account records, by id
    transfers,      \* transfer records, by id
    pending_state,  \* PendingStatus of the resolved pendings, by pending id
    expiry,         \* expiry index: [expires, id] keys
    failed,         \* burned transfer ids (failed index)
    watermark,      \* last assigned timestamp
    created,        \* history: the transfers a commit answered Created, as
                    \* they were submitted
    pc,             \* "idle", or the operation that holds the write lease
    batch,          \* its input
    clock,          \* `now`, read once per apply
    apply,          \* its overlay over the records
    rollback,       \* the overlay at the head of the current chain
    results         \* the per-item codes so far

store == <<accounts, transfers, pending_state, expiry, failed, watermark, created>>
request == <<pc, batch, clock>>
vars == <<store, request, apply, rollback, results>>

-----------------------------------------------------------------------------
(* The overlay and its lookups.                                            *)

\* f with key k bound to v.
Put(f, k, v) == [x \in DOMAIN f \cup {k} |-> IF x = k THEN v ELSE f[x]]

\* Mutant: the timestamp source starts from nothing instead of the watermark.
FreshApplyUnseeded ==
    [accounts |-> accounts, transfers |-> transfers,
     resolved |-> pending_state, expiry_removals |-> {}, failed_ids |-> {},
     accepted |-> {}, ts |-> 0]

\* ApplyState::default() over the committed records, plus staged, accepted,
\* failed_ids and a TimestampSource seeded from the persisted watermark.
FreshApply ==
    [accounts |-> accounts, transfers |-> transfers,
     resolved |-> pending_state, expiry_removals |-> {}, failed_ids |-> {},
     accepted |-> {}, ts |-> watermark]

BatchImported == Len(batch) > 0 /\ "IMPORTED" \in batch[1].flags

\* Mutant: max(now, last) instead of max(now, last + 1).
PeekNotAfterLast(s) == IF clock > s.ts THEN clock ELSE s.ts

\* TimestampSource::peek
Peek(s) == IF clock > s.ts THEN clock ELSE s.ts + 1

expiry_of(t) == t.timestamp + t.timeout

ExpiryKey(t) == [expires |-> expiry_of(t), id |-> t.id]

Timed(t) == "PENDING" \in t.flags /\ t.timeout # 0

-----------------------------------------------------------------------------
(* Input validation and the existence comparison (model.rs).               *)

\* validate_{account,transfer}_pre_existence: both run the same checks.
InvalidBeforeLookup(x) ==
    \/ ("IMPORTED" \in x.flags) # BatchImported
    \/ IF "IMPORTED" \in x.flags
       THEN x.timestamp = 0 \/ x.timestamp > TimestampMax \/ x.timestamp > clock
       ELSE x.timestamp # 0
    \/ x.id \in {0, IdMax}

InvalidAccount(a) ==
    \/ {"DEBITS_MUST_NOT_EXCEED_CREDITS",
        "CREDITS_MUST_NOT_EXCEED_DEBITS"} \subseteq a.flags
    \/ a.debits_pending # 0 \/ a.debits_posted # 0
    \/ a.credits_pending # 0 \/ a.credits_posted # 0
    \/ a.ledger = 0 \/ a.code = 0

Phases == {"PENDING", "POST_PENDING_TRANSFER", "VOID_PENDING_TRANSFER"}
Closing == {"CLOSING_DEBIT", "CLOSING_CREDIT"}
Balancing == {"BALANCING_DEBIT", "BALANCING_CREDIT"}

classify(t) ==
    IF "POST_PENDING_TRANSFER" \in t.flags THEN "Post"
    ELSE IF "VOID_PENDING_TRANSFER" \in t.flags THEN "Void"
    ELSE IF "PENDING" \in t.flags THEN "PendingReserve" ELSE "Regular"

IsResolution(t) == classify(t) \in {"Post", "Void"}

InvalidTransfer(t) ==
    \/ \E p, q \in Phases \cap t.flags : p # q
    \/ IsResolution(t) /\ t.flags \cap (Balancing \cup Closing) # {}
    \/ /\ ~IsResolution(t)
       /\ \/ t.debit_account_id \in {0, IdMax}
          \/ t.credit_account_id \in {0, IdMax}
          \/ t.debit_account_id = t.credit_account_id
          \/ t.pending_id # 0 \/ t.ledger = 0 \/ t.code = 0
    \/ IsResolution(t) /\ t.pending_id \in {0, IdMax, t.id}
    \/ "PENDING" \notin t.flags /\ (t.timeout # 0 \/ t.flags \cap Closing # {})

account_exists_result(new, old) ==
    IF new.flags = old.flags /\ new.ledger = old.ledger /\ new.code = old.code
    THEN "Exists" ELSE "ExistsWithDifferentFields"

\* Mutant: the amount sentinel of a resolution is compared literally.
transfer_exists_no_wildcard(new, old) ==
    IF /\ new.flags = old.flags /\ new.pending_id = old.pending_id
       /\ new.timeout = old.timeout /\ new.amount = old.amount
    THEN "Exists" ELSE "ExistsWithDifferentFields"

\* A resolution's zero fields, and its amount sentinel, were wildcards when it
\* was applied, so they match whatever was materialized.
transfer_exists_result(new, old) ==
    LET wild(v, zero) == IsResolution(new) /\ v = zero
        all == IF classify(new) = "Post" THEN AmountMax ELSE 0
    IN  IF /\ new.flags = old.flags
           /\ new.pending_id = old.pending_id
           /\ new.timeout = old.timeout
           /\ \A f \in {"debit_account_id", "credit_account_id", "ledger", "code"} :
                 wild(new[f], 0) \/ new[f] = old[f]
           /\ wild(new.amount, all) \/ new.amount = old.amount
        THEN "Exists" ELSE "ExistsWithDifferentFields"

\* transfer_burns_id: only errors that depend on the state at the time burn.
Transient ==
    {"DebitAccountNotFound", "CreditAccountNotFound", "PendingTransferNotFound",
     "ExceedsCredits", "ExceedsDebits", "DebitAccountAlreadyClosed",
     "CreditAccountAlreadyClosed"}

transfer_burns_id(code) == code \in Transient

-----------------------------------------------------------------------------
(* create_accounts: one item.                                              *)

AccountCode(s, a) ==
    IF InvalidBeforeLookup(a) THEN "InvalidInput"
    ELSE IF a.id \in DOMAIN s.accounts
         THEN account_exists_result(a, s.accounts[a.id])
    ELSE IF InvalidAccount(a) THEN "InvalidInput"
    ELSE IF BatchImported /\ a.timestamp <= s.ts
         THEN "ImportedEventTimestampMustNotRegress"
    ELSE "Created"

stage_account(s, a) ==
    LET ts == IF BatchImported THEN a.timestamp ELSE Peek(s)
    IN  [s EXCEPT !.accounts = Put(@, a.id, [a EXCEPT !.timestamp = ts]),
                  !.accepted = @ \cup {a.id},
                  !.ts = ts]

-----------------------------------------------------------------------------
(* create_transfers: one item.                                             *)

\* imported_transfer_checks (54-57)
ImportedRefused(s, t, debit, credit) ==
    /\ BatchImported
    /\ \/ t.timestamp <= s.ts
       \/ t.timestamp <= debit.timestamp
       \/ t.timestamp <= credit.timestamp
       \/ t.timeout # 0

\* 39-42, 54-59: the two accounts accept a movement.
AccountsCode(s, t) ==
    IF t.debit_account_id \notin DOMAIN s.accounts THEN "DebitAccountNotFound"
    ELSE IF t.credit_account_id \notin DOMAIN s.accounts THEN "CreditAccountNotFound"
    ELSE LET debit == s.accounts[t.debit_account_id]
             credit == s.accounts[t.credit_account_id]
         IN  IF debit.ledger # credit.ledger \/ t.ledger # debit.ledger
             THEN "LedgerMismatch"
             ELSE IF ImportedRefused(s, t, debit, credit) THEN "ImportedEventRefused"
             ELSE IF "CLOSED" \in debit.flags THEN "DebitAccountAlreadyClosed"
             ELSE IF "CLOSED" \in credit.flags THEN "CreditAccountAlreadyClosed"
             ELSE "Created"

Headroom(limit, used) == IF limit > used THEN limit - used ELSE 0

Lesser(a, b) == IF a < b THEN a ELSE b

balancing_amount(t, debit, credit) ==
    LET onDebit == Headroom(debit.credits_posted,
                            debit.debits_posted + debit.debits_pending)
        onCredit == Headroom(credit.debits_posted,
                             credit.credits_posted + credit.credits_pending)
        first == IF "BALANCING_DEBIT" \in t.flags
                 THEN Lesser(t.amount, onDebit) ELSE t.amount
    IN  IF "BALANCING_CREDIT" \in t.flags THEN Lesser(first, onCredit) ELSE first

\* Mutant: only the pending buckets are checked.
OverflowsPendingOnly(debit, credit) ==
    debit.debits_pending > AmountMax \/ credit.credits_pending > AmountMax

\* 60-65: a bucket that overflows makes its total overflow too.
Overflows(debit, credit) ==
    \/ debit.debits_posted + debit.debits_pending > AmountMax
    \/ credit.credits_posted + credit.credits_pending > AmountMax

\* 67 / 68: the constrained side counts posted + pending, the limit side
\* posted only.
ExceedsCredits(a) ==
    /\ "DEBITS_MUST_NOT_EXCEED_CREDITS" \in a.flags
    /\ a.debits_posted + a.debits_pending > a.credits_posted

ExceedsDebits(a) ==
    /\ "CREDITS_MUST_NOT_EXCEED_DEBITS" \in a.flags
    /\ a.credits_posted + a.credits_pending > a.debits_posted

\* Mutant: reservations do not count against the limit.
BalanceCodePostedOnly(debit, credit) ==
    IF /\ "DEBITS_MUST_NOT_EXCEED_CREDITS" \in debit.flags
       /\ debit.debits_posted > debit.credits_posted
    THEN "ExceedsCredits"
    ELSE IF ExceedsDebits(credit) THEN "ExceedsDebits" ELSE "Created"

BalanceCode(debit, credit) ==
    IF ExceedsCredits(debit) THEN "ExceedsCredits"
    ELSE IF ExceedsDebits(credit) THEN "ExceedsDebits" ELSE "Created"

Effective(s, t) ==
    balancing_amount(t, s.accounts[t.debit_account_id],
                     s.accounts[t.credit_account_id])

\* s with both sides of a movement written back to the working set.
WithSides(s, debit, credit) ==
    [s EXCEPT !.accounts = Put(Put(@, debit.id, debit), credit.id, credit)]

RegularDebit(s, t) ==
    [s.accounts[t.debit_account_id] EXCEPT !.debits_posted = @ + Effective(s, t)]

RegularCredit(s, t) ==
    [s.accounts[t.credit_account_id] EXCEPT !.credits_posted = @ + Effective(s, t)]

RegularCode(s, t) ==
    IF AccountsCode(s, t) # "Created" THEN AccountsCode(s, t)
    ELSE IF Overflows(RegularDebit(s, t), RegularCredit(s, t)) THEN "Overflows"
    ELSE BalanceCode(RegularDebit(s, t), RegularCredit(s, t))

stage_regular(s, t) == WithSides(s, RegularDebit(s, t), RegularCredit(s, t))

\* A reserve moves the amount into the pending buckets and, with CLOSING_*,
\* closes the named account.
PendingDebit(s, t) ==
    [s.accounts[t.debit_account_id] EXCEPT
        !.debits_pending = @ + Effective(s, t),
        !.flags = IF "CLOSING_DEBIT" \in t.flags THEN @ \cup {"CLOSED"} ELSE @]

PendingCredit(s, t) ==
    [s.accounts[t.credit_account_id] EXCEPT
        !.credits_pending = @ + Effective(s, t),
        !.flags = IF "CLOSING_CREDIT" \in t.flags THEN @ \cup {"CLOSED"} ELSE @]

PendingCode(s, t) ==
    IF AccountsCode(s, t) # "Created" THEN AccountsCode(s, t)
    ELSE IF Overflows(PendingDebit(s, t), PendingCredit(s, t)) THEN "Overflows"
    ELSE IF /\ t.timeout # 0
            /\ (IF BatchImported THEN t.timestamp ELSE Peek(s)) + t.timeout > TimestampMax
         THEN "OverflowsTimeout"
    ELSE BalanceCode(PendingDebit(s, t), PendingCredit(s, t))

stage_pending(s, t) == WithSides(s, PendingDebit(s, t), PendingCredit(s, t))

\* The amount a resolution settles: the pending's, or a partial post's.
Settled(t, p) ==
    IF classify(t) = "Post" /\ t.amount # AmountMax THEN t.amount ELSE p.amount

\* Mutant: a partial post releases only what it posts.
ReleaseDebitPartial(s, p, posted, reopen) ==
    [s.accounts[p.debit_account_id] EXCEPT
        !.debits_pending = @ - (IF posted > 0 THEN posted ELSE p.amount),
        !.debits_posted = @ + posted,
        !.flags = IF reopen /\ "CLOSING_DEBIT" \in p.flags THEN @ \ {"CLOSED"} ELSE @]

\* Mutant: a post reopens the account too.
ReleaseDebitReopens(s, p, posted, reopen) ==
    [s.accounts[p.debit_account_id] EXCEPT
        !.debits_pending = @ - p.amount,
        !.debits_posted = @ + posted,
        !.flags = IF "CLOSING_DEBIT" \in p.flags THEN @ \ {"CLOSED"} ELSE @]

\* Releasing p's reservation; `posted` goes to the posted buckets and `reopen`
\* undoes p's closing.
ReleaseDebit(s, p, posted, reopen) ==
    [s.accounts[p.debit_account_id] EXCEPT
        !.debits_pending = @ - p.amount,
        !.debits_posted = @ + posted,
        !.flags = IF reopen /\ "CLOSING_DEBIT" \in p.flags THEN @ \ {"CLOSED"} ELSE @]

ReleaseCredit(s, p, posted, reopen) ==
    [s.accounts[p.credit_account_id] EXCEPT
        !.credits_pending = @ - p.amount,
        !.credits_posted = @ + posted,
        !.flags = IF reopen /\ "CLOSING_CREDIT" \in p.flags THEN @ \ {"CLOSED"} ELSE @]

\* checked_sub: otherwise the whole apply fails with "ledger invariant".
ReservationHeld(s, p) ==
    /\ p.debit_account_id \in DOMAIN s.accounts
    /\ p.credit_account_id \in DOMAIN s.accounts
    /\ s.accounts[p.debit_account_id].debits_pending >= p.amount
    /\ s.accounts[p.credit_account_id].credits_pending >= p.amount

MatchesPending(t, p) ==
    /\ "PENDING" \in p.flags
    /\ \A f \in {"debit_account_id", "credit_account_id", "ledger", "code"} :
          t[f] # 0 => t[f] = p[f]

ResolutionCode(s, t) ==
    IF t.pending_id \notin DOMAIN s.transfers THEN "PendingTransferNotFound"
    ELSE LET p == s.transfers[t.pending_id]
             post == classify(t) = "Post"
         IN  IF ~MatchesPending(t, p) THEN "PendingTransferDiffers"
             ELSE IF IF post THEN t.amount # AmountMax /\ t.amount > p.amount
                             ELSE t.amount # 0 /\ t.amount # p.amount
                  THEN "PendingTransferHasDifferentAmount"
             ELSE IF p.id \in DOMAIN s.resolved THEN "PendingTransferAlreadyResolved"
             ELSE IF p.timeout # 0 /\ expiry_of(p) <= clock THEN "PendingTransferExpired"
             ELSE IF ImportedRefused(s, t, s.accounts[p.debit_account_id],
                                     s.accounts[p.credit_account_id])
                  THEN "ImportedEventRefused"
             ELSE IF ~ReservationHeld(s, p) THEN "LedgerInvariant"
             ELSE IF /\ post
                     /\ \/ ReleaseDebit(s, p, Settled(t, p), FALSE).debits_posted > AmountMax
                        \/ ReleaseCredit(s, p, Settled(t, p), FALSE).credits_posted > AmountMax
                  THEN "Overflows"
             ELSE "Created"

\* Mutant: a timed pending resolved in time keeps its index entry.
NoIndexEntry(p) == {}

\* The expiry-index entry a resolution drops.
IndexEntry(p) == {k \in {ExpiryKey(p)} : p.timeout # 0}

\* Mutant: the settlement is not recorded.
NotRecorded(s, p, post) == s.resolved

RecordSettled(s, p, post) ==
    Put(s.resolved, p.id, IF post THEN "Posted" ELSE "Voided")

stage_resolution(s, t) ==
    LET p == s.transfers[t.pending_id]
        post == classify(t) = "Post"
        posted == IF post THEN Settled(t, p) ELSE 0
        released == WithSides(s, ReleaseDebit(s, p, posted, ~post),
                                 ReleaseCredit(s, p, posted, ~post))
    IN  [released EXCEPT
            !.resolved = RecordSettled(s, p, post),
            !.expiry_removals = @ \cup IndexEntry(p)]

\* The record a resolution stores: the fields it inherits filled in.
Materialized(t, p) ==
    [t EXCEPT !.debit_account_id = p.debit_account_id,
              !.credit_account_id = p.credit_account_id,
              !.amount = Settled(t, p),
              !.ledger = p.ledger,
              !.code = IF @ # 0 THEN @ ELSE p.code]

\* Mutant: burned ids of earlier applies are not looked up.
BurnedThisBatch(s) == s.failed_ids

\* 24: ids that failed in this batch or before.
Burned(s) == s.failed_ids \cup failed

\* process_transfer: validate, classify, stage, assign a timestamp.
TransferCode(s, t) ==
    IF InvalidBeforeLookup(t) THEN "InvalidInput"
    ELSE IF t.id \in DOMAIN s.transfers
         THEN transfer_exists_result(t, s.transfers[t.id])
    ELSE IF t.id \in Burned(s) THEN "IdAlreadyFailed"
    ELSE IF InvalidTransfer(t) THEN "InvalidInput"
    ELSE IF IsResolution(t) THEN ResolutionCode(s, t)
    ELSE IF classify(t) = "PendingReserve" THEN PendingCode(s, t)
    ELSE RegularCode(s, t)

process_transfer(s, t) ==
    LET staged == IF IsResolution(t) THEN stage_resolution(s, t)
                  ELSE IF classify(t) = "PendingReserve" THEN stage_pending(s, t)
                  ELSE stage_regular(s, t)
        record == IF IsResolution(t) THEN Materialized(t, s.transfers[t.pending_id])
                  ELSE [t EXCEPT !.amount = Effective(s, t)]
        ts == IF BatchImported THEN t.timestamp ELSE Peek(s)
    IN  [staged EXCEPT
            !.transfers = Put(@, t.id, [record EXCEPT !.timestamp = ts]),
            !.accepted = @ \cup {t.id},
            !.ts = ts]

-----------------------------------------------------------------------------
(* Linked chains: a maximal run of LINKED items and its terminator.        *)

\* The item the apply works on next.
Item == Len(results) + 1

Linked(i) == "LINKED" \in batch[i].flags

ChainHead(i) == i = 1 \/ ~Linked(i - 1)

ChainStart(i) ==
    CHOOSE k \in 1..i : ChainHead(k) /\ \A j \in k + 1 .. i : ~ChainHead(j)

\* The terminator of i's chain; a chain with none is open.
ChainOpen(i) == \A j \in i..Len(batch) : Linked(j)

ChainEnd(i) ==
    IF ChainOpen(i) THEN Len(batch)
    ELSE CHOOSE j \in i..Len(batch) : ~Linked(j) /\ \A k \in i .. j - 1 : Linked(k)

\* The results once the chain of item i is refused: `why` at the offender,
\* LinkedEventFailed at its other members.
ChainRefused(i, offender, why) ==
    [k \in 1..ChainEnd(i) |->
        IF k < ChainStart(i) THEN results[k]
        ELSE IF k = offender THEN why ELSE "LinkedEventFailed"]

-----------------------------------------------------------------------------
(* The steps of an apply.                                                  *)

Idle ==
    /\ pc' = "idle" /\ batch' = <<>> /\ clock' = 0 /\ results' = <<>>
    /\ apply' = FreshApply' /\ rollback' = FreshApply'

Batches(specs) == UNION {[1..n -> specs] : n \in 0..MaxBatch}

\* An operation takes the write lease and reads the clock and the watermark.
Begin(op, items, now) ==
    /\ pc = "idle"
    /\ pc' = op /\ batch' = items /\ clock' = now
    /\ UNCHANGED <<store, apply, rollback, results>>

create_accounts ==
    \E items \in Batches(AccountSpecs), now \in ClockValues :
        Begin("create_accounts", items, now)

create_transfers ==
    \E items \in Batches(TransferSpecs), now \in ClockValues :
        Begin("create_transfers", items, now)

\* The expiry-index entries scan_expired returned and the sweep has not handled.
Due ==
    {k \in expiry : pc = "create_transfers" /\ k.expires <= clock
                    /\ k \notin apply.expiry_removals}

\* create_transfers sweeps before it looks at its first item.
Processing == pc # "idle" /\ Due = {}

\* sweep_expired, one index entry: release and record Expired, or just drop an
\* entry whose pending is resolved or gone.
sweep_expired ==
    /\ pc = "create_transfers"
    /\ \E k \in Due :
        /\ \A j \in Due : k.expires <= j.expires
        /\ LET p == transfers[k.id]
               stale == k.id \in DOMAIN apply.resolved \/ k.id \notin DOMAIN transfers
           IN  /\ stale \/ ReservationHeld(apply, p)
               /\ apply' =
                    [(IF stale THEN apply
                      ELSE [WithSides(apply, ReleaseDebit(apply, p, 0, TRUE),
                                             ReleaseCredit(apply, p, 0, TRUE))
                            EXCEPT !.resolved = Put(@, k.id, "Expired")])
                     EXCEPT !.expiry_removals = @ \cup {k}]
    /\ UNCHANGED <<store, request, rollback, results>>

Code(i) ==
    IF pc = "create_accounts" THEN AccountCode(apply, batch[i])
    ELSE TransferCode(apply, batch[i])

\* An item that is created, or already exists, and its chain goes on.
apply_item ==
    /\ Processing /\ Item <= Len(batch) /\ ~ChainOpen(Item)
    /\ Code(Item) \in {"Created", "Exists"}
    /\ apply' = IF Code(Item) = "Exists" THEN apply
                ELSE IF pc = "create_accounts" THEN stage_account(apply, batch[Item])
                ELSE process_transfer(apply, batch[Item])
    /\ rollback' = IF ChainHead(Item) /\ Linked(Item) THEN apply ELSE rollback
    /\ results' = Append(results, Code(Item))
    /\ UNCHANGED <<store, request>>

\* Mutant: a failed chain keeps what its earlier members staged.
KeepStaged == apply

\* What a failed chain is rolled back to.
ChainBase == IF ChainHead(Item) THEN apply ELSE rollback

\* An item that fails takes its whole chain with it; a transient failure of a
\* transfer burns its id.
fail_chain ==
    /\ Processing /\ Item <= Len(batch) /\ ~ChainOpen(Item)
    /\ Code(Item) \notin {"Created", "Exists", "LedgerInvariant"}
    /\ apply' = [ChainBase EXCEPT !.failed_ids =
                    @ \cup {i \in {batch[Item].id} : transfer_burns_id(Code(Item))}]
    /\ results' = ChainRefused(Item, Item, Code(Item))
    /\ UNCHANGED <<store, request, rollback>>

\* A chain the batch does not terminate is refused unprocessed.
open_chain ==
    /\ Processing /\ Item <= Len(batch) /\ ChainOpen(Item)
    /\ results' = ChainRefused(Item, Len(batch), "LinkedEventChainOpen")
    /\ UNCHANGED <<store, request, apply, rollback>>

\* The transfers of the batch answered Created so far, as submitted.
CreatedNow ==
    {batch[i] : i \in {j \in DOMAIN results :
                         pc = "create_transfers" /\ results[j] = "Created"}}

\* The one atomic WriteBatch; then the lease is dropped.  Expiry deletes follow
\* the puts, and the watermark moves only if something was accepted.
commit ==
    /\ Processing /\ Item > Len(batch)
    /\ accounts' = apply.accounts
    /\ transfers' = apply.transfers
    /\ pending_state' = apply.resolved
    /\ expiry' = (expiry \cup {ExpiryKey(apply.transfers[i]) :
                    i \in {j \in apply.accepted \cap DOMAIN apply.transfers :
                             /\ pc = "create_transfers"
                             /\ Timed(apply.transfers[j])}})
                 \ apply.expiry_removals
    /\ failed' = failed \cup apply.failed_ids
    /\ watermark' = IF apply.accepted = {} THEN watermark ELSE apply.ts
    /\ created' = created \cup CreatedNow
    /\ Idle

\* An I/O error, or the request dropped: the overlay is lost, nothing written.
abort ==
    /\ pc # "idle"
    /\ UNCHANGED store
    /\ Idle

Init ==
    /\ accounts = <<>> /\ transfers = <<>> /\ pending_state = <<>>
    /\ expiry = {} /\ failed = {} /\ watermark = 0 /\ created = {}
    /\ pc = "idle" /\ batch = <<>> /\ clock = 0 /\ results = <<>>
    /\ apply = FreshApply /\ rollback = FreshApply

Next ==
    \/ create_accounts \/ create_transfers
    \/ sweep_expired \/ apply_item \/ fail_chain \/ open_chain
    \/ commit \/ abort

Spec == Init /\ [][Next]_vars

-----------------------------------------------------------------------------
(* Properties.                                                             *)

IsMap(f, K, V) ==
    /\ f = [x \in DOMAIN f |-> f[x]]
    /\ DOMAIN f \subseteq K
    /\ \A x \in DOMAIN f : f[x] \in V

RecordsOK(accts, xfers, states) ==
    /\ IsMap(accts, Nat, Account) /\ \A i \in DOMAIN accts : accts[i].id = i
    /\ IsMap(xfers, Nat, Transfer) /\ \A i \in DOMAIN xfers : xfers[i].id = i
    /\ IsMap(states, Nat, PendingStatus)

ApplyKeys ==
    {"accounts", "transfers", "resolved", "expiry_removals", "failed_ids",
     "accepted", "ts"}

OverlayOK(s) ==
    /\ DOMAIN s = ApplyKeys
    /\ RecordsOK(s.accounts, s.transfers, s.resolved)
    /\ s.expiry_removals \subseteq [expires : Nat, id : Nat]
    /\ s.failed_ids \subseteq Nat /\ s.accepted \subseteq Nat /\ s.ts \in Nat

\* Every record is well formed and stored under its own id, balances stay in
\* the amount's width (no overflow, no negative bucket), in the store and in
\* the overlays.
TypeOK ==
    /\ RecordsOK(accounts, transfers, pending_state)
    /\ expiry \subseteq [expires : Nat, id : Nat]
    /\ failed \subseteq Nat /\ watermark \in Nat
    /\ created \subseteq TransferSpecs
    /\ pc \in {"idle", "create_accounts", "create_transfers"}
    /\ batch \in Seq(IF pc = "create_accounts" THEN AccountSpecs ELSE TransferSpecs)
    /\ results \in Seq(Result) /\ Len(results) <= Len(batch)
    /\ clock \in Nat
    /\ OverlayOK(apply) /\ OverlayOK(rollback)

\* A constrained account's outflow, reserved and posted, never exceeds what
\* the other side has posted.  stage_resolution posts without re-checking
\* 67 / 68, on the argument that a release cannot breach what held at reserve
\* time.
BalanceConstraints ==
    \A i \in DOMAIN accounts :
        ~ExceedsCredits(accounts[i]) /\ ~ExceedsDebits(accounts[i])

\* posted + pending stays representable on both sides, which is what makes the
\* unchecked additions of the balance checks panic-free.
TotalsFit ==
    \A i \in DOMAIN accounts :
        /\ accounts[i].debits_posted + accounts[i].debits_pending <= AmountMax
        /\ accounts[i].credits_posted + accounts[i].credits_pending <= AmountMax

Outstanding == {i \in DOMAIN transfers :
                    "PENDING" \in transfers[i].flags /\ i \notin DOMAIN pending_state}

Posting == {i \in DOMAIN transfers :
                classify(transfers[i]) \in {"Regular", "Post"}}

SumOf(ids) == MapThenSumSet(LAMBDA i : transfers[i].amount, ids)

\* Double entry: each bucket of each account is exactly the sum of the
\* recorded transfers that should be in it, so money is neither made nor lost
\* by partial posts, voids, expiry, balancing or rolled-back chains.
BalancesReplayTransfers ==
    \A a \in DOMAIN accounts :
        LET debited(ids) == SumOf({i \in ids : transfers[i].debit_account_id = a})
            credited(ids) == SumOf({i \in ids : transfers[i].credit_account_id = a})
        IN  /\ accounts[a].debits_posted = debited(Posting)
            /\ accounts[a].credits_posted = credited(Posting)
            /\ accounts[a].debits_pending = debited(Outstanding)
            /\ accounts[a].credits_pending = credited(Outstanding)

\* The expiry index holds exactly the timed pendings still outstanding: none
\* is missed by the sweep, none is released twice.
ExpiryIndexExact ==
    expiry = {ExpiryKey(transfers[i]) : i \in {j \in Outstanding : Timed(transfers[j])}}

\* A burned id never names a transfer, so a retry of a failed transfer cannot
\* succeed later, and a created transfer never answers id_already_failed.
BurnedNeverCreated == failed \cap DOMAIN transfers = {}

Resolving(i, op) == {j \in DOMAIN transfers :
                        transfers[j].pending_id = i /\ classify(transfers[j]) = op}

\* A pending is settled at most once, by the one post or void its state
\* names; an outstanding or expired pending has neither.
SettledOnce ==
    \A i \in DOMAIN transfers : "PENDING" \in transfers[i].flags =>
        LET state == IF i \in DOMAIN pending_state THEN pending_state[i] ELSE "Outstanding"
        IN  /\ Cardinality(Resolving(i, "Post")) = (IF state = "Posted" THEN 1 ELSE 0)
            /\ Cardinality(Resolving(i, "Void")) = (IF state = "Voided" THEN 1 ELSE 0)

\* t, while it is not voided or expired, keeps account a closed.
ClosesAccount(t, a) ==
    \/ t.debit_account_id = a /\ "CLOSING_DEBIT" \in t.flags
    \/ t.credit_account_id = a /\ "CLOSING_CREDIT" \in t.flags

\* A closing pending that is outstanding or posted keeps its account closed,
\* and nothing else closes an account that was not submitted closed: voiding or
\* expiring one pending never reopens what another one closed, and an account
\* created closed stays so.
ClosedByClosingPending ==
    \A a \in DOMAIN accounts :
        LET closed == "CLOSED" \in accounts[a].flags
            held == \E i \in DOMAIN transfers :
                       /\ ClosesAccount(transfers[i], a)
                       /\ i \in DOMAIN pending_state => pending_state[i] = "Posted"
            specs == {spec \in AccountSpecs : spec.id = a}
        IN  /\ held => closed
            /\ closed => held \/ \E spec \in specs : "CLOSED" \in spec.flags
            /\ (\A spec \in specs : "CLOSED" \in spec.flags) => closed /\ ~held

\* No two accounts and no two transfers share a timestamp and none is ahead
\* of the watermark, whatever the clock of each apply said.
TimestampsUnique ==
    /\ \A i \in DOMAIN transfers : transfers[i].timestamp \in 1..watermark
    /\ \A a \in DOMAIN accounts : accounts[a].timestamp \in 1..watermark
    /\ \A i, j \in DOMAIN transfers :
          transfers[i].timestamp = transfers[j].timestamp => i = j
    /\ \A a, b \in DOMAIN accounts :
          accounts[a].timestamp = accounts[b].timestamp => a = b
    /\ \A i \in DOMAIN transfers, a \in DOMAIN accounts :
          transfers[i].timestamp # accounts[a].timestamp

\* What the caller is told is what the batch writes: exactly the items
\* answered Created are staged, and a linked chain is answered all or nothing.
RepliesMatchEffects ==
    pc # "idle" /\ Item > Len(batch) =>
        /\ apply.accepted = {batch[i].id : i \in {j \in DOMAIN batch : results[j] = "Created"}}
        /\ \A i \in DOMAIN batch : Linked(i) =>
              (results[i] \in {"Created", "Exists"})
                = (i < Len(batch) /\ results[i + 1] \in {"Created", "Exists"})

\* A client that repeats a transfer it may already have sent, in the same
\* batch or in any later one, is told Exists and nothing else: whatever
\* happened to the accounts, to the pending or to the id since, and wildcards
\* of a resolution included.  Three answers come first: its chain is refused
\* for another member or left open, the batch is imported and the transfer is
\* not (or the other way round), and a clock gone back behind its own imported
\* timestamp.  A balancing transfer is left out: its amount was clamped, so its
\* repetition compares unequal.
RetryIsExists ==
    pc = "create_transfers" =>
        \A j \in DOMAIN results :
            LET t == batch[j]
                before == {batch[i] : i \in {k \in 1 .. j - 1 : results[k] = "Created"}}
            IN  t \in created \cup before /\ t.flags \cap Balancing = {} =>
                    \/ results[j] \in {"Exists", "LinkedEventFailed", "LinkedEventChainOpen"}
                    \/ /\ results[j] = "InvalidInput"
                       /\ \/ ("IMPORTED" \in t.flags) # BatchImported
                          \/ t.timestamp > clock

\* Records are append-only: a commit never rewrites a transfer or a settled
\* pending's state, never unburns an id, and stamps what it adds after
\* everything committed before, even when the clock went back.
AppendOnly ==
    [][/\ \A i \in DOMAIN transfers : i \in DOMAIN transfers' /\ transfers'[i] = transfers[i]
       /\ \A i \in DOMAIN pending_state :
             i \in DOMAIN pending_state' /\ pending_state'[i] = pending_state[i]
       /\ failed \subseteq failed'
       /\ watermark <= watermark'
       /\ \A i \in DOMAIN transfers' \ DOMAIN transfers : transfers'[i].timestamp > watermark
      ]_vars

=============================================================================
