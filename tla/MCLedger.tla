------------------------------ MODULE MCLedger ------------------------------
(***************************************************************************)
(* Small inputs for Ledger.  Account 1 must not go into debt, account 2    *)
(* funds it; every kind of transfer appears, several under one id.         *)
(***************************************************************************)
EXTENDS Ledger

Acct(id, flags) ==
    [id |-> id, ledger |-> 1, code |-> 1, flags |-> flags, timestamp |-> 0,
     debits_pending |-> 0, debits_posted |-> 0, credits_pending |-> 0,
     credits_posted |-> 0]

Xfer(id, debit, credit, amount, flags) ==
    [id |-> id, debit_account_id |-> debit, credit_account_id |-> credit,
     amount |-> amount, pending_id |-> 0, timeout |-> 0, ledger |-> 1,
     code |-> 1, flags |-> flags, timestamp |-> 0]

Resolve(id, pending, amount, flag) ==
    [Xfer(id, 0, 0, amount, {flag}) EXCEPT !.pending_id = pending,
                                           !.ledger = 0, !.code = 0]

MCAccounts ==
    {Acct(1, {"DEBITS_MUST_NOT_EXCEED_CREDITS"}),
     Acct(2, {"LINKED"}),
     [Acct(2, {"IMPORTED"}) EXCEPT !.timestamp = 1]}

MCTransfers ==
    {Xfer(1, 2, 1, 2, {}),
     Xfer(2, 1, 2, 2, {"LINKED"}),
     [Xfer(3, 1, 2, 2, {"PENDING", "CLOSING_DEBIT"}) EXCEPT !.timeout = 2],
     [Xfer(4, 1, 2, 2, {"PENDING", "BALANCING_DEBIT"}) EXCEPT !.timeout = 1],
     [Xfer(4, 2, 1, 1, {"IMPORTED"}) EXCEPT !.timestamp = 3],
     Resolve(5, 3, 1, "POST_PENDING_TRANSFER"),
     Resolve(6, 3, 0, "VOID_PENDING_TRANSFER")}

=============================================================================
