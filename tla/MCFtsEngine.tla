---------------------------- MODULE MCFtsEngine ----------------------------
(* One key is written, rewritten and deleted; another is written alone, or  *)
(* comes without a text in one transaction with it.                         *)
EXTENDS FtsEngine

CONSTANTS a, b

Set(pk, row) == [pk |-> pk, row |-> row]
MCCommits == {<<Set(1, a)>>, <<Set(1, b)>>, <<Set(1, Absent)>>, <<Set(2, a)>>, <<Set(2, Null), Set(1, a)>>}

(* One row was sealed, and perhaps deleted, before. *)
OneSealed(row) ==
    LET id == mint_split_id(<<>>)
        docs == <<[pk |-> 1, text |-> a]>>
    IN  /\ rows = [pk \in Pk |-> IF pk = 1 THEN row ELSE Absent] /\ sealed = rows
        /\ manifest = <<split_meta(id, 1, docs)>>
        /\ deletes = delete_docs_at(<<>>, {1}, IF row = Absent THEN 1 ELSE 0)
        /\ splits = With(<<>>, id, docs)

(* The index is declared on a table in use, or again on one with an index;  *)
(* commits of two writers to an index, and seals that fail; a search among  *)
(* a commit, its seal and the compaction it brings.                         *)
Left(commits, searches, creates, faults) ==
    used = [commits |-> MaxCommits - commits, searches |-> MaxSearches - searches,
            creates |-> MaxCreates - creates, faults |-> MaxFaults - faults, reads |-> 0]
MCInit ==
    /\ \/ EmptyTable /\ declared = FALSE /\ Left(2, 0, 1, 1)
       \/ OneSealed(a) /\ declared = TRUE /\ (Left(1, 0, 1, 1) \/ Left(2, 0, 0, 1) \/ Left(1, 1, 0, 0))
       \/ OneSealed(Absent) /\ declared = TRUE /\ Left(1, 1, 0, 0)
    /\ Quiet
MCSpec == MCInit /\ [][Next]_vars /\ Fairness
=============================================================================
