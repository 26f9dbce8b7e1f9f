---------------------------- MODULE SnapshotTable ----------------------------
(***************************************************************************)
(* What the SQL store promises its clients (the isolation model in the     *)
(* head of crates/bluedb-sql/src/connection.rs and storage.rs): one table  *)
(* of rows; a client works on a snapshot, and its commit changes only rows *)
(* that are still as the snapshot has them; a commit is acknowledged when  *)
(* it is stable; a crash loses only what was not acknowledged.             *)
(***************************************************************************)
EXTENDS Naturals

CONSTANT Client

VARIABLES
    rows,     \* key -> row, as a new snapshot sees it
    stable,   \* key -> row, as a restart finds it
    seen,     \* client -> <<its snapshot>>, or <<>>
    commit,   \* client -> what its commit is that is not acknowledged:
              \* "none", "visible", or "stable"
    acks      \* commits acknowledged since the start

avars == <<rows, stable, seen, commit, acks>>

Same(f, g, k) == (k \in DOMAIN f <=> k \in DOMAIN g) /\ (k \in DOMAIN f => f[k] = g[k])

Begin(c) ==
    /\ seen[c] = <<>> /\ commit[c] = "none"
    /\ seen' = [seen EXCEPT ![c] = <<rows>>]
    /\ UNCHANGED <<rows, stable, commit, acks>>

(* The first committer wins. *)
Commit(c) ==
    /\ seen[c] # <<>>
    /\ \A k \in DOMAIN rows \cup DOMAIN rows' : Same(rows', rows, k) \/ Same(rows, seen[c][1], k)
    /\ seen' = [seen EXCEPT ![c] = <<>>]
    /\ commit' = [commit EXCEPT ![c] = "visible"]
    /\ UNCHANGED <<stable, acks>>

(* All that is visible becomes stable; a client may learn of it. *)
Flush ==
    /\ stable' = rows
    /\ \/ commit' = commit
       \/ \E c \in Client : commit[c] = "visible" /\ commit' = [commit EXCEPT ![c] = "stable"]
    /\ UNCHANGED <<rows, seen, acks>>

(* Only what is stable is acknowledged; not every commit counts. *)
Acknowledge(c) ==
    /\ commit[c] = "stable"
    /\ commit' = [commit EXCEPT ![c] = "none"]
    /\ acks' \in {acks, acks + 1}
    /\ UNCHANGED <<rows, stable, seen>>

(* The client goes away; what it wrote stays. *)
Abandon(c) ==
    /\ seen' = [seen EXCEPT ![c] = <<>>]
    /\ commit' = [commit EXCEPT ![c] = "none"]
    /\ UNCHANGED <<rows, stable, acks>>

Crash ==
    /\ rows' = stable
    /\ seen' = [c \in Client |-> <<>>]
    /\ commit' = [c \in Client |-> "none"]
    /\ acks' = 0
    /\ UNCHANGED stable

Init ==
    /\ rows = stable
    /\ seen = [c \in Client |-> <<>>]
    /\ commit = [c \in Client |-> "none"]
    /\ acks = 0

Next ==
    \/ Flush \/ Crash
    \/ \E c \in Client : Begin(c) \/ Commit(c) \/ Acknowledge(c) \/ Abandon(c)

Spec == Init /\ [][Next]_avars
=============================================================================
