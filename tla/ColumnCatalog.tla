---------------------------- MODULE ColumnCatalog ----------------------------
(***************************************************************************)
(* The column catalog of a table (crates/bluedb-sql/src/colcat.rs): which  *)
(* physical slot of a stored row holds which logical column, so that ALTER *)
(* TABLE rewrites no row.  A row is the sequence of the columns besides    *)
(* the primary key.                                                        *)
(***************************************************************************)
EXTENDS Integers, Sequences, SequencesExt, TLC

CONSTANT Null  \* SQL NULL, a number below every value

(* A function of one key; a function over another one. *)
Single(k, v) == [j \in {k} |-> v]
Over(f, g) == [k \in DOMAIN f \cup DOMAIN g |-> IF k \in DOMAIN f THEN f[k] ELSE g[k]]

identity(n) == [slots |-> [i \in 1..n |-> i], width |-> n, defaults |-> <<>>]
catalog_add_column(c, default) ==
    [slots |-> Append(c.slots, c.width + 1), width |-> c.width + 1,
     defaults |-> IF default = Null THEN c.defaults ELSE Over(Single(c.width + 1, default), c.defaults)]
catalog_drop_column(c, i) == [c EXCEPT !.slots = RemoveAt(@, i)]
to_logical(c, phys) ==
    [i \in DOMAIN c.slots |->
        LET s == c.slots[i] IN
        IF s \in DOMAIN phys THEN phys[s] ELSE IF s \in DOMAIN c.defaults THEN c.defaults[s] ELSE Null]
to_physical(c, row) ==
    LET given == DOMAIN c.slots \cap DOMAIN row
    IN  [s \in 1..c.width |-> IF \E i \in given : c.slots[i] = s
                              THEN row[CHOOSE i \in given : c.slots[i] = s] ELSE Null]
=============================================================================
