----------------------------- MODULE LaggingCopy ----------------------------
(* What a grid's copy of a table promises, whatever brings the rows: every  *)
(* value it shows is one the table has had, and it shows nothing else.      *)
(* That it catches up in the end is stated where the copy is made.          *)
CONSTANTS
    CopyKeys,     \* row keys
    Values,       \* row images
    NoRow         \* no row, or a row whose soft-delete flag is set

VARIABLES
    table,        \* the table's row under each key
    past,         \* every row it has had there
    copy          \* what the grid shows

copyVars == <<table, past, copy>>

CopyInit ==
    /\ table = [k \in CopyKeys |-> NoRow]
    /\ past = [k \in CopyKeys |-> {NoRow}]
    /\ copy = table

Change ==
    \E k \in CopyKeys, v \in Values \cup {NoRow} :
        /\ table' = [table EXCEPT ![k] = v]
        /\ past' = [past EXCEPT ![k] = @ \cup {v}]
        /\ UNCHANGED copy

Show ==
    /\ copy' \in [CopyKeys -> Values \cup {NoRow}]
    /\ \A k \in CopyKeys : copy'[k] \in past[k]
    /\ UNCHANGED <<table, past>>

CopySpec == CopyInit /\ [][Change \/ Show]_copyVars
=============================================================================
