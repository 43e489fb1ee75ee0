---------------------------- MODULE MCWritePath -----------------------------
(* One blotter; what other tabs write comes in as rows of the datasource.  *)
EXTENDS WritePath

CONSTANTS blotter, note, price, w1, w2
MCTabs == {blotter}
MCFields == {note, price}
MCOneField == {note}
MCPrice == {price}
MCValues == {0, 1}
MCKeys == {w1, w2}
MCKeyOf == [t \in MCTabs |-> [n \in 1..2 |-> IF n = 1 THEN w1 ELSE w2]]
=============================================================================
