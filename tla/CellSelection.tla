---------------------------- MODULE CellSelection ---------------------------
(***************************************************************************)
(* A cell range over a grid that loads and discards its rows in blocks      *)
(* while the feed moves them (cellSelection.mjs).  The grid keeps the range *)
(* by row index; the tracker keeps it by row key and puts it back on the    *)
(* rows it was made on, except while the user drags.                       *)
(*                                                                         *)
(* The grid is external: it shows rows in an order, holds some of them, and *)
(* reports a changed selection and an updated model.  The columns of a      *)
(* range are left out; its two ends are the anchor and the focus.           *)
(***************************************************************************)
EXTENDS Naturals, FiniteSets

CONSTANTS RowIds,   \* the rows of the book
          NoRow     \* no row, and no range

Indices == 1..Cardinality(RowIds)

ASSUME SelectionAssumption ==
    /\ IsFiniteSet(RowIds) /\ NoRow \notin RowIds
    /\ NoRow \notin [anchor : Indices, focus : Indices]
    /\ NoRow \notin [anchor : RowIds \cup {NoRow}, focus : RowIds \cup {NoRow}]

Orders == {o \in [Indices -> RowIds] :
             /\ \A i, j \in Indices : o[i] = o[j] => i = j
             /\ \A k \in RowIds : \E i \in Indices : o[i] = k}

VARIABLES order,      \* the row at each index
          loaded,     \* the rows the grid holds
          selection,  \* the grid's range, [anchor, focus] as indices, or NoRow
          saved,      \* tracker.saved, [anchor, focus] as keys, or NoRow
          dragging    \* a mouse button is down on the grid
selectionVars == <<order, loaded, selection, saved, dragging>>

KeyAt(o, l, i) == IF o[i] \in l THEN o[i] ELSE NoRow
IndexOf(o, key) == CHOOSE i \in Indices : o[i] = key
KeysOf(o, l, range) == [anchor |-> KeyAt(o, l, range.anchor), focus |-> KeyAt(o, l, range.focus)]

\* tracker.capture: a range of which neither end is loaded is no selection.
Capture(o, l, range) ==
    IF range = NoRow \/ KeysOf(o, l, range) = [anchor |-> NoRow, focus |-> NoRow] THEN NoRow
    ELSE KeysOf(o, l, range)

Reversed(keys) == [anchor |-> keys.focus, focus |-> keys.anchor]
\* Mutant of IsIntact: one end is looked at.
IsIntactOneEnd(o, l, range, keys) ==
    \/ keys = NoRow
    \/ range # NoRow /\ KeysOf(o, l, range).anchor \in {keys.anchor, keys.focus}
\* tracker.isIntact: the range on screen is over the saved rows, either way
\* round.
IsIntact(o, l, range, keys) ==
    \/ keys = NoRow
    \/ range # NoRow /\ KeysOf(o, l, range) \in {keys, Reversed(keys)}

\* tracker.plan: both ends where they are now, or the one that is loaded
\* twice; nothing if neither is.
Lowest(i, j) == IF i <= j THEN i ELSE j
Highest(i, j) == IF i <= j THEN j ELSE i
Plan(o, l, keys) ==
    LET here == {k \in {keys.anchor, keys.focus} : k \in l}
        start == IndexOf(o, IF keys.anchor \in l THEN keys.anchor ELSE keys.focus)
        end == IndexOf(o, IF keys.focus \in l THEN keys.focus ELSE keys.anchor)
    IN  IF here = {} THEN NoRow ELSE [anchor |-> Lowest(start, end), focus |-> Highest(start, end)]

\* onBlocksLoaded: never during a drag, never over an intact range.  The
\* tracker ignores the selection changes that it causes itself.
AfterModelUpdate(o, l, range, keys, drag) ==
    IF drag \/ IsIntact(o, l, range, keys) \/ Plan(o, l, keys) = NoRow THEN range ELSE Plan(o, l, keys)

SelectionInit ==
    /\ order \in Orders
    /\ loaded = RowIds
    /\ selection = NoRow
    /\ saved = NoRow
    /\ dragging = FALSE

(***************************************************************************)
(* The user.  A range is made over rows that are loaded, by dragging or     *)
(* from the keyboard, and the grid reports it.                             *)
(***************************************************************************)
MouseDown == ~dragging /\ dragging' = TRUE /\ UNCHANGED <<order, loaded, selection, saved>>

SelectRange ==
    /\ \E i, j \in Indices :
        /\ {order[i], order[j]} \subseteq loaded
        /\ selection' = [anchor |-> i, focus |-> j]
        /\ saved' = Capture(order, loaded, selection')
    /\ UNCHANGED <<order, loaded, dragging>>

\* The grid drops its range: a click elsewhere.
Deselect ==
    /\ selection # NoRow
    /\ selection' = NoRow
    /\ saved' = Capture(order, loaded, NoRow)
    /\ UNCHANGED <<order, loaded, dragging>>

\* The final range is captured, and reconciled once.
MouseUp ==
    /\ dragging
    /\ dragging' = FALSE
    /\ saved' = Capture(order, loaded, selection)
    /\ selection' = AfterModelUpdate(order, loaded, selection, saved', FALSE)
    /\ UNCHANGED <<order, loaded>>

(***************************************************************************)
(* The grid's model: a block comes or goes, or the feed moves a row.  Each  *)
(* is an update the tracker hears of.                                      *)
(***************************************************************************)
ModelUpdated(o, l) ==
    /\ order' = o
    /\ loaded' = l
    /\ selection' = AfterModelUpdate(o, l, selection, saved, dragging)
    /\ UNCHANGED <<saved, dragging>>

BlockLoads(k) == k \notin loaded /\ ModelUpdated(order, loaded \cup {k})
BlockGoes(k) == k \in loaded /\ ModelUpdated(order, loaded \ {k})
RowsMove(i, j) == i < j /\ ModelUpdated([order EXCEPT ![i] = order[j], ![j] = order[i]], loaded)

SelectionNext ==
    \/ MouseDown \/ SelectRange \/ Deselect \/ MouseUp
    \/ \E k \in RowIds : BlockLoads(k) \/ BlockGoes(k)
    \/ \E i, j \in Indices : RowsMove(i, j)

SelectionSpec == SelectionInit /\ [][SelectionNext]_selectionVars

(***************************************************************************)
(* Properties.                                                             *)
(***************************************************************************)
\* The range is within the grid and over known rows.
SelectionTypeOK ==
    /\ order \in Orders
    /\ loaded \subseteq RowIds
    /\ selection \in {NoRow} \cup [anchor : Indices, focus : Indices]
    /\ saved \in {NoRow} \cup [anchor : RowIds \cup {NoRow}, focus : RowIds \cup {NoRow}]
    /\ dragging \in BOOLEAN

\* Between drags, a range whose rows are on screen is over those rows,
\* however they moved and whatever was unloaded in between.
RangeFollowsItsRows ==
    ~dragging /\ saved # NoRow /\ {saved.anchor, saved.focus} \subseteq loaded =>
        /\ selection # NoRow
        /\ {order[selection.anchor], order[selection.focus]} = {saved.anchor, saved.focus}
=============================================================================
