----------------------------- MODULE PlaneProofs -----------------------------
(* Proofs about the grids of a client: the cell range, the edits held over  *)
(* the feed, the views of the wasm plane, the evaluations of filters, rules *)
(* and the questions a grid without its rows asks the hub; and about the    *)
(* schema that is inferred from samples.  They hold for every book and every*)
(* order of its rows, for every set of sessions, rules, cached reads and    *)
(* samples, for every block size, and for every cap and threshold.          *)
EXTENDS Computations, CellSelection, EditOverlay, PlaneViews, DataLemmas,
        FiniteSetTheorems, TLAPS

------------------------------------------------------------------------------
(* The cell range follows its rows in every order they can be in.           *)

Keys == RowIds \cup {NoRow}
Ranges == [anchor : Indices, focus : Indices]
Saved == [anchor : Keys, focus : Keys]

(* What the tracker remembers is what the range is over, but for a drag and *)
(* for rows that are not loaded: a saved end that is loaded and on screen   *)
(* is an end of the range.                                                  *)
SelectionInv == SelectionTypeOK /\ RangeFollowsItsRows

\* Every row has an index.
LEMMA RowHasIndex ==
    ASSUME NEW o \in Orders, NEW k \in RowIds
    PROVE  IndexOf(o, k) \in Indices /\ o[IndexOf(o, k)] = k
BY DEF IndexOf, Orders

LEMMA KeysAreKeys ==
    ASSUME NEW o \in Orders, NEW l \in SUBSET RowIds, NEW range \in Ranges
    PROVE  KeysOf(o, l, range) \in Saved
BY DEF KeysOf, KeyAt, Orders, Ranges, Saved, Keys

LEMMA CaptureType ==
    ASSUME NEW o \in Orders, NEW l \in SUBSET RowIds, NEW range \in {NoRow} \cup Ranges
    PROVE  Capture(o, l, range) \in {NoRow} \cup Saved
BY KeysAreKeys DEF Capture

\* The plan for a saved range is a range over those of its rows that are
\* loaded, and there is one when one of them is.
LEMMA PlanIsOverRows ==
    ASSUME NEW o \in Orders, NEW l \in SUBSET RowIds, NEW keys \in Saved
    PROVE  /\ Plan(o, l, keys) \in {NoRow} \cup Ranges
           /\ {keys.anchor, keys.focus} \subseteq l =>
                /\ Plan(o, l, keys) \in Ranges
                /\ {o[Plan(o, l, keys).anchor], o[Plan(o, l, keys).focus]} = {keys.anchor, keys.focus}
<1> DEFINE start == IndexOf(o, IF keys.anchor \in l THEN keys.anchor ELSE keys.focus)
           end == IndexOf(o, IF keys.focus \in l THEN keys.focus ELSE keys.anchor)
<1>1. CASE keys.anchor \notin l /\ keys.focus \notin l
    BY <1>1 DEF Plan
<1>2. CASE keys.anchor \in l \/ keys.focus \in l
    <2>1. Plan(o, l, keys) = [anchor |-> Lowest(start, end), focus |-> Highest(start, end)]
        BY <1>2 DEF Plan
    <2>2. start \in Indices /\ end \in Indices
        BY <1>2, RowHasIndex
    <2>3. Plan(o, l, keys) \in Ranges
        BY <2>1, <2>2 DEF Ranges, Lowest, Highest
    <2>4. ASSUME {keys.anchor, keys.focus} \subseteq l
          PROVE  {o[Plan(o, l, keys).anchor], o[Plan(o, l, keys).focus]} = {keys.anchor, keys.focus}
        <3>1. o[start] = keys.anchor /\ o[end] = keys.focus
            BY <2>4, RowHasIndex
        <3> HIDE DEF start, end
        <3> QED BY <2>1, <3>1 DEF Lowest, Highest
    <2> QED BY <2>3, <2>4
<1> QED BY <1>1, <1>2

\* A range that is intact over loaded rows is over those rows.
LEMMA IntactIsOverRows ==
    ASSUME NEW o \in Orders, NEW l \in SUBSET RowIds, NEW range \in {NoRow} \cup Ranges,
           NEW keys \in Saved, {keys.anchor, keys.focus} \subseteq l,
           IsIntact(o, l, range, keys)
    PROVE  range # NoRow /\ {o[range.anchor], o[range.focus]} = {keys.anchor, keys.focus}
<1>1. keys # NoRow
    BY SelectionAssumption DEF Saved, Keys
<1>2. range # NoRow /\ range \in Ranges /\ KeysOf(o, l, range) \in {keys, Reversed(keys)}
    BY <1>1 DEF IsIntact
<1>3. keys.anchor # NoRow /\ keys.focus # NoRow
    BY SelectionAssumption
<1>4. KeysOf(o, l, range).anchor # NoRow /\ KeysOf(o, l, range).focus # NoRow
    BY <1>2, <1>3 DEF Reversed
<1>5. KeysOf(o, l, range).anchor = o[range.anchor] /\ KeysOf(o, l, range).focus = o[range.focus]
    BY <1>4 DEF KeysOf, KeyAt
<1> QED BY <1>2, <1>5 DEF Reversed

\* The range is over the saved rows.
OverRows(o, range, keys) ==
    range # NoRow /\ {o[range.anchor], o[range.focus]} = {keys.anchor, keys.focus}

\* After an update outside a drag, a saved range whose rows are loaded is on
\* the screen over them.
LEMMA UpdateRestores ==
    ASSUME NEW o \in Orders, NEW l \in SUBSET RowIds, NEW range \in {NoRow} \cup Ranges,
           NEW keys \in {NoRow} \cup Saved, NEW drag \in BOOLEAN
    PROVE  /\ AfterModelUpdate(o, l, range, keys, drag) \in {NoRow} \cup Ranges
           /\ ~drag /\ keys # NoRow /\ {keys.anchor, keys.focus} \subseteq l =>
                OverRows(o, AfterModelUpdate(o, l, range, keys, drag), keys)
<1>1. CASE keys = NoRow
    BY <1>1 DEF AfterModelUpdate, IsIntact
<1>2. CASE keys \in Saved
    <2>1. NoRow \notin Ranges
        BY SelectionAssumption DEF Ranges
    <2> QED BY <1>2, <2>1, PlanIsOverRows, IntactIsOverRows DEF AfterModelUpdate, OverRows
<1> QED BY <1>1, <1>2

LEMMA ModelUpdateStep ==
    ASSUME SelectionInv, NEW o \in Orders, NEW l \in SUBSET RowIds, ModelUpdated(o, l)
    PROVE  SelectionInv'
<1>1. /\ selection \in {NoRow} \cup Ranges /\ saved \in {NoRow} \cup Saved /\ dragging \in BOOLEAN
    BY DEF SelectionInv, SelectionTypeOK, Ranges, Saved, Keys
<1>2. /\ order' = o /\ loaded' = l /\ saved' = saved /\ dragging' = dragging
      /\ selection' = AfterModelUpdate(o, l, selection, saved, dragging)
    BY DEF ModelUpdated
<1>3. SelectionTypeOK'
    BY <1>1, <1>2, UpdateRestores DEF SelectionTypeOK, Ranges, Saved, Keys
<1>4. ~dragging /\ saved # NoRow /\ {saved.anchor, saved.focus} \subseteq l =>
          OverRows(o, selection', saved)
    BY <1>1, <1>2, UpdateRestores
<1>5. RangeFollowsItsRows'
    BY <1>2, <1>4 DEF RangeFollowsItsRows, OverRows
<1> QED BY <1>3, <1>5 DEF SelectionInv

LEMMA SelectionStep ==
    ASSUME SelectionInv, SelectionNext
    PROVE  SelectionInv'
<1>0. /\ order \in Orders /\ loaded \in SUBSET RowIds /\ dragging \in BOOLEAN
      /\ selection \in {NoRow} \cup Ranges /\ saved \in {NoRow} \cup Saved
    BY DEF SelectionInv, SelectionTypeOK, Ranges, Saved, Keys
<1>1. CASE MouseDown
    BY <1>1 DEF MouseDown, SelectionInv, SelectionTypeOK, RangeFollowsItsRows
<1>2. CASE SelectRange
    <2>1. PICK i \in Indices, j \in Indices :
              /\ {order[i], order[j]} \subseteq loaded
              /\ selection' = [anchor |-> i, focus |-> j]
              /\ saved' = Capture(order, loaded, selection')
        BY <1>2 DEF SelectRange
    <2>2. selection' \in Ranges
        BY <2>1 DEF Ranges
    <2>3. saved' \in {NoRow} \cup Saved
        BY <1>0, <2>1, <2>2, CaptureType
    <2>4. KeysOf(order, loaded, selection') = [anchor |-> order[i], focus |-> order[j]]
        BY <2>1 DEF KeysOf, KeyAt
    <2>5. saved' # NoRow => saved' = [anchor |-> order[i], focus |-> order[j]]
        BY <2>1, <2>4 DEF Capture
    <2>6. UNCHANGED <<order, loaded, dragging>>
        BY <1>2 DEF SelectRange
    <2>7. NoRow \notin Ranges
        BY SelectionAssumption DEF Ranges
    <2>8. RangeFollowsItsRows'
        BY <2>1, <2>2, <2>5, <2>6, <2>7 DEF RangeFollowsItsRows
    <2> QED BY <1>0, <2>2, <2>3, <2>6, <2>8 DEF SelectionInv, SelectionTypeOK, Ranges, Saved, Keys
<1>3. CASE Deselect
    <2>1. saved' = NoRow /\ selection' = NoRow /\ UNCHANGED <<order, loaded, dragging>>
        BY <1>3 DEF Deselect, Capture
    <2> QED BY <1>0, <2>1 DEF SelectionInv, SelectionTypeOK, RangeFollowsItsRows
<1>4. CASE MouseUp
    <2>1. /\ saved' = Capture(order, loaded, selection) /\ dragging' = FALSE
          /\ selection' = AfterModelUpdate(order, loaded, selection, saved', FALSE)
          /\ UNCHANGED <<order, loaded>>
        BY <1>4 DEF MouseUp
    <2>2. saved' \in {NoRow} \cup Saved
        BY <1>0, <2>1, CaptureType
    <2>3. SelectionTypeOK'
        BY <1>0, <2>1, <2>2, UpdateRestores DEF SelectionTypeOK, Ranges, Saved, Keys
    <2>4. saved' # NoRow /\ {saved'.anchor, saved'.focus} \subseteq loaded =>
              OverRows(order, selection', saved')
        BY <1>0, <2>1, <2>2, UpdateRestores
    <2>5. RangeFollowsItsRows'
        BY <2>1, <2>4 DEF RangeFollowsItsRows, OverRows
    <2> QED BY <2>3, <2>5 DEF SelectionInv
<1>5. ASSUME NEW k \in RowIds, BlockLoads(k) PROVE SelectionInv'
    BY <1>0, <1>5, ModelUpdateStep DEF BlockLoads
<1>6. ASSUME NEW k \in RowIds, BlockGoes(k) PROVE SelectionInv'
    BY <1>0, <1>6, ModelUpdateStep DEF BlockGoes
<1>7. ASSUME NEW i \in Indices, NEW j \in Indices, RowsMove(i, j) PROVE SelectionInv'
    <2>1. [order EXCEPT ![i] = order[j], ![j] = order[i]] \in Orders
        BY <1>0 DEF Orders
    <2> QED BY <1>0, <1>7, <2>1, ModelUpdateStep DEF RowsMove
<1> QED BY <1>1, <1>2, <1>3, <1>4, <1>5, <1>6, <1>7 DEF SelectionNext

(* The inductive invariant of the selection, which is its two properties:   *)
(* each handler looks at the range again before it returns.                 *)
THEOREM SelectionInvariance == SelectionSpec => []SelectionInv
<1>1. SelectionInit => SelectionInv
    BY DEF SelectionInit, SelectionInv, SelectionTypeOK, RangeFollowsItsRows
<1>2. SelectionInv /\ [SelectionNext]_selectionVars => SelectionInv'
    <2> SUFFICES ASSUME SelectionInv, [SelectionNext]_selectionVars PROVE SelectionInv'
        OBVIOUS
    <2>1. CASE SelectionNext
        BY <2>1, SelectionStep
    <2>2. CASE UNCHANGED selectionVars
        BY <2>2 DEF selectionVars, SelectionInv, SelectionTypeOK, RangeFollowsItsRows
    <2> QED BY <2>1, <2>2
<1> QED BY <1>1, <1>2, PTL DEF SelectionSpec

(* For every book and every order of its rows: between drags a range whose  *)
(* rows are loaded is over those rows (restore, isIntact, plan), however    *)
(* blocks came and went and rows moved.                                     *)
THEOREM RangeFollows == SelectionSpec => []RangeFollowsItsRows
<1>1. SelectionInv => RangeFollowsItsRows
    BY DEF SelectionInv
<1> QED BY <1>1, SelectionInvariance, PTL

------------------------------------------------------------------------------
(* Edits held over the feed: a row's last edit is held, or it was given up   *)
(* when the feed said it, or said a second value.                            *)

\* Of a row there is at most one edit.
Apart(os) == \A i, j \in DOMAIN os : os[i].key = os[j].key => i = j

\* The types, as the proof uses them.
OverlayTyped ==
    /\ cells \in [RowKeys -> Cells \cup {NoCell}]
    /\ overlays \in Seq(Overlay) /\ Len(overlays) <= MaxOverlays
    /\ Apart(overlays)
    /\ removals \in SUBSET RowKeys
    /\ deltasOff \in BOOLEAN
    /\ edit \in [RowKeys -> EditValues \cup {NoEdit}]
    /\ said \in [RowKeys -> Seq(Cells)]

\* The feed has said nothing but c.
SaidOnly(k, c) == \A i \in DOMAIN said[k] : said[k][i] = c

\* An edit that is held is shown, and is the value the feed has not said yet.
HeldShows(k) ==
    \A i \in DOMAIN overlays : overlays[i].key = k =>
        /\ edit[k] = overlays[i].value
        /\ cells[k] \in {overlays[i].value, NoCell}
        /\ overlays[i].baseline = NoCell => said[k] = <<>>
        /\ overlays[i].baseline # NoCell =>
               /\ overlays[i].baseline # overlays[i].value
               /\ said[k] # <<>> /\ SaidOnly(k, overlays[i].baseline)

\* An edit that is not held any more is what the feed said, or was overruled.
ReleasedShows(k) ==
    edit[k] # NoEdit /\ (\A i \in DOMAIN overlays : overlays[i].key # k) =>
        /\ said[k] # <<>>
        /\ cells[k] \in {said[k][Len(said[k])], NoCell}
        /\ SaidOnly(k, said[k][1]) => said[k][1] = edit[k]

\* Every row is in one of the two cases.
OverlayInv ==
    /\ OverlayTyped
    /\ \A k \in RowKeys : HeldShows(k) /\ ReleasedShows(k)

\* t is what is left of the edits os when those of some rows go.
Left(t, os, keys) ==
    /\ t \in Seq(Overlay)
    /\ Apart(t)
    /\ Len(t) <= Len(os)
    /\ (\E i \in DOMAIN os : os[i].key \in keys) => Len(t) < Len(os)
    /\ \A j \in DOMAIN t : t[j].key \notin keys
    /\ \A j \in DOMAIN t : \E i \in DOMAIN os : t[j] = os[i]
    /\ \A i \in DOMAIN os : os[i].key \notin keys => \E j \in DOMAIN t : t[j] = os[i]

\* Filtering by row gives that.
LEMMA ReleasedAre ==
    ASSUME NEW os \in Seq(Overlay), Apart(os), NEW keys
    PROVE  Left(KeepIn(os, OverlaysOff(keys)), os, keys)
<1>0. PICK t, T : T = OverlaysOff(keys) /\ t = KeepIn(os, T) OBVIOUS
<1>1. t \in Seq(Overlay) BY <1>0, KeptIsPicked
<1>2. PICK f \in [1 .. Len(t) -> Nat] : IsPicked(f, t, os, T) BY <1>0, KeptIsPicked
<1>3. /\ DOMAIN t = 1 .. Len(t) /\ DOMAIN os = 1 .. Len(os)
      /\ Len(t) \in Nat /\ Len(os) \in Nat
    BY <1>1
<1>4. \A i \in DOMAIN os : os[i] \in T <=> os[i].key \notin keys BY <1>0, <1>3 DEF OverlaysOff
<1>5. /\ \A j \in 1 .. Len(t) : f[j] \in 1 .. Len(os) /\ t[j] = os[f[j]] /\ t[j] \in T
      /\ \A i, j \in 1 .. Len(t) : i < j => f[i] < f[j]
      /\ \A i \in 1 .. Len(os) : os[i] \in T => \E j \in 1 .. Len(t) : f[j] = i
      /\ Len(t) <= Len(os)
      /\ (\E i \in 1 .. Len(os) : os[i] \notin T) => Len(t) < Len(os)
    BY <1>2 DEF IsPicked
<1>6. Apart(t)
    <2>1. SUFFICES ASSUME NEW i \in DOMAIN t, NEW j \in DOMAIN t, t[i].key = t[j].key PROVE i = j
        BY DEF Apart
    <2>2. f[i] = f[j] BY <1>3, <1>5, <2>1 DEF Apart
    <2>3. i \in Nat /\ j \in Nat /\ f[i] \in Nat /\ f[j] \in Nat BY <1>3
    <2>4. ~(f[i] < f[j]) /\ ~(f[j] < f[i]) BY <2>2, <2>3
    <2>5. ~(i < j) /\ ~(j < i) BY <1>3, <1>5, <2>4
    <2>. QED BY <2>3, <2>5
<1>7. (\E i \in DOMAIN os : os[i].key \in keys) => Len(t) < Len(os) BY <1>3, <1>4, <1>5
<1>8. \A j \in DOMAIN t : t[j].key \notin keys
    <2>1. SUFFICES ASSUME NEW j \in DOMAIN t PROVE t[j].key \notin keys OBVIOUS
    <2>2. f[j] \in DOMAIN os /\ t[j] = os[f[j]] /\ t[j] \in T BY <1>3, <1>5
    <2>. QED BY <1>4, <2>2
<1>9. \A j \in DOMAIN t : \E i \in DOMAIN os : t[j] = os[i] BY <1>3, <1>5
<1>10. \A i \in DOMAIN os : os[i].key \notin keys => \E j \in DOMAIN t : t[j] = os[i]
    <2>1. SUFFICES ASSUME NEW i \in DOMAIN os, os[i].key \notin keys PROVE \E j \in DOMAIN t : t[j] = os[i]
        OBVIOUS
    <2>2. os[i] \in T BY <1>4, <2>1
    <2>3. PICK j \in 1 .. Len(t) : f[j] = i BY <1>3, <1>5, <2>2
    <2>. QED BY <1>3, <1>5, <2>3
<1>11. Left(t, os, keys) BY <1>1, <1>5, <1>6, <1>7, <1>8, <1>9, <1>10 DEF Left
<1>. QED BY <1>0, <1>11

\* A row whose edit, cell and hearsay stay, in whatever place the edit is.
LEMMA SameRow ==
    ASSUME OverlayTyped, NEW k \in RowKeys, HeldShows(k), ReleasedShows(k),
           edit'[k] = edit[k], said'[k] = said[k], cells'[k] \in {cells[k], NoCell},
           \A j \in DOMAIN overlays' : overlays'[j].key = k =>
                                       \E i \in DOMAIN overlays : overlays'[j] = overlays[i],
           \A i \in DOMAIN overlays : overlays[i].key = k =>
                                       \E j \in DOMAIN overlays' : overlays'[j] = overlays[i]
    PROVE  HeldShows(k)' /\ ReleasedShows(k)'
<1>1. HeldShows(k)' BY DEF HeldShows, SaidOnly
<1>2. ReleasedShows(k)' BY DEF ReleasedShows, SaidOnly
<1>. QED BY <1>1, <1>2

\* A row whose edit is forgotten.
LEMMA ForgottenRow ==
    ASSUME NEW k, edit'[k] = NoEdit, \A j \in DOMAIN overlays' : overlays'[j].key # k
    PROVE  HeldShows(k)' /\ ReleasedShows(k)'
BY DEF HeldShows, ReleasedShows

\* What is forgotten, and what is not.
LEMMA ForgetTyped ==
    ASSUME OverlayTyped, NEW keys, Forget(keys)
    PROVE  /\ edit' \in [RowKeys -> EditValues \cup {NoEdit}] /\ said' \in [RowKeys -> Seq(Cells)]
           /\ \A k \in RowKeys : k \in keys => edit'[k] = NoEdit
           /\ \A k \in RowKeys : k \notin keys => edit'[k] = edit[k] /\ said'[k] = said[k]
<1>1. <<>> \in Seq(Cells) OBVIOUS
<1>. QED BY <1>1 DEF Forget, OverlayTyped

\* A step that releases the edits of some rows and changes no other cell,
\* except that rows go.
LEMMA ReleaseKeeps ==
    ASSUME OverlayInv, NEW keys, overlays' = Released(keys), Forget(keys),
           cells' \in [RowKeys -> Cells \cup {NoCell}],
           \A k \in RowKeys : k \notin keys => cells'[k] \in {cells[k], NoCell},
           removals' \in SUBSET RowKeys, deltasOff' = deltasOff
    PROVE  OverlayInv'
<1>0. OverlayTyped /\ \A k \in RowKeys : HeldShows(k) /\ ReleasedShows(k) BY DEF OverlayInv
<1>1. Left(overlays', overlays, keys) BY <1>0, ReleasedAre DEF Released, OverlayTyped
<1>2. /\ overlays' \in Seq(Overlay) /\ Apart(overlays') /\ Len(overlays') <= Len(overlays)
      /\ \A j \in DOMAIN overlays' : overlays'[j].key \notin keys
      /\ \A j \in DOMAIN overlays' : \E i \in DOMAIN overlays : overlays'[j] = overlays[i]
      /\ \A i \in DOMAIN overlays :
            overlays[i].key \notin keys => \E j \in DOMAIN overlays' : overlays'[j] = overlays[i]
    BY <1>1 DEF Left
<1>4. OverlayTyped'
    <2>1. Len(overlays') \in Nat /\ Len(overlays) \in Nat BY <1>0, <1>2 DEF OverlayTyped
    <2>2. Len(overlays') <= MaxOverlays BY <1>0, <1>2, <2>1, OverlayAssumption DEF OverlayTyped
    <2>3. /\ edit' \in [RowKeys -> EditValues \cup {NoEdit}] /\ said' \in [RowKeys -> Seq(Cells)]
        BY <1>0, ForgetTyped
    <2>4. Apart(overlays)' BY <1>2 DEF Apart
    <2>. QED BY <1>0, <1>2, <2>2, <2>3, <2>4 DEF OverlayTyped
<1>5. ASSUME NEW k \in RowKeys PROVE HeldShows(k)' /\ ReleasedShows(k)'
    <2>1. CASE k \in keys
        <3>1. edit'[k] = NoEdit BY <1>0, <2>1, ForgetTyped
        <3>2. \A j \in DOMAIN overlays' : overlays'[j].key # k BY <1>2, <2>1
        <3>. QED BY <3>1, <3>2, ForgottenRow
    <2>2. CASE k \notin keys
        <3>1. edit'[k] = edit[k] /\ said'[k] = said[k] BY <1>0, <2>2, ForgetTyped
        <3>2. /\ \A j \in DOMAIN overlays' : overlays'[j].key = k =>
                                       \E i \in DOMAIN overlays : overlays'[j] = overlays[i]
              /\ \A i \in DOMAIN overlays : overlays[i].key = k =>
                                       \E j \in DOMAIN overlays' : overlays'[j] = overlays[i]
            BY <1>2, <2>2
        <3>3. cells'[k] \in {cells[k], NoCell} BY <2>2
        <3>. QED BY <1>0, <3>1, <3>2, <3>3, SameRow
    <2>. QED BY <2>1, <2>2
<1>. QED BY <1>4, <1>5 DEF OverlayInv

\* An empty plane has no edits.
LEMMA OverlayStart == OverlayInit => OverlayInv
<1>1. SUFFICES ASSUME OverlayInit PROVE OverlayInv OBVIOUS
<1>2. <<>> \in Seq(Cells) /\ <<>> \in Seq(Overlay) OBVIOUS
<1>3. Len(<<>>) <= MaxOverlays BY OverlayAssumption
<1>4. OverlayTyped BY <1>1, <1>2, <1>3 DEF OverlayInit, OverlayTyped, Apart
<1>5. ASSUME NEW k \in RowKeys PROVE HeldShows(k) /\ ReleasedShows(k)
    BY <1>1 DEF OverlayInit, HeldShows, ReleasedShows
<1>. QED BY <1>4, <1>5 DEF OverlayInv

\* The plane forgets everything.
LEMMA EmptyKeeps ==
    ASSUME OverlayInv, overlays' = <<>>, Forget(RowKeys), cells' \in [RowKeys -> Cells \cup {NoCell}],
           removals' \in SUBSET RowKeys, deltasOff' = deltasOff
    PROVE  OverlayInv'
<1>1. OverlayTyped BY DEF OverlayInv
<1>2. <<>> \in Seq(Overlay) /\ Len(<<>>) <= MaxOverlays BY OverlayAssumption
<1>3. /\ edit' \in [RowKeys -> EditValues \cup {NoEdit}] /\ said' \in [RowKeys -> Seq(Cells)]
      /\ \A k \in RowKeys : edit'[k] = NoEdit
    BY <1>1, ForgetTyped
<1>4. OverlayTyped' BY <1>1, <1>2, <1>3 DEF OverlayTyped, Apart
<1>5. ASSUME NEW k \in RowKeys PROVE HeldShows(k)' /\ ReleasedShows(k)' BY <1>3, ForgottenRow
<1>. QED BY <1>4, <1>5 DEF OverlayInv

\* A new edit goes to the young end, and the oldest leaves when it is one too
\* many: it can be the new one.
LEMMA EditKeeps ==
    ASSUME OverlayInv, NEW k \in RowKeys, NEW v \in EditValues, ApplyEdit(k, v)
    PROVE  OverlayInv'
<1>0. OverlayTyped /\ \A x \in RowKeys : HeldShows(x) /\ ReleasedShows(x) BY DEF OverlayInv
<1>1. PICK new : new = [key |-> k, value |-> v, baseline |-> NoCell] OBVIOUS
<1>2. PICK rest : rest = Released({k}) OBVIOUS
<1>3. PICK all : all = Append(rest, new) OBVIOUS
<1>4. PICK out : out = OverCap(all) OBVIOUS
<1>5. /\ overlays' = KeepIn(all, OverlaysOff(out))
      /\ cells' = [cells EXCEPT ![k] = v]
      /\ removals' = removals \ {k}
      /\ edit' = [x \in RowKeys |-> IF x \in out THEN NoEdit ELSE IF x = k THEN v ELSE edit[x]]
      /\ said' = [x \in RowKeys |-> IF x \in out \cup {k} THEN <<>> ELSE said[x]]
      /\ deltasOff' = deltasOff
    BY <1>1, <1>2, <1>3, <1>4 DEF ApplyEdit
<1>6. Left(rest, overlays, {k}) BY <1>0, <1>2, ReleasedAre DEF Released, OverlayTyped
<1>7. /\ rest \in Seq(Overlay) /\ Apart(rest) /\ Len(rest) <= Len(overlays)
      /\ \A j \in DOMAIN rest : rest[j].key \notin {k}
      /\ \A j \in DOMAIN rest : \E i \in DOMAIN overlays : rest[j] = overlays[i]
      /\ \A i \in DOMAIN overlays : overlays[i].key \notin {k} => \E j \in DOMAIN rest : rest[j] = overlays[i]
    BY <1>6 DEF Left
<1>8. new \in Overlay /\ new.key = k /\ new.value = v /\ new.baseline = NoCell BY <1>1 DEF Overlay
<1>9. all \in Seq(Overlay) BY <1>3, <1>7, <1>8, AppendProperties
<1>10. /\ Len(rest) \in Nat /\ DOMAIN rest = 1 .. Len(rest)
       /\ Len(all) = Len(rest) + 1 /\ DOMAIN all = 1 .. (Len(rest) + 1)
       /\ all[Len(rest) + 1] = new /\ \A j \in 1 .. Len(rest) : all[j] = rest[j]
    BY <1>3, <1>7, <1>8
<1>11. Apart(all)
    <2>1. SUFFICES ASSUME NEW i \in DOMAIN all, NEW j \in DOMAIN all, all[i].key = all[j].key PROVE i = j
        BY DEF Apart
    <2>2. (i = Len(rest) + 1 \/ i \in 1 .. Len(rest)) /\ (j = Len(rest) + 1 \/ j \in 1 .. Len(rest)) BY <1>10
    <2>3. CASE i = Len(rest) + 1 /\ j = Len(rest) + 1 BY <2>3
    <2>4. CASE i = Len(rest) + 1 /\ j \in 1 .. Len(rest) BY <1>7, <1>8, <1>10, <2>1, <2>4
    <2>5. CASE i \in 1 .. Len(rest) /\ j = Len(rest) + 1 BY <1>7, <1>8, <1>10, <2>1, <2>5
    <2>6. CASE i \in 1 .. Len(rest) /\ j \in 1 .. Len(rest) BY <1>7, <1>10, <2>1, <2>6 DEF Apart
    <2>. QED BY <2>2, <2>3, <2>4, <2>5, <2>6
<1>12. Left(overlays', all, out) BY <1>5, <1>9, <1>11, ReleasedAre
<1>13. /\ overlays' \in Seq(Overlay) /\ Apart(overlays') /\ Len(overlays') <= Len(all)
       /\ (\E i \in DOMAIN all : all[i].key \in out) => Len(overlays') < Len(all)
       /\ \A j \in DOMAIN overlays' : overlays'[j].key \notin out
       /\ \A j \in DOMAIN overlays' : \E i \in DOMAIN all : overlays'[j] = all[i]
       /\ \A i \in DOMAIN all : all[i].key \notin out => \E j \in DOMAIN overlays' : overlays'[j] = all[i]
    BY <1>12 DEF Left
<1>14. OverlayTyped'
    <2>1. Len(overlays') \in Nat /\ Len(overlays) \in Nat /\ Len(overlays) <= MaxOverlays
        BY <1>0, <1>13 DEF OverlayTyped
    <2>2. Len(overlays') <= MaxOverlays
        <3>1. CASE Len(all) > MaxOverlays
            <4>1. 1 \in DOMAIN all /\ all[1].key \in out BY <1>4, <1>10, <3>1 DEF OverCap
            <4>2. Len(overlays') < Len(all) BY <1>13, <4>1
            <4>. QED BY <1>7, <1>10, <2>1, <4>2, OverlayAssumption
        <3>2. CASE ~(Len(all) > MaxOverlays)
            BY <1>10, <1>13, <2>1, <3>2, OverlayAssumption
        <3>. QED BY <3>1, <3>2
    <2>3. edit' \in [RowKeys -> EditValues \cup {NoEdit}] BY <1>0, <1>5 DEF OverlayTyped
    <2>4. said' \in [RowKeys -> Seq(Cells)]
        <3>1. <<>> \in Seq(Cells) OBVIOUS
        <3>. QED BY <1>0, <1>5, <3>1 DEF OverlayTyped
    <2>5. cells' \in [RowKeys -> Cells \cup {NoCell}] BY <1>0, <1>5 DEF OverlayTyped, Cells
    <2>6. Apart(overlays)' BY <1>13 DEF Apart
    <2>7. removals' \in SUBSET RowKeys /\ deltasOff' \in BOOLEAN BY <1>0, <1>5 DEF OverlayTyped
    <2>. QED BY <1>13, <2>2, <2>3, <2>4, <2>5, <2>6, <2>7 DEF OverlayTyped
<1>15. ASSUME NEW x \in RowKeys PROVE HeldShows(x)' /\ ReleasedShows(x)'
    <2>1. CASE x \in out
        <3>1. edit'[x] = NoEdit BY <1>5, <2>1
        <3>2. \A j \in DOMAIN overlays' : overlays'[j].key # x BY <1>13, <2>1
        <3>. QED BY <3>1, <3>2, ForgottenRow
    <2>2. CASE x \notin out /\ x = k
        <3>1. edit'[x] = v /\ said'[x] = <<>> /\ cells'[x] = v BY <1>0, <1>5, <2>2 DEF OverlayTyped
        <3>2. ASSUME NEW j \in DOMAIN overlays', overlays'[j].key = x PROVE overlays'[j] = new
            <4>1. PICK i \in DOMAIN all : overlays'[j] = all[i] BY <1>13
            <4>2. i = Len(rest) + 1 BY <1>7, <1>10, <2>2, <3>2, <4>1
            <4>. QED BY <1>10, <4>1, <4>2
        <3>3. \E j \in DOMAIN overlays' : overlays'[j].key = x
            <4>1. Len(rest) + 1 \in DOMAIN all BY <1>10
            <4>. QED BY <1>8, <1>10, <1>13, <2>2, <4>1
        <3>4. HeldShows(x)' BY <1>8, <3>1, <3>2 DEF HeldShows
        <3>5. ReleasedShows(x)' BY <3>3 DEF ReleasedShows
        <3>. QED BY <3>4, <3>5
    <2>3. CASE x \notin out /\ x # k
        <3>1. edit'[x] = edit[x] /\ said'[x] = said[x] BY <1>5, <2>3
        <3>2. cells'[x] \in {cells[x], NoCell} BY <1>0, <1>5, <2>3 DEF OverlayTyped
        <3>3. ASSUME NEW j \in DOMAIN overlays', overlays'[j].key = x
              PROVE  \E i \in DOMAIN overlays : overlays'[j] = overlays[i]
            <4>1. PICK i \in DOMAIN all : overlays'[j] = all[i] BY <1>13
            <4>2. i \in 1 .. Len(rest) BY <1>8, <1>10, <2>3, <3>3, <4>1
            <4>. QED BY <1>7, <1>10, <4>1, <4>2
        <3>4. ASSUME NEW i \in DOMAIN overlays, overlays[i].key = x
              PROVE  \E j \in DOMAIN overlays' : overlays'[j] = overlays[i]
            <4>1. PICK m \in DOMAIN rest : rest[m] = overlays[i] BY <1>7, <2>3, <3>4
            <4>2. m \in DOMAIN all /\ all[m] = overlays[i] BY <1>10, <4>1
            <4>. QED BY <1>13, <2>3, <3>4, <4>2
        <3>. QED BY <1>0, <3>1, <3>2, <3>3, <3>4, SameRow
    <2>. QED BY <2>1, <2>2, <2>3
<1>. QED BY <1>14, <1>15 DEF OverlayInv

\* The feed says v of row k: the other rows keep what they show.
LEMMA OtherRows ==
    ASSUME OverlayInv, NEW k \in RowKeys, NEW v \in Cells, NEW x \in RowKeys, x # k, Ingest(k, v)
    PROVE  HeldShows(x)' /\ ReleasedShows(x)'
<1>0. OverlayTyped /\ HeldShows(x) /\ ReleasedShows(x) BY DEF OverlayInv
<1>1. edit'[x] = edit[x] /\ said'[x] = said[x] BY <1>0 DEF Ingest, OverlayTyped
<1>2. cells'[x] \in {cells[x], NoCell} BY <1>0 DEF Ingest, OverlayTyped
<1>3. CASE \E i \in HeldOver(k) : StillHeld(overlays[i], v)
    <2>1. PICK i \in HeldOver(k) : overlays' = [overlays EXCEPT ![i].baseline = v] BY <1>3 DEF Ingest
    <2>2. i \in DOMAIN overlays /\ overlays[i].key = k BY <2>1 DEF HeldOver
    <2>3. DOMAIN overlays' = DOMAIN overlays /\ \A j \in DOMAIN overlays : j # i => overlays'[j] = overlays[j]
        BY <1>0, <2>1, <2>2 DEF OverlayTyped
    <2>4. overlays'[i].key = k
        <3>1. overlays'[i] = [overlays[i] EXCEPT !.baseline = v] BY <1>0, <2>1, <2>2 DEF OverlayTyped
        <3>2. overlays[i] \in Overlay BY <1>0, <2>2 DEF OverlayTyped
        <3>. QED BY <2>2, <3>1, <3>2 DEF Overlay
    <2>. QED BY <1>0, <1>1, <1>2, <2>2, <2>3, <2>4, SameRow
<1>4. CASE ~\E i \in HeldOver(k) : StillHeld(overlays[i], v)
    <2>1. overlays' = Released({k}) BY <1>4 DEF Ingest
    <2>2. Left(overlays', overlays, {k}) BY <1>0, <2>1, ReleasedAre DEF Released, OverlayTyped
    <2>3. /\ \A j \in DOMAIN overlays' : \E i \in DOMAIN overlays : overlays'[j] = overlays[i]
          /\ \A i \in DOMAIN overlays :
                overlays[i].key # k => \E j \in DOMAIN overlays' : overlays'[j] = overlays[i]
        BY <2>2 DEF Left
    <2>. QED BY <1>0, <1>1, <1>2, <2>3, SameRow
<1>. QED BY <1>3, <1>4

\* Rows from the feed change a baseline or release an edit, and nothing else.
LEMMA NewsTyped ==
    ASSUME OverlayInv, NEW k \in RowKeys, NEW v \in Cells, Ingest(k, v)
    PROVE  OverlayTyped'
<1>0. OverlayTyped BY DEF OverlayInv
<1>1. said' \in [RowKeys -> Seq(Cells)]
    <2>1. Append(said[k], v) \in Seq(Cells) BY <1>0, AppendProperties DEF OverlayTyped
    <2>2. PICK w : w = IF edit[k] = NoEdit THEN said[k] ELSE Append(said[k], v) OBVIOUS
    <2>3. w \in Seq(Cells) BY <1>0, <2>1, <2>2 DEF OverlayTyped
    <2>4. said' = [said EXCEPT ![k] = w] BY <1>0, <2>2 DEF Ingest, OverlayTyped
    <2>. QED BY <1>0, <2>3, <2>4 DEF OverlayTyped
<1>2. removals' \in SUBSET RowKeys /\ deltasOff' \in BOOLEAN /\ edit' \in [RowKeys -> EditValues \cup {NoEdit}]
    BY <1>0 DEF Ingest, OverlayTyped
<1>3. CASE \E i \in HeldOver(k) : StillHeld(overlays[i], v)
    <2>1. PICK i \in HeldOver(k) : /\ overlays' = [overlays EXCEPT ![i].baseline = v]
                                   /\ cells' = [cells EXCEPT ![k] = overlays[i].value]
        BY <1>3 DEF Ingest
    <2>2. i \in DOMAIN overlays /\ overlays[i] \in Overlay BY <1>0, <2>1 DEF HeldOver, OverlayTyped
    <2>3. PICK o : o = [overlays[i] EXCEPT !.baseline = v] OBVIOUS
    <2>4. o \in Overlay /\ o.key = overlays[i].key BY <2>2, <2>3 DEF Overlay
    <2>5. overlays' = [overlays EXCEPT ![i] = o] BY <1>0, <2>1, <2>2, <2>3 DEF OverlayTyped
    <2>6. overlays' \in Seq(Overlay) /\ Len(overlays') = Len(overlays) /\ DOMAIN overlays' = DOMAIN overlays
        BY <1>0, <2>2, <2>4, <2>5, ExceptSeq DEF OverlayTyped
    <2>7. \A j \in DOMAIN overlays : overlays'[j].key = overlays[j].key
        BY <1>0, <2>2, <2>4, <2>5 DEF OverlayTyped
    <2>8. Apart(overlays)' BY <1>0, <2>6, <2>7 DEF Apart, OverlayTyped
    <2>9. cells' \in [RowKeys -> Cells \cup {NoCell}]
        BY <1>0, <2>1, <2>2 DEF OverlayTyped, Overlay, Cells
    <2>. QED BY <1>0, <1>1, <1>2, <2>6, <2>8, <2>9 DEF OverlayTyped
<1>4. CASE ~\E i \in HeldOver(k) : StillHeld(overlays[i], v)
    <2>1. overlays' = Released({k}) /\ cells' = [cells EXCEPT ![k] = v] BY <1>4 DEF Ingest
    <2>2. Left(overlays', overlays, {k}) BY <1>0, <2>1, ReleasedAre DEF Released, OverlayTyped
    <2>3. overlays' \in Seq(Overlay) /\ Apart(overlays') /\ Len(overlays') <= Len(overlays)
        BY <2>2 DEF Left
    <2>4. Len(overlays') \in Nat /\ Len(overlays) \in Nat BY <1>0, <2>3 DEF OverlayTyped
    <2>5. Len(overlays') <= MaxOverlays BY <1>0, <2>3, <2>4, OverlayAssumption DEF OverlayTyped
    <2>6. Apart(overlays)' BY <2>3 DEF Apart
    <2>7. cells' \in [RowKeys -> Cells \cup {NoCell}] BY <1>0, <2>1 DEF OverlayTyped
    <2>. QED BY <1>0, <1>1, <1>2, <2>3, <2>5, <2>6, <2>7 DEF OverlayTyped
<1>. QED BY <1>3, <1>4

\* The row the feed speaks of.
LEMMA NewsShows ==
    ASSUME OverlayInv, NEW k \in RowKeys, NEW v \in Cells, Ingest(k, v)
    PROVE  HeldShows(k)' /\ ReleasedShows(k)'
<1>0. OverlayTyped /\ HeldShows(k) /\ ReleasedShows(k) BY DEF OverlayInv
<1>1. v # NoCell /\ edit'[k] = edit[k] /\ said[k] \in Seq(Cells)
    BY <1>0, OverlayAssumption DEF Ingest, Cells, OverlayTyped
<1>2. edit[k] # NoEdit => said'[k] = Append(said[k], v) BY <1>0 DEF Ingest, OverlayTyped
<1>3. /\ Len(said[k]) \in Nat /\ DOMAIN said[k] = 1 .. Len(said[k])
      /\ Len(Append(said[k], v)) = Len(said[k]) + 1
      /\ DOMAIN Append(said[k], v) = 1 .. (Len(said[k]) + 1)
      /\ Append(said[k], v)[Len(said[k]) + 1] = v
      /\ \A n \in 1 .. Len(said[k]) : Append(said[k], v)[n] = said[k][n]
      /\ Append(said[k], v) # <<>>
      /\ said[k] = <<>> <=> Len(said[k]) = 0
    BY <1>1
<1>4. CASE \E i \in HeldOver(k) : StillHeld(overlays[i], v)
    <2>1. PICK i \in HeldOver(k) : /\ overlays' = [overlays EXCEPT ![i].baseline = v]
                                   /\ cells' = [cells EXCEPT ![k] = overlays[i].value]
        BY <1>4 DEF Ingest
    <2>2. i \in DOMAIN overlays /\ overlays[i].key = k /\ overlays[i] \in Overlay
        BY <1>0, <2>1 DEF HeldOver, OverlayTyped
    <2>3. PICK h \in HeldOver(k) : StillHeld(overlays[h], v) BY <1>4
    <2>4. h = i BY <1>0, <2>2, <2>3 DEF HeldOver, OverlayTyped, Apart
    <2>5. PICK o : o = [overlays[i] EXCEPT !.baseline = v] OBVIOUS
    <2>6. o.key = k /\ o.value = overlays[i].value /\ o.baseline = v BY <2>2, <2>5 DEF Overlay
    <2>7. overlays' = [overlays EXCEPT ![i] = o] BY <1>0, <2>1, <2>2, <2>5 DEF OverlayTyped
    <2>8. /\ DOMAIN overlays' = DOMAIN overlays /\ overlays'[i] = o
          /\ \A j \in DOMAIN overlays : j # i => overlays'[j] = overlays[j]
        BY <1>0, <2>2, <2>7 DEF OverlayTyped
    <2>9. \A j \in DOMAIN overlays' : overlays'[j].key = k => j = i
        BY <1>0, <2>2, <2>8 DEF OverlayTyped, Apart
    <2>10. edit[k] = overlays[i].value /\ edit[k] # NoEdit
        BY <1>0, <2>2, OverlayAssumption DEF HeldShows, Overlay, NoEdit
    <2>11. v # overlays[i].value /\ (overlays[i].baseline = NoCell \/ overlays[i].baseline = v)
        BY <2>3, <2>4 DEF StillHeld, Confirmed, Overruled
    <2>12. SaidOnly(k, v)
        <3>1. CASE overlays[i].baseline = NoCell BY <1>0, <1>3, <2>2, <3>1 DEF HeldShows, SaidOnly
        <3>2. CASE overlays[i].baseline # NoCell BY <1>0, <2>2, <2>11, <3>2 DEF HeldShows
        <3>. QED BY <3>1, <3>2
    <2>13. said'[k] = Append(said[k], v) BY <1>2, <2>10
    <2>14. \A n \in DOMAIN said'[k] : said'[k][n] = v
        <3>1. \A n \in DOMAIN said'[k] : n = Len(said[k]) + 1 \/ n \in DOMAIN said[k] BY <1>3, <2>13
        <3>. QED BY <1>3, <2>12, <2>13, <3>1 DEF SaidOnly
    <2>15. cells'[k] = overlays[i].value BY <1>0, <2>1 DEF OverlayTyped
    <2>16. HeldShows(k)'
        BY <1>1, <1>3, <2>6, <2>8, <2>9, <2>10, <2>11, <2>13, <2>14, <2>15 DEF HeldShows, SaidOnly
    <2>17. ReleasedShows(k)' BY <2>2, <2>6, <2>8 DEF ReleasedShows
    <2>. QED BY <2>16, <2>17
<1>5. CASE ~\E i \in HeldOver(k) : StillHeld(overlays[i], v)
    <2>1. overlays' = Released({k}) /\ cells' = [cells EXCEPT ![k] = v] BY <1>5 DEF Ingest
    <2>2. Left(overlays', overlays, {k}) BY <1>0, <2>1, ReleasedAre DEF Released, OverlayTyped
    <2>3. \A j \in DOMAIN overlays' : overlays'[j].key # k BY <2>2 DEF Left
    <2>4. HeldShows(k)' BY <2>3 DEF HeldShows
    <2>5. cells'[k] = v BY <1>0, <2>1 DEF OverlayTyped
    <2>6. SUFFICES ASSUME edit'[k] # NoEdit
                   PROVE  /\ said'[k] # <<>>
                          /\ cells'[k] \in {said'[k][Len(said'[k])], NoCell}
                          /\ SaidOnly(k, said[k][1])' => said'[k][1] = edit'[k]
        BY <2>4 DEF ReleasedShows
    <2>7. said'[k] = Append(said[k], v) BY <1>1, <1>2, <2>6
    <2>8. said'[k] # <<>> /\ said'[k][Len(said'[k])] = v BY <1>3, <2>7
    <2>9. ASSUME SaidOnly(k, said[k][1])' PROVE said'[k][1] = edit'[k]
        <3>1. \A n \in 1 .. (Len(said[k]) + 1) : Append(said[k], v)[n] = Append(said[k], v)[1]
            BY <1>3, <2>7, <2>9 DEF SaidOnly
        <3>2. Append(said[k], v)[1] = v BY <1>3, <3>1
        <3>3. \A n \in 1 .. Len(said[k]) : said[k][n] = v BY <1>3, <3>1, <3>2
        <3>4. CASE \E i \in DOMAIN overlays : overlays[i].key = k
            <4>1. PICK i \in DOMAIN overlays : overlays[i].key = k BY <3>4
            <4>2. v = overlays[i].value \/ (overlays[i].baseline # NoCell /\ v # overlays[i].baseline)
                BY <1>5, <4>1 DEF HeldOver, StillHeld, Confirmed, Overruled
            <4>3. edit[k] = overlays[i].value BY <1>0, <4>1 DEF HeldShows
            <4>4. ASSUME overlays[i].baseline # NoCell PROVE v = overlays[i].baseline
                <5>1. said[k] # <<>> /\ SaidOnly(k, overlays[i].baseline) BY <1>0, <4>1, <4>4 DEF HeldShows
                <5>2. 1 \in 1 .. Len(said[k]) BY <1>3, <5>1
                <5>. QED BY <1>3, <3>3, <5>1, <5>2 DEF SaidOnly
            <4>. QED BY <1>1, <2>7, <3>2, <4>2, <4>3, <4>4
        <3>5. CASE ~\E i \in DOMAIN overlays : overlays[i].key = k
            <4>1. edit[k] # NoEdit BY <1>1, <2>6
            <4>2. said[k] # <<>> /\ (SaidOnly(k, said[k][1]) => said[k][1] = edit[k])
                BY <1>0, <3>5, <4>1 DEF ReleasedShows
            <4>3. 1 \in 1 .. Len(said[k]) BY <1>3, <4>2
            <4>4. SaidOnly(k, said[k][1]) BY <1>3, <3>3, <4>3 DEF SaidOnly
            <4>. QED BY <1>1, <1>3, <2>7, <4>2, <4>3, <4>4
        <3>. QED BY <3>4, <3>5
    <2>. QED BY <2>5, <2>8, <2>9
<1>. QED BY <1>4, <1>5

\* One case per action.
LEMMA OverlayStep == OverlayInv /\ [OverlayNext]_overlayVars => OverlayInv'
<1>1. SUFFICES ASSUME OverlayInv, [OverlayNext]_overlayVars PROVE OverlayInv' OBVIOUS
<1>0. OverlayTyped /\ \A k \in RowKeys : HeldShows(k) /\ ReleasedShows(k) BY <1>1 DEF OverlayInv
<1>2. ASSUME NEW k \in RowKeys, NEW v \in EditValues, ApplyEdit(k, v) PROVE OverlayInv'
    BY <1>1, <1>2, EditKeeps
<1>3. ASSUME NEW k \in RowKeys, NEW v \in Cells, Ingest(k, v) PROVE OverlayInv'
    BY <1>1, <1>3, NewsTyped, NewsShows, OtherRows DEF OverlayInv
<1>4. ASSUME NEW k \in RowKeys, DeleteRow(k) PROVE OverlayInv'
    <2>1. cells' \in [RowKeys -> Cells \cup {NoCell}] /\ \A x \in RowKeys : x \notin {k} => cells'[x] \in {cells[x], NoCell}
        BY <1>0, <1>4 DEF DeleteRow, OverlayTyped
    <2>2. removals' \in SUBSET RowKeys BY <1>0, <1>4 DEF DeleteRow, OverlayTyped
    <2>3. overlays' = Released({k}) /\ Forget({k}) /\ deltasOff' = deltasOff BY <1>4 DEF DeleteRow
    <2>. QED BY <1>1, <2>1, <2>2, <2>3, ReleaseKeeps
<1>5. ASSUME PollRemovals PROVE OverlayInv'
    <2>1. cells' \in [RowKeys -> Cells \cup {NoCell}] /\ \A x \in RowKeys : x \notin removals => cells'[x] \in {cells[x], NoCell}
        BY <1>0, <1>5 DEF PollRemovals, OverlayTyped
    <2>2. removals' \in SUBSET RowKeys BY <1>5 DEF PollRemovals
    <2>3. overlays' = Released(removals) /\ Forget(removals) /\ deltasOff' = deltasOff BY <1>5 DEF PollRemovals
    <2>. QED BY <1>1, <2>1, <2>2, <2>3, ReleaseKeeps
<1>6. ASSUME Truncate PROVE OverlayInv'
    <2>1. overlays' = overlays /\ edit' = edit /\ said' = said /\ deltasOff' = deltasOff BY <1>6 DEF Truncate
    <2>2. cells' \in [RowKeys -> Cells \cup {NoCell}] /\ \A x \in RowKeys : cells'[x] \in {cells[x], NoCell}
        BY <1>6 DEF Truncate
    <2>3. removals' \in SUBSET RowKeys BY <1>0, <1>6 DEF Truncate, OverlayTyped
    <2>4. OverlayTyped' BY <1>0, <2>1, <2>2, <2>3 DEF OverlayTyped, Apart
    <2>5. ASSUME NEW k \in RowKeys PROVE HeldShows(k)' /\ ReleasedShows(k)' BY <1>0, <2>1, <2>2, SameRow
    <2>. QED BY <2>4, <2>5 DEF OverlayInv
<1>7. ASSUME Reboot PROVE OverlayInv'
    BY <1>0, <1>1, <1>7, EmptyKeeps DEF Reboot, OverlayTyped
<1>8. ASSUME DropTable PROVE OverlayInv'
    <2>1. cells' \in [RowKeys -> Cells \cup {NoCell}] /\ removals' \in SUBSET RowKeys BY <1>8 DEF DropTable
    <2>. QED BY <1>1, <1>8, <2>1, EmptyKeeps DEF DropTable
<1>9. ASSUME UNCHANGED overlayVars PROVE OverlayInv'
    BY <1>0, <1>9 DEF overlayVars, OverlayInv, OverlayTyped, Apart, HeldShows, ReleasedShows, SaidOnly
<1>. QED BY <1>1, <1>2, <1>3, <1>4, <1>5, <1>6, <1>7, <1>8, <1>9 DEF OverlayNext

\* For every book and every cap on the edits: a held edit is shown and is the
\* value the feed has not said, a released one was said or overruled.
THEOREM OverlayInvariance == OverlaySpec => []OverlayInv
BY OverlayStart, OverlayStep, PTL DEF OverlaySpec

\* An edited row shows the edit while the feed says one and the same thing of
\* it, and what the feed said last from then on (applyEdits, ingest).
THEOREM EditsYield == OverlaySpec => []EditsYieldToNews
<1>1. ASSUME OverlayInv PROVE EditsYieldToNews
    <2>1. SUFFICES ASSUME NEW k \in RowKeys, edit[k] # NoEdit, cells[k] # NoCell
                   PROVE  cells[k] = IF \A i \in DOMAIN said[k] : said[k][i] = said[k][1]
                                     THEN edit[k] ELSE said[k][Len(said[k])]
        BY DEF EditsYieldToNews, Last
    <2>2. HeldShows(k) /\ ReleasedShows(k) BY <1>1 DEF OverlayInv
    <2>3. said[k] \in Seq(Cells) BY <1>1 DEF OverlayInv, OverlayTyped
    <2>4. CASE \E i \in DOMAIN overlays : overlays[i].key = k
        <3>1. PICK i \in DOMAIN overlays : overlays[i].key = k BY <2>4
        <3>2. cells[k] = edit[k] BY <2>1, <2>2, <3>1 DEF HeldShows
        <3>3. \A n \in DOMAIN said[k] : said[k][n] = said[k][1]
            <4>1. CASE overlays[i].baseline = NoCell BY <2>2, <2>3, <3>1, <4>1 DEF HeldShows
            <4>2. CASE overlays[i].baseline # NoCell BY <2>2, <2>3, <3>1, <4>2 DEF HeldShows, SaidOnly
            <4>. QED BY <4>1, <4>2
        <3>. QED BY <3>2, <3>3
    <2>5. CASE ~\E i \in DOMAIN overlays : overlays[i].key = k
        <3>1. /\ said[k] # <<>> /\ cells[k] = said[k][Len(said[k])]
              /\ SaidOnly(k, said[k][1]) => said[k][1] = edit[k]
            BY <2>1, <2>2, <2>5 DEF ReleasedShows
        <3>2. Len(said[k]) \in DOMAIN said[k] BY <2>3, <3>1
        <3>. QED BY <3>1, <3>2 DEF SaidOnly
    <2>. QED BY <2>4, <2>5
<1>. QED BY <1>1, OverlayInvariance, PTL

------------------------------------------------------------------------------
(* The views of a plane and the pushes of its engine: nothing is left on one  *)
(* side only, and nothing overtakes.                                         *)

\* The numbers of the deltas, and what the engine keeps for a session.
PushNumbers == 1 .. MaxPushes
EngineSession == [known : BOOLEAN, views : SUBSET EngineViews, said : 0 .. MaxPushes, outbox : Seq(PushNumbers)]

\* The types, as the proof uses them.
PlaneTyped ==
    /\ life \in [PlaneSessions -> {"new", "attached", "detached"}]
    /\ calls \in SUBSET Calls
    /\ subscribed \in SUBSET PlaneSessions
    /\ held \in Seq(HeldView)
    /\ watchViews \in SUBSET WatchView
    /\ engine \in [PlaneSessions -> EngineSession]
    /\ opened \in 0 .. MaxOpened
    /\ pushes \in [PlaneSessions -> Seq(PushNumbers)]
    /\ heard \in [PlaneSessions -> Seq(PushNumbers)]
    /\ revived \in SUBSET PlaneSessions

\* A view has one number, and one owner.
ViewsApart ==
    /\ \A i, j \in DOMAIN held : held[i].view = held[j].view => i = j
    /\ \A v, w \in watchViews : v.view = w.view => v = w
    /\ \A i \in DOMAIN held : \A w \in watchViews : held[i].view # w.view
    /\ \A i \in DOMAIN held : held[i].view <= opened
    /\ \A w \in watchViews : w.view <= opened

\* What a grid has heard of its groups, and what it will hear at the next poll.
Stream(s) == (heard[s] \o pushes[s]) \o engine[s].outbox

\* The first n numbers.
PushCounts(q, n) == Len(q) = n /\ \A i \in 1 .. n : q[i] = i

\* A session that was not detached: its stream is all the engine has said, and
\* the engine says nothing before a request of it has subscribed.
Tells(s) ==
    life[s] # "detached" =>
        /\ PushCounts(Stream(s), engine[s].said)
        /\ s \notin subscribed => engine[s].said = 0 /\ \A c \in calls : c.session = s => ~c.ready
        /\ life[s] = "new" => \A c \in calls : c.session # s

\* The two parts of EngineViewsAreHeld, and that nothing was done for a session
\* that is not attached yet.
EngineHolds(s) == engine[s].views = HeldBy(s) \cup WatchedBy(s)
EngineKnows(s) ==
    /\ engine[s].known => life[s] = "attached" \/ s \in revived
    /\ life[s] = "new" => engine[s].views = {}

\* The sessions do not share views, so what holds of each of them is kept by a
\* step of another.
PlaneInv ==
    /\ PlaneTyped
    /\ ViewsApart
    /\ \A s \in PlaneSessions : EngineHolds(s) /\ EngineKnows(s) /\ Tells(s)

\* What a control message does to the session it names, and that it leaves the
\* others alone.
ControlledSo(s, views) ==
    /\ engine' \in [PlaneSessions -> EngineSession]
    /\ pushes' \in [PlaneSessions -> Seq(PushNumbers)]
    /\ revived' \in SUBSET PlaneSessions
    /\ engine'[s].views = views /\ engine'[s].said = engine[s].said /\ engine'[s].outbox = <<>>
    /\ pushes'[s] = pushes[s] \o engine[s].outbox
    /\ life[s] = "detached" => s \in revived'
    /\ revived \subseteq revived'
    /\ \A x \in PlaneSessions : x # s => engine'[x] = engine[x] /\ pushes'[x] = pushes[x]

\* Controlled does that.
LEMMA ControlledDoes ==
    ASSUME PlaneTyped, NEW s \in PlaneSessions, NEW views \in SUBSET EngineViews, Controlled(s, views)
    PROVE  ControlledSo(s, views)
<1>1. engine[s] \in EngineSession /\ engine[s].outbox \in Seq(PushNumbers) /\ <<>> \in Seq(PushNumbers)
    BY DEF PlaneTyped, EngineSession
<1>2. PICK e : e = [engine[s] EXCEPT !.known = TRUE, !.views = views, !.outbox = <<>>] OBVIOUS
<1>3. e \in EngineSession /\ e.views = views /\ e.said = engine[s].said /\ e.outbox = <<>>
    BY <1>1, <1>2 DEF EngineSession
<1>4. PICK q : q = pushes[s] \o engine[s].outbox OBVIOUS
<1>5. q \in Seq(PushNumbers) BY <1>1, <1>4, ConcatProperties DEF PlaneTyped
<1>6. engine' = [engine EXCEPT ![s] = e] /\ pushes' = [pushes EXCEPT ![s] = q]
    BY <1>2, <1>4 DEF Controlled
<1>7. engine' \in [PlaneSessions -> EngineSession] BY <1>3, <1>6 DEF PlaneTyped
<1>8. pushes' \in [PlaneSessions -> Seq(PushNumbers)] BY <1>5, <1>6 DEF PlaneTyped
<1>9. engine'[s] = e /\ pushes'[s] = q
      /\ \A x \in PlaneSessions : x # s => engine'[x] = engine[x] /\ pushes'[x] = pushes[x]
    BY <1>6 DEF PlaneTyped
<1>10. revived' \in SUBSET PlaneSessions /\ revived \subseteq revived' /\ (life[s] = "detached" => s \in revived')
    BY DEF Controlled, PlaneTyped
<1>. QED BY <1>3, <1>4, <1>7, <1>8, <1>9, <1>10 DEF ControlledSo

\* The stream of a session whose outbox went along with a reply.
LEMMA StreamStays ==
    ASSUME PlaneTyped, NEW s \in PlaneSessions, heard'[s] = heard[s],
           pushes'[s] = pushes[s] \o engine[s].outbox, engine'[s].outbox = <<>>
    PROVE  Stream(s)' = Stream(s)
<1>1. PICK a, b, c : a = heard[s] /\ b = pushes[s] /\ c = engine[s].outbox OBVIOUS
<1>2. a \in Seq(PushNumbers) /\ b \in Seq(PushNumbers) /\ c \in Seq(PushNumbers) BY <1>1 DEF PlaneTyped, EngineSession
<1>3. (a \o b) \o c = a \o (b \o c) BY <1>2, ConcatAssociative
<1>4. b \o c \in Seq(PushNumbers) BY <1>2, ConcatProperties
<1>5. a \o (b \o c) \in Seq(PushNumbers) BY <1>2, <1>4, ConcatProperties
<1>6. (a \o (b \o c)) \o <<>> = a \o (b \o c) BY <1>5, ConcatEmptySeq
<1>. QED BY <1>1, <1>3, <1>6 DEF Stream

\* A session nothing happens to.
LEMMA SameSession ==
    ASSUME NEW s \in PlaneSessions, Tells(s),
           life'[s] = life[s] \/ life'[s] = "detached" \/ (life[s] = "new" /\ life'[s] = "attached"),
           heard'[s] = heard[s], pushes'[s] = pushes[s],
           engine'[s].said = engine[s].said, engine'[s].outbox = engine[s].outbox,
           s \in subscribed => s \in subscribed' \/ life'[s] = "detached",
           \A c \in calls' : c.session = s =>
               c \in calls \/ (life[s] # "new" /\ (~c.ready \/ s \in subscribed'))
    PROVE  Tells(s)'
<1>1. Stream(s)' = Stream(s) BY DEF Stream
<1>. QED BY <1>1 DEF Tells, PushCounts

\* A session whose outbox goes along with a reply.
LEMMA ToldSession ==
    ASSUME PlaneTyped, NEW s \in PlaneSessions, Tells(s), life'[s] = life[s] \/ life'[s] = "detached",
           heard'[s] = heard[s], pushes'[s] = pushes[s] \o engine[s].outbox,
           engine'[s].said = engine[s].said, engine'[s].outbox = <<>>,
           s \in subscribed => s \in subscribed' \/ life'[s] = "detached",
           \A c \in calls' : c.session = s =>
               c \in calls \/ (life[s] # "new" /\ (~c.ready \/ s \in subscribed'))
    PROVE  Tells(s)'
<1>1. Stream(s)' = Stream(s) BY StreamStays
<1>. QED BY <1>1 DEF Tells, PushCounts

\* A control message makes its session known: one that was detached is then
\* among those brought back.
LEMMA ControlledKnows ==
    ASSUME PlaneTyped, NEW s \in PlaneSessions, NEW views, ControlledSo(s, views), life' = life,
           life[s] # "new", \A x \in PlaneSessions : EngineKnows(x)
    PROVE  \A x \in PlaneSessions : EngineKnows(x)'
<1>1. SUFFICES ASSUME NEW x \in PlaneSessions PROVE EngineKnows(x)' OBVIOUS
<1>2. CASE x = s
    <2>1. life[s] \in {"new", "attached", "detached"} BY DEF PlaneTyped
    <2>. QED BY <1>2, <2>1 DEF ControlledSo, EngineKnows
<1>3. CASE x # s BY <1>3 DEF ControlledSo, EngineKnows
<1>. QED BY <1>2, <1>3

\* The request of a session is a request of one that was attached.
LEMMA CallersAreAttached ==
    ASSUME PlaneInv, NEW c \in calls
    PROVE  /\ c \in Calls /\ c.session \in PlaneSessions /\ c.ready \in BOOLEAN
           /\ life[c.session] # "new"
           /\ c.ready => c.session \in subscribed \/ life[c.session] = "detached"
<1>1. c \in Calls BY DEF PlaneInv, PlaneTyped
<1>2. c.session \in PlaneSessions /\ c.ready \in BOOLEAN BY <1>1 DEF Calls
<1>3. Tells(c.session) BY <1>2 DEF PlaneInv
<1>. QED BY <1>1, <1>2, <1>3 DEF Tells

\* t is what is kept of the views when only those in T are.
KeptOf(t, T) ==
    /\ t \in Seq(HeldView)
    /\ \A i, j \in DOMAIN t : t[i].view = t[j].view => i = j
    /\ \A j \in DOMAIN t : t[j] \in T /\ \E i \in DOMAIN held : t[j] = held[i]
    /\ \A i \in DOMAIN held : held[i] \in T => \E j \in DOMAIN t : t[j] = held[i]

\* Numbers that were apart stay apart when some of their views go.
LEMMA KeptViews ==
    ASSUME PlaneTyped, ViewsApart, NEW T
    PROVE  KeptOf(KeepIn(held, T), T)
<1>1. PICK t : t = KeepIn(held, T) OBVIOUS
<1>2. held \in Seq(HeldView) BY DEF PlaneTyped
<1>3. t \in Seq(HeldView) BY <1>1, <1>2, KeptIsPicked
<1>4. PICK f \in [1 .. Len(t) -> Nat] : IsPicked(f, t, held, T) BY <1>1, <1>2, KeptIsPicked
<1>5. DOMAIN t = 1 .. Len(t) /\ DOMAIN held = 1 .. Len(held) /\ Len(t) \in Nat BY <1>2, <1>3
<1>6. /\ \A j \in 1 .. Len(t) : f[j] \in 1 .. Len(held) /\ t[j] = held[f[j]] /\ t[j] \in T
      /\ \A i, j \in 1 .. Len(t) : i < j => f[i] < f[j]
      /\ \A i \in 1 .. Len(held) : held[i] \in T => \E j \in 1 .. Len(t) : f[j] = i
    BY <1>4 DEF IsPicked
<1>7. ASSUME NEW i \in DOMAIN t, NEW j \in DOMAIN t, t[i].view = t[j].view PROVE i = j
    <2>1. f[i] = f[j] BY <1>5, <1>6, <1>7 DEF ViewsApart
    <2>2. i \in Nat /\ j \in Nat /\ f[i] \in Nat /\ f[j] \in Nat BY <1>5
    <2>3. ~(f[i] < f[j]) /\ ~(f[j] < f[i]) BY <2>1, <2>2
    <2>4. ~(i < j) /\ ~(j < i) BY <1>5, <1>6, <2>3
    <2>. QED BY <2>2, <2>4
<1>8. \A j \in DOMAIN t : t[j] \in T /\ \E i \in DOMAIN held : t[j] = held[i] BY <1>5, <1>6
<1>9. ASSUME NEW i \in DOMAIN held, held[i] \in T PROVE \E j \in DOMAIN t : t[j] = held[i]
    <2>1. PICK j \in 1 .. Len(t) : f[j] = i BY <1>5, <1>6, <1>9
    <2>. QED BY <1>5, <1>6, <2>1
<1>. QED BY <1>1, <1>3, <1>7, <1>8, <1>9 DEF KeptOf

\* A step that opens and closes no view.
LEMMA SameViews ==
    ASSUME ViewsApart, held' = held, watchViews' = watchViews, opened' = opened,
           \A x \in PlaneSessions : EngineHolds(x) /\ engine'[x].views = engine[x].views
    PROVE  ViewsApart' /\ \A x \in PlaneSessions : EngineHolds(x)'
BY DEF ViewsApart, EngineHolds, HeldBy, WatchedBy

\* What is in HeldBy.
LEMMA InHeldBy ==
    ASSUME NEW s, NEW v
    PROVE  v \in HeldBy(s) <=> \E i \in DOMAIN held : held[i].session = s /\ held[i].view = v
BY DEF HeldBy

\* What is in WatchedBy.
LEMMA InWatchedBy ==
    ASSUME NEW s, NEW v
    PROVE  v \in WatchedBy(s) <=> \E w \in watchViews : w.session = s /\ w.view = v
BY DEF WatchedBy

-----------------------------------------------------------------------------

\* A group moves: the next number goes to the end of the outbox.
LEMMA GroupsMoveKeeps ==
    ASSUME PlaneInv, NEW s \in PlaneSessions, GroupsMove(s) PROVE PlaneInv'
<1>0. PlaneTyped /\ ViewsApart /\ \A x \in PlaneSessions : EngineHolds(x) /\ EngineKnows(x) /\ Tells(x)
    BY DEF PlaneInv
<1>1. PICK n : n = engine[s].said + 1 OBVIOUS
<1>2. engine[s] \in EngineSession /\ engine[s].outbox \in Seq(PushNumbers) /\ engine[s].said \in 0 .. MaxPushes
    BY <1>0 DEF PlaneTyped, EngineSession
<1>3. n \in PushNumbers /\ n \in 0 .. MaxPushes /\ engine[s].said >= 1
    BY <1>1, <1>2, PlaneAssumption DEF GroupsMove, PushNumbers
<1>4. PICK o : o = Append(engine[s].outbox, n) OBVIOUS
<1>5. o \in Seq(PushNumbers) BY <1>2, <1>3, <1>4, AppendProperties
<1>6. PICK e : e = [engine[s] EXCEPT !.said = n, !.outbox = o] OBVIOUS
<1>7. e \in EngineSession /\ e.said = n /\ e.outbox = o /\ e.views = engine[s].views /\ e.known = engine[s].known
    BY <1>2, <1>3, <1>5, <1>6 DEF EngineSession
<1>8. engine' = [engine EXCEPT ![s] = e] BY <1>1, <1>4, <1>6 DEF GroupsMove
<1>9. engine'[s] = e /\ \A x \in PlaneSessions : x # s => engine'[x] = engine[x] BY <1>0, <1>8 DEF PlaneTyped
<1>10. PlaneTyped'
    <2>1. engine' \in [PlaneSessions -> EngineSession] BY <1>0, <1>7, <1>8 DEF PlaneTyped
    <2>. QED BY <1>0, <2>1 DEF PlaneTyped, GroupsMove
<1>11. ViewsApart' /\ \A x \in PlaneSessions : EngineHolds(x)'
    BY <1>0, <1>7, <1>9, SameViews DEF GroupsMove
<1>12. \A x \in PlaneSessions : EngineKnows(x)' BY <1>0, <1>7, <1>9 DEF EngineKnows, GroupsMove
<1>13. ASSUME NEW x \in PlaneSessions PROVE Tells(x)'
    <2>1. CASE x # s BY <1>0, <1>9, <2>1, SameSession DEF GroupsMove
    <2>2. CASE x = s
        <3>1. SUFFICES ASSUME life[s] # "detached" PROVE Tells(s)' BY <2>2 DEF Tells, GroupsMove
        <3>2. PushCounts(Stream(s), engine[s].said) /\ s \in subscribed BY <1>0, <1>3, <3>1 DEF Tells
        <3>3. PICK a, b : a = heard[s] \o pushes[s] /\ b = Stream(s) OBVIOUS
        <3>4. a \in Seq(PushNumbers) BY <1>0, <3>3, ConcatProperties DEF PlaneTyped
        <3>5. b = a \o engine[s].outbox BY <3>3 DEF Stream
        <3>6. b \in Seq(PushNumbers) BY <1>2, <3>4, <3>5, ConcatProperties
        <3>7. Stream(s)' = Append(b, n)
            <4>1. Stream(s)' = a \o o BY <1>7, <1>9, <3>3 DEF Stream, GroupsMove
            <4>2. o = engine[s].outbox \o <<n>> BY <1>2, <1>3, <1>4, AppendIsConcat
            <4>3. <<n>> \in Seq(PushNumbers) BY <1>3
            <4>4. a \o o = b \o <<n>>
                <5>1. PICK u, w : u = engine[s].outbox /\ w = <<n>> OBVIOUS
                <5>2. u \in Seq(PushNumbers) /\ w \in Seq(PushNumbers) BY <1>2, <4>3, <5>1
                <5>3. (a \o u) \o w = a \o (u \o w) BY <3>4, <5>2, ConcatAssociative
                <5>. QED BY <3>5, <4>2, <5>1, <5>3
            <4>. QED BY <1>3, <3>6, <4>1, <4>4, AppendIsConcat
        <3>8. PushCounts(Append(b, n), n)
            <4>1. Len(b) = engine[s].said /\ \A i \in 1 .. engine[s].said : b[i] = i BY <3>2, <3>3 DEF PushCounts
            <4>2. /\ Len(Append(b, n)) = Len(b) + 1 /\ \A i \in 1 .. Len(b) : Append(b, n)[i] = b[i]
                  /\ Append(b, n)[Len(b) + 1] = n
                BY <1>3, <3>6, AppendProperties
            <4>3. \A i \in 1 .. n : i = n \/ i \in 1 .. engine[s].said BY <1>1, <1>2
            <4>. QED BY <1>1, <1>2, <4>1, <4>2, <4>3 DEF PushCounts
        <3>9. engine'[s].said = n /\ life' = life /\ calls' = calls /\ subscribed' = subscribed
            BY <1>7, <1>9 DEF GroupsMove
        <3>10. PushCounts(Stream(s)', engine'[s].said) BY <3>7, <3>8, <3>9
        <3>. QED BY <1>0, <2>2, <3>1, <3>2, <3>9, <3>10 DEF Tells, PushCounts
    <2>. QED BY <2>1, <2>2
<1>. QED BY <1>10, <1>11, <1>12, <1>13 DEF PlaneInv

\* A grid attaches.
LEMMA AttachKeeps ==
    ASSUME PlaneInv, NEW s \in PlaneSessions, AttachSession(s) PROVE PlaneInv'
<1>0. PlaneTyped /\ ViewsApart /\ \A x \in PlaneSessions : EngineHolds(x) /\ EngineKnows(x) /\ Tells(x)
    BY DEF PlaneInv
<1>1. PICK e : e = [engine[s] EXCEPT !.known = TRUE] OBVIOUS
<1>2. engine[s] \in EngineSession BY <1>0 DEF PlaneTyped
<1>3. e \in EngineSession /\ e.said = engine[s].said /\ e.outbox = engine[s].outbox /\ e.views = engine[s].views
    BY <1>1, <1>2 DEF EngineSession
<1>4. engine' = [engine EXCEPT ![s] = e] BY <1>1 DEF AttachSession
<1>5. engine'[s] = e /\ \A x \in PlaneSessions : x # s => engine'[x] = engine[x] BY <1>0, <1>4 DEF PlaneTyped
<1>6. life'[s] = "attached" /\ \A x \in PlaneSessions : x # s => life'[x] = life[x]
    BY <1>0 DEF PlaneTyped, AttachSession
<1>7. PlaneTyped'
    <2>1. engine' \in [PlaneSessions -> EngineSession] BY <1>0, <1>3, <1>4 DEF PlaneTyped
    <2>. QED BY <1>0, <2>1 DEF PlaneTyped, AttachSession
<1>8. ViewsApart' /\ \A x \in PlaneSessions : EngineHolds(x)'
    BY <1>0, <1>3, <1>5, SameViews DEF AttachSession
<1>9. \A x \in PlaneSessions : EngineKnows(x)' BY <1>0, <1>3, <1>5, <1>6 DEF EngineKnows, AttachSession
<1>10. ASSUME NEW x \in PlaneSessions PROVE Tells(x)'
    BY <1>0, <1>3, <1>5, <1>6, SameSession DEF AttachSession
<1>. QED BY <1>7, <1>8, <1>9, <1>10 DEF PlaneInv

\* A grid leaves: of its views none is left, on either side.
LEMMA DetachKeeps ==
    ASSUME PlaneInv, NEW s \in PlaneSessions, DetachSession(s) PROVE PlaneInv'
<1>0. PlaneTyped /\ ViewsApart /\ \A x \in PlaneSessions : EngineHolds(x) /\ EngineKnows(x) /\ Tells(x)
    BY DEF PlaneInv
<1>1. PICK T : T = {h \in HeldView : h.session # s} OBVIOUS
<1>2. KeptOf(held', T) BY <1>0, <1>1, KeptViews DEF DetachSession
<1>3. /\ held' \in Seq(HeldView)
      /\ \A i, j \in DOMAIN held' : held'[i].view = held'[j].view => i = j
      /\ \A j \in DOMAIN held' : held'[j] \in T /\ \E i \in DOMAIN held : held'[j] = held[i]
      /\ \A i \in DOMAIN held : held[i] \in T => \E j \in DOMAIN held' : held'[j] = held[i]
    BY <1>2 DEF KeptOf
<1>4. \A i \in DOMAIN held : held[i] \in HeldView BY <1>0 DEF PlaneTyped
<1>5. /\ life' = [life EXCEPT ![s] = "detached"] /\ subscribed' = subscribed \ {s}
      /\ watchViews' = {w \in watchViews : w.session # s}
      /\ engine' = [engine EXCEPT ![s] = Unknown]
      /\ pushes' = IF engine[s].views = {} THEN pushes
                   ELSE [pushes EXCEPT ![s] = pushes[s] \o engine[s].outbox]
      /\ calls' = calls /\ opened' = opened /\ heard' = heard /\ revived' = revived
    BY DEF DetachSession
<1>6. Unknown \in EngineSession /\ Unknown.views = {} /\ Unknown.known = FALSE
    BY PlaneAssumption DEF Unknown, EngineSession
<1>7. engine'[s] = Unknown /\ life'[s] = "detached"
      /\ \A x \in PlaneSessions : x # s => engine'[x] = engine[x] /\ life'[x] = life[x] /\ pushes'[x] = pushes[x]
    BY <1>0, <1>5 DEF PlaneTyped
<1>8. PlaneTyped'
    <2>1. engine' \in [PlaneSessions -> EngineSession] BY <1>0, <1>5, <1>6 DEF PlaneTyped
    <2>2. PICK q : q = pushes[s] \o engine[s].outbox OBVIOUS
    <2>3. q \in Seq(PushNumbers) BY <1>0, <2>2, ConcatProperties DEF PlaneTyped, EngineSession
    <2>4. pushes' \in [PlaneSessions -> Seq(PushNumbers)] BY <1>0, <1>5, <2>2, <2>3 DEF PlaneTyped
    <2>. QED BY <1>0, <1>3, <1>5, <2>1, <2>4 DEF PlaneTyped
<1>9. ViewsApart' BY <1>0, <1>3, <1>5 DEF ViewsApart
<1>10. ASSUME NEW x \in PlaneSessions PROVE EngineHolds(x)'
    <2>1. CASE x = s
        <3>1. HeldBy(s)' = {} BY <1>1, <1>3 DEF HeldBy
        <3>2. WatchedBy(s)' = {} BY <1>5 DEF WatchedBy
        <3>. QED BY <1>6, <1>7, <2>1, <3>1, <3>2 DEF EngineHolds
    <2>2. CASE x # s
        <3>1. \A v : v \in HeldBy(x)' <=> v \in HeldBy(x)
            <4>1. \A i \in DOMAIN held : held[i].session = x => held[i] \in T BY <1>1, <1>4, <2>2
            <4>. QED BY <1>3, <4>1, <2>2 DEF HeldBy
        <3>2. \A v : v \in WatchedBy(x)' <=> v \in WatchedBy(x) BY <1>5, <2>2 DEF WatchedBy
        <3>. QED BY <1>0, <1>7, <2>2, <3>1, <3>2 DEF EngineHolds
    <2>. QED BY <2>1, <2>2
<1>11. \A x \in PlaneSessions : EngineKnows(x)' BY <1>0, <1>5, <1>6, <1>7 DEF EngineKnows
<1>12. ASSUME NEW x \in PlaneSessions PROVE Tells(x)'
    <2>1. CASE x = s BY <1>7, <2>1 DEF Tells
    <2>2. CASE x # s BY <1>0, <1>5, <1>7, <2>2, SameSession
    <2>. QED BY <2>1, <2>2
<1>. QED BY <1>8, <1>9, <1>10, <1>11, <1>12 DEF PlaneInv

\* A new boot of the provider drops every view.
LEMMA BootKeeps ==
    ASSUME PlaneInv, Boot PROVE PlaneInv'
<1>0. PlaneTyped /\ ViewsApart /\ \A x \in PlaneSessions : EngineHolds(x) /\ EngineKnows(x) /\ Tells(x)
    BY DEF PlaneInv
<1>1. ASSUME NEW s \in PlaneSessions
      PROVE  /\ engine'[s] \in EngineSession /\ engine'[s].views = {}
             /\ engine'[s].known = engine[s].known /\ engine'[s].said = engine[s].said
             /\ pushes'[s] \in Seq(PushNumbers)
             /\ \/ pushes'[s] = pushes[s] /\ engine'[s].outbox = engine[s].outbox
                \/ pushes'[s] = pushes[s] \o engine[s].outbox /\ engine'[s].outbox = <<>>
    <2>1. engine[s] \in EngineSession /\ pushes[s] \in Seq(PushNumbers) /\ engine[s].outbox \in Seq(PushNumbers)
        BY <1>0 DEF PlaneTyped, EngineSession
    <2>2. CASE engine[s].views = {} BY <2>1, <2>2 DEF Boot
    <2>3. CASE engine[s].views # {}
        <3>1. engine'[s] = [engine[s] EXCEPT !.views = {}, !.outbox = <<>>] /\ pushes'[s] = pushes[s] \o engine[s].outbox
            BY <2>3 DEF Boot
        <3>2. PICK e : e = [engine[s] EXCEPT !.views = {}, !.outbox = <<>>] OBVIOUS
        <3>3. <<>> \in Seq(PushNumbers) OBVIOUS
        <3>4. e \in EngineSession /\ e.views = {} /\ e.known = engine[s].known /\ e.said = engine[s].said /\ e.outbox = <<>>
            BY <2>1, <3>2, <3>3 DEF EngineSession
        <3>5. pushes'[s] \in Seq(PushNumbers) BY <2>1, <3>1, ConcatProperties
        <3>. QED BY <3>1, <3>2, <3>4, <3>5
    <2>. QED BY <2>2, <2>3
<1>2. PlaneTyped'
    <2>1. engine' \in [PlaneSessions -> EngineSession]
        <3>1. engine' = [s \in PlaneSessions |-> engine'[s]] BY DEF Boot
        <3>. QED BY <1>1, <3>1
    <2>2. pushes' \in [PlaneSessions -> Seq(PushNumbers)]
        <3>1. pushes' = [s \in PlaneSessions |-> pushes'[s]] BY DEF Boot
        <3>. QED BY <1>1, <3>1
    <2>3. <<>> \in Seq(HeldView) OBVIOUS
    <2>. QED BY <1>0, <2>1, <2>2, <2>3 DEF PlaneTyped, Boot
<1>3. ViewsApart'
    <2>1. held' = <<>> /\ watchViews' = {} BY DEF Boot
    <2>2. DOMAIN held' = {} BY <2>1
    <2>. QED BY <2>1, <2>2 DEF ViewsApart
<1>4. ASSUME NEW x \in PlaneSessions PROVE EngineHolds(x)' /\ EngineKnows(x)'
    <2>1. held' = <<>> /\ watchViews' = {} /\ life' = life /\ revived' = revived BY DEF Boot
    <2>2. HeldBy(x)' = {} /\ WatchedBy(x)' = {} BY <2>1 DEF HeldBy, WatchedBy
    <2>. QED BY <1>0, <1>1, <2>1, <2>2 DEF EngineHolds, EngineKnows
<1>5. ASSUME NEW x \in PlaneSessions PROVE Tells(x)'
    <2>1. life' = life /\ heard' = heard /\ subscribed' = subscribed /\ calls' = calls BY DEF Boot
    <2>. QED BY <1>0, <1>1, <2>1, SameSession, ToldSession
<1>. QED BY <1>2, <1>3, <1>4, <1>5 DEF PlaneInv

\* A request of a session that is attached.
LEMMA RequestKeeps ==
    ASSUME PlaneInv, NEW s \in PlaneSessions, Request(s) PROVE PlaneInv'
<1>0. PlaneTyped /\ ViewsApart /\ \A x \in PlaneSessions : EngineHolds(x) /\ EngineKnows(x) /\ Tells(x)
    BY DEF PlaneInv
<1>1. PICK c \in Calls : c.session = s /\ ~c.ready /\ calls' = calls \cup {c} BY DEF Request
<1>2. life[s] = "attached" BY DEF Request
<1>3. PlaneTyped' BY <1>0, <1>1 DEF PlaneTyped, Request
<1>4. ViewsApart' /\ \A x \in PlaneSessions : EngineHolds(x)' BY <1>0, SameViews DEF Request
<1>5. \A x \in PlaneSessions : EngineKnows(x)' BY <1>0 DEF EngineKnows, Request
<1>6. ASSUME NEW x \in PlaneSessions PROVE Tells(x)'
    BY <1>0, <1>1, <1>2, SameSession DEF Request
<1>. QED BY <1>3, <1>4, <1>5, <1>6 DEF PlaneInv

\* What every reply changes of the sessions: the outbox moves to the pushes.
LEMMA ReplyKeeps ==
    ASSUME PlaneInv, NEW s \in PlaneSessions, NEW views \in SUBSET EngineViews, Controlled(s, views),
           life[s] # "new", life' = life, heard' = heard, subscribed \subseteq subscribed',
           \A c \in calls' : c \in calls \/ (c.session = s /\ s \in subscribed')
    PROVE  ControlledSo(s, views) /\ \A x \in PlaneSessions : EngineKnows(x)' /\ Tells(x)'
<1>0. PlaneTyped /\ \A x \in PlaneSessions : EngineHolds(x) /\ EngineKnows(x) /\ Tells(x)
    BY DEF PlaneInv
<1>1. ControlledSo(s, views) BY <1>0, ControlledDoes
<1>2. \A x \in PlaneSessions : EngineKnows(x)' BY <1>0, <1>1, ControlledKnows
<1>3. ASSUME NEW x \in PlaneSessions PROVE Tells(x)'
    <2>1. CASE x = s
        <3>1. /\ pushes'[s] = pushes[s] \o engine[s].outbox /\ engine'[s].said = engine[s].said
              /\ engine'[s].outbox = <<>>
            BY <1>1 DEF ControlledSo
        <3>. QED BY <1>0, <2>1, <3>1, ToldSession
    <2>2. CASE x # s
        <3>1. engine'[x] = engine[x] /\ pushes'[x] = pushes[x] BY <1>1, <2>2 DEF ControlledSo
        <3>. QED BY <1>0, <2>2, <3>1, SameSession
    <2>. QED BY <2>1, <2>2
<1>. QED BY <1>1, <1>2, <1>3

\* The first request of a session subscribes it.
LEMMA SubscribeKeeps ==
    ASSUME PlaneInv, NEW c \in calls, EnsureSubscribed(c) PROVE PlaneInv'
<1>0. PlaneTyped /\ ViewsApart /\ \A x \in PlaneSessions : EngineHolds(x) /\ EngineKnows(x) /\ Tells(x)
    BY DEF PlaneInv
<1>1. PICK s : s = c.session OBVIOUS
<1>2. c \in Calls /\ s \in PlaneSessions /\ life[s] # "new" BY <1>1, CallersAreAttached
<1>3. PICK d : d = [c EXCEPT !.ready = TRUE] OBVIOUS
<1>4. d \in Calls /\ d.session = s BY <1>1, <1>2, <1>3 DEF Calls
<1>5. calls' = (calls \ {c}) \cup {d} BY <1>3 DEF EnsureSubscribed
<1>6. /\ life' = life /\ held' = held /\ watchViews' = watchViews /\ opened' = opened /\ heard' = heard
    BY DEF EnsureSubscribed
<1>7. calls' \in SUBSET Calls BY <1>0, <1>4, <1>5 DEF PlaneTyped
<1>8. CASE s \in subscribed
    <2>1. subscribed' = subscribed /\ engine' = engine /\ pushes' = pushes /\ revived' = revived
        BY <1>1, <1>8 DEF EnsureSubscribed
    <2>2. PlaneTyped' BY <1>0, <1>6, <1>7, <2>1 DEF PlaneTyped
    <2>3. ViewsApart' /\ \A x \in PlaneSessions : EngineHolds(x)' BY <1>0, <1>6, <2>1, SameViews
    <2>4. \A x \in PlaneSessions : EngineKnows(x)' BY <1>0, <1>6, <2>1 DEF EngineKnows
    <2>5. \A x \in PlaneSessions : Tells(x)'
        BY <1>0, <1>2, <1>4, <1>5, <1>6, <1>8, <2>1, SameSession
    <2>. QED BY <2>2, <2>3, <2>4, <2>5 DEF PlaneInv
<1>9. CASE s \notin subscribed
    <2>1. subscribed' = subscribed \cup {s} /\ Controlled(s, engine[s].views)
        BY <1>1, <1>9 DEF EnsureSubscribed
    <2>2. engine[s].views \in SUBSET EngineViews BY <1>0, <1>2 DEF PlaneTyped, EngineSession
    <2>3. \A d2 \in calls' : d2 \in calls \/ (d2.session = s /\ s \in subscribed')
        BY <1>4, <1>5, <2>1
    <2>4. ControlledSo(s, engine[s].views) /\ \A x \in PlaneSessions : EngineKnows(x)' /\ Tells(x)'
        BY <1>2, <1>6, <2>1, <2>2, <2>3, ReplyKeeps
    <2>5. \A x \in PlaneSessions : engine'[x].views = engine[x].views BY <2>4 DEF ControlledSo
    <2>6. ViewsApart' /\ \A x \in PlaneSessions : EngineHolds(x)' BY <1>0, <1>6, <2>5, SameViews
    <2>7. PlaneTyped' BY <1>0, <1>2, <1>6, <1>7, <2>1, <2>4 DEF PlaneTyped, ControlledSo
    <2>. QED BY <2>4, <2>6, <2>7 DEF PlaneInv
<1>. QED BY <1>8, <1>9

\* A request that opens nothing.
LEMMA AggregatesKeep ==
    ASSUME PlaneInv, NEW c \in calls, GetAggregates(c) PROVE PlaneInv'
<1>0. PlaneTyped /\ ViewsApart /\ \A x \in PlaneSessions : EngineHolds(x) /\ EngineKnows(x) /\ Tells(x)
    BY DEF PlaneInv
<1>1. PICK s : s = c.session OBVIOUS
<1>2. s \in PlaneSessions /\ life[s] # "new" BY <1>1, CallersAreAttached
<1>3. /\ Controlled(s, engine[s].views) /\ calls' = calls \ {c}
      /\ life' = life /\ subscribed' = subscribed /\ held' = held /\ watchViews' = watchViews
      /\ opened' = opened /\ heard' = heard
    BY <1>1 DEF GetAggregates
<1>4. engine[s].views \in SUBSET EngineViews BY <1>0, <1>2 DEF PlaneTyped, EngineSession
<1>5. ControlledSo(s, engine[s].views) /\ \A x \in PlaneSessions : EngineKnows(x)' /\ Tells(x)'
    BY <1>2, <1>3, <1>4, ReplyKeeps
<1>6. \A x \in PlaneSessions : engine'[x].views = engine[x].views BY <1>5 DEF ControlledSo
<1>7. ViewsApart' /\ \A x \in PlaneSessions : EngineHolds(x)' BY <1>0, <1>3, <1>6, SameViews
<1>8. PlaneTyped' BY <1>0, <1>3, <1>5 DEF PlaneTyped, ControlledSo
<1>. QED BY <1>5, <1>7, <1>8 DEF PlaneInv

\* A view that is read again goes to the young end, perhaps as another kind.
LEMMA ReadHeldKeeps ==
    ASSUME PlaneInv, NEW c \in calls, ReadHeld(c) PROVE PlaneInv'
<1>0. PlaneTyped /\ ViewsApart /\ \A x \in PlaneSessions : EngineHolds(x) /\ EngineKnows(x) /\ Tells(x)
    BY DEF PlaneInv
<1>1. PICK s : s = c.session OBVIOUS
<1>2. s \in PlaneSessions /\ life[s] # "new" BY <1>1, CallersAreAttached
<1>3. PICK i \in At(c) :
          \E kind : /\ kind = (IF c.op = "block" THEN "block" ELSE held[i].kind)
                    /\ held' = Append(RemoveAt(held, i), [held[i] EXCEPT !.kind = kind])
    BY DEF ReadHeld
<1>23. PICK kind : /\ kind = (IF c.op = "block" THEN "block" ELSE held[i].kind)
                   /\ held' = Append(RemoveAt(held, i), [held[i] EXCEPT !.kind = kind])
    BY <1>3
<1>4. /\ Controlled(s, engine[s].views) /\ calls' = calls \ {c}
      /\ life' = life /\ subscribed' = subscribed /\ watchViews' = watchViews
      /\ opened' = opened /\ heard' = heard
    BY <1>1 DEF ReadHeld
<1>5. engine[s].views \in SUBSET EngineViews BY <1>0, <1>2 DEF PlaneTyped, EngineSession
<1>6. ControlledSo(s, engine[s].views) /\ \A x \in PlaneSessions : EngineKnows(x)' /\ Tells(x)'
    BY <1>2, <1>4, <1>5, ReplyKeeps
<1>7. held \in Seq(HeldView) /\ i \in DOMAIN held /\ held[i] \in HeldView BY <1>0, <1>3 DEF PlaneTyped, At
<1>8. PICK o : o = [held[i] EXCEPT !.kind = kind] OBVIOUS
<1>9. o \in HeldView /\ o.session = held[i].session /\ o.view = held[i].view
    BY <1>23, <1>7, <1>8 DEF HeldView, Kinds
<1>10. PICK t : t = RemoveAt(held, i) OBVIOUS
<1>11. /\ t \in Seq(HeldView) /\ Len(t) = Len(held) - 1
       /\ \A j \in 1 .. Len(t) : t[j] = held[IF j < i THEN j ELSE j + 1]
    BY <1>7, <1>10, RemovedAt
<1>12. held' = Append(t, o) BY <1>23, <1>8, <1>10
<1>13. held' \in Seq(HeldView) BY <1>9, <1>11, <1>12, AppendProperties
<1>14. /\ Len(held) \in Nat /\ Len(t) \in Nat /\ i \in 1 .. Len(held)
       /\ DOMAIN held = 1 .. Len(held) /\ DOMAIN held' = 1 .. Len(held) /\ DOMAIN t = 1 .. Len(t)
       /\ held'[Len(held)] = o /\ \A j \in 1 .. Len(t) : held'[j] = t[j]
    BY <1>7, <1>9, <1>11, <1>12
<1>15. PICK g : g = [j \in 1 .. Len(held) |-> IF j = Len(held) THEN i ELSE IF j < i THEN j ELSE j + 1] OBVIOUS
<1>16. ASSUME NEW j \in 1 .. Len(held)
       PROVE  g[j] \in 1 .. Len(held) /\ held'[j].view = held[g[j]].view /\ held'[j].session = held[g[j]].session
    <2>1. CASE j = Len(held) BY <1>9, <1>14, <1>15, <2>1
    <2>2. CASE j # Len(held)
        <3>1. j \in 1 .. Len(t) /\ g[j] = (IF j < i THEN j ELSE j + 1) BY <1>11, <1>14, <1>15, <2>2
        <3>2. held'[j] = held[g[j]] BY <1>11, <1>14, <3>1
        <3>3. g[j] \in 1 .. Len(held) BY <1>11, <1>14, <3>1
        <3>. QED BY <3>2, <3>3
    <2>. QED BY <2>1, <2>2
<1>22. Len(held) \in Nat /\ i \in 1 .. Len(held)
       /\ \A j \in 1 .. Len(held) : g[j] = IF j = Len(held) THEN i ELSE IF j < i THEN j ELSE j + 1
    BY <1>14, <1>15
<1>17. \A j, m \in 1 .. Len(held) : g[j] = g[m] => j = m BY <1>22
<1>18. ASSUME NEW n \in 1 .. Len(held) PROVE \E j \in 1 .. Len(held) : g[j] = n
    <2>1. CASE n = i
        <3>1. Len(held) \in 1 .. Len(held) BY <1>22
        <3>. QED BY <1>22, <2>1, <3>1
    <2>2. CASE n < i
        <3>1. n # Len(held) BY <1>22, <2>2
        <3>. QED BY <1>22, <2>2, <3>1
    <2>3. CASE n > i
        <3>1. n - 1 \in 1 .. Len(held) /\ n - 1 # Len(held) /\ ~(n - 1 < i) /\ (n - 1) + 1 = n
            BY <1>22, <2>3
        <3>. QED BY <1>22, <3>1
    <2>. QED BY <1>22, <2>1, <2>2, <2>3
<1>19. ViewsApart'
    <2>1. \A j, m \in DOMAIN held' : held'[j].view = held'[m].view => j = m
        BY <1>0, <1>14, <1>16, <1>17 DEF ViewsApart
    <2>2. \A j \in DOMAIN held' : held'[j].view <= opened /\ \A w \in watchViews : held'[j].view # w.view
        BY <1>0, <1>14, <1>16 DEF ViewsApart
    <2>. QED BY <1>0, <1>4, <2>1, <2>2 DEF ViewsApart
<1>20. ASSUME NEW x \in PlaneSessions PROVE EngineHolds(x)'
    <2>1. ASSUME NEW v PROVE v \in HeldBy(x)' <=> v \in HeldBy(x)
        <3>1. ASSUME v \in HeldBy(x)' PROVE v \in HeldBy(x)
            <4>1. PICK j \in DOMAIN held' : held'[j].session = x /\ held'[j].view = v BY <3>1 DEF HeldBy
            <4>2. g[j] \in DOMAIN held /\ held[g[j]].session = x /\ held[g[j]].view = v BY <1>14, <1>16, <4>1
            <4>. QED BY <4>2 DEF HeldBy
        <3>2. ASSUME v \in HeldBy(x) PROVE v \in HeldBy(x)'
            <4>1. PICK n \in DOMAIN held : held[n].session = x /\ held[n].view = v BY <3>2 DEF HeldBy
            <4>2. PICK j \in 1 .. Len(held) : g[j] = n BY <1>14, <1>18, <4>1
            <4>3. j \in DOMAIN held' /\ held'[j].session = x /\ held'[j].view = v BY <1>14, <1>16, <4>1, <4>2
            <4>. QED BY <4>3 DEF HeldBy
        <3>. QED BY <3>1, <3>2
    <2>2. WatchedBy(x)' = WatchedBy(x) BY <1>4 DEF WatchedBy
    <2>3. engine'[x].views = engine[x].views BY <1>6 DEF ControlledSo
    <2>. QED BY <1>0, <2>1, <2>2, <2>3 DEF EngineHolds
<1>21. PlaneTyped' BY <1>0, <1>4, <1>6, <1>13 DEF PlaneTyped, ControlledSo
<1>. QED BY <1>6, <1>19, <1>20, <1>21 DEF PlaneInv

\* A new view has a new number, and the views it evicts go on both sides.
LEMMA ReadOpensKeeps ==
    ASSUME PlaneInv, NEW c \in calls, ReadOpens(c) PROVE PlaneInv'
<1>0. PlaneTyped /\ ViewsApart /\ \A x \in PlaneSessions : EngineHolds(x) /\ EngineKnows(x) /\ Tells(x)
    BY DEF PlaneInv
<1>1. PICK s : s = c.session OBVIOUS
<1>2. c \in Calls /\ s \in PlaneSessions /\ life[s] # "new" BY <1>1, CallersAreAttached
<1>3. PICK gone, T, new :
          /\ gone \subseteq HeldBy(s)
          /\ T = {h \in HeldView : h.view \notin gone}
          /\ new = [session |-> s, spec |-> c.spec, view |-> opened + 1, kind |-> c.op]
          /\ held' = Append(KeepIn(held, T), new)
          /\ Controlled(s, (engine[s].views \ gone) \cup {opened + 1})
    <2>0. PICK mine, extra, out, gone :
              /\ mine = Of(s, c.op)
              /\ extra = (IF Cardinality(mine) + 1 > Cap(c.op) THEN Cardinality(mine) + 1 - Cap(c.op) ELSE 0)
              /\ out = {i \in mine : Cardinality({j \in mine : j < i}) < extra}
              /\ gone = {held[i].view : i \in out}
        OBVIOUS
    <2>1. /\ held' = Append(KeepIn(held, {h \in HeldView : h.view \notin gone}),
                             [session |-> s, spec |-> c.spec, view |-> opened + 1, kind |-> c.op])
          /\ Controlled(s, (engine[s].views \ gone) \cup {opened + 1})
        BY <1>1, <2>0 DEF ReadOpens
    <2>2. \A i \in out : i \in DOMAIN held /\ held[i].session = s BY <2>0 DEF Of
    <2>3. gone \subseteq HeldBy(s) BY <2>0, <2>2 DEF HeldBy
    <2>. QED BY <2>1, <2>3
<1>4. /\ calls' = calls \ {c} /\ c.op \in Kinds /\ opened < MaxOpened /\ opened' = opened + 1
      /\ life' = life /\ subscribed' = subscribed /\ watchViews' = watchViews /\ heard' = heard
    BY DEF ReadOpens
<1>5. opened \in Nat /\ opened + 1 \in EngineViews /\ opened' \in 0 .. MaxOpened
    BY <1>0, <1>4, PlaneAssumption DEF PlaneTyped, EngineViews
<1>6. PICK views : views = (engine[s].views \ gone) \cup {opened + 1} OBVIOUS
<1>7. views \in SUBSET EngineViews BY <1>0, <1>2, <1>5, <1>6 DEF PlaneTyped, EngineSession
<1>8. ControlledSo(s, views) /\ \A x \in PlaneSessions : EngineKnows(x)' /\ Tells(x)'
    BY <1>2, <1>3, <1>4, <1>6, <1>7, ReplyKeeps
<1>9. new \in HeldView /\ new.session = s /\ new.view = opened + 1
    <2>1. c.spec \in Specs BY <1>2, <1>4 DEF Calls, Kinds
    <2>. QED BY <1>2, <1>3, <1>4, <1>5, <2>1 DEF HeldView
<1>10. PICK t : t = KeepIn(held, T) OBVIOUS
<1>11. KeptOf(t, T) BY <1>0, <1>10, KeptViews
<1>12. /\ t \in Seq(HeldView)
       /\ \A i, j \in DOMAIN t : t[i].view = t[j].view => i = j
       /\ \A j \in DOMAIN t : t[j] \in T /\ \E i \in DOMAIN held : t[j] = held[i]
       /\ \A i \in DOMAIN held : held[i] \in T => \E j \in DOMAIN t : t[j] = held[i]
    BY <1>11 DEF KeptOf
<1>13. held' = Append(t, new) BY <1>3, <1>10
<1>14. /\ held' \in Seq(HeldView) /\ Len(t) \in Nat /\ DOMAIN t = 1 .. Len(t)
       /\ DOMAIN held' = 1 .. (Len(t) + 1)
       /\ held'[Len(t) + 1] = new /\ \A j \in 1 .. Len(t) : held'[j] = t[j]
    <2>1. held' \in Seq(HeldView) BY <1>9, <1>12, <1>13, AppendProperties
    <2>. QED BY <1>9, <1>12, <1>13, <2>1
<1>15. \A i \in DOMAIN held : held[i] \in HeldView /\ held[i].view \in Nat /\ held[i].view < opened + 1
    <2>1. \A i \in DOMAIN held : held[i] \in HeldView BY <1>0 DEF PlaneTyped
    <2>2. \A h \in HeldView : h.view \in Nat BY DEF HeldView, EngineViews
    <2>. QED BY <1>0, <1>5, <2>1, <2>2 DEF ViewsApart
<1>16. \A w \in watchViews : w.view \in Nat /\ w.view < opened + 1
    <2>1. \A w \in watchViews : w.view \in Nat BY <1>0 DEF PlaneTyped, WatchView, EngineViews
    <2>. QED BY <1>0, <1>5, <2>1 DEF ViewsApart
<1>17. \A j \in 1 .. (Len(t) + 1) : j = Len(t) + 1 \/ j \in 1 .. Len(t) BY <1>14
<1>18. \A j \in 1 .. Len(t) : \E i \in DOMAIN held : held'[j] = held[i] /\ held[i] \in T
    BY <1>12, <1>14
<1>19. ViewsApart'
    <2>1. ASSUME NEW j \in DOMAIN held', NEW m \in DOMAIN held', held'[j].view = held'[m].view PROVE j = m
        <3>1. CASE j = Len(t) + 1 /\ m = Len(t) + 1 BY <3>1
        <3>2. CASE j = Len(t) + 1 /\ m \in 1 .. Len(t) BY <1>5, <1>9, <1>14, <1>15, <1>18, <2>1, <3>2
        <3>3. CASE j \in 1 .. Len(t) /\ m = Len(t) + 1 BY <1>5, <1>9, <1>14, <1>15, <1>18, <2>1, <3>3
        <3>4. CASE j \in 1 .. Len(t) /\ m \in 1 .. Len(t) BY <1>12, <1>14, <2>1, <3>4
        <3>. QED BY <1>14, <1>17, <3>1, <3>2, <3>3, <3>4
    <2>2. ASSUME NEW j \in DOMAIN held'
          PROVE  held'[j].view <= opened' /\ \A w \in watchViews : held'[j].view # w.view
        <3>1. CASE j = Len(t) + 1 BY <1>4, <1>5, <1>9, <1>14, <1>16, <3>1
        <3>2. CASE j \in 1 .. Len(t)
            <4>1. PICK i \in DOMAIN held : held'[j] = held[i] BY <1>18, <3>2
            <4>2. held[i].view <= opened' BY <1>4, <1>5, <1>15
            <4>. QED BY <1>0, <4>1, <4>2 DEF ViewsApart
        <3>. QED BY <1>14, <1>17, <3>1, <3>2
    <2>3. \A w \in watchViews : w.view <= opened' BY <1>4, <1>5, <1>16
    <2>. QED BY <1>0, <1>4, <2>1, <2>2, <2>3 DEF ViewsApart
<1>20. ASSUME NEW x \in PlaneSessions PROVE EngineHolds(x)'
    <2>1. WatchedBy(x)' = WatchedBy(x) BY <1>4 DEF WatchedBy
    <2>2. ASSUME NEW v PROVE v \in HeldBy(x)' <=> (v \in HeldBy(x) /\ v \notin gone) \/ (x = s /\ v = opened + 1)
        <3>1. ASSUME v \in HeldBy(x)' PROVE (v \in HeldBy(x) /\ v \notin gone) \/ (x = s /\ v = opened + 1)
            <4>1. PICK j \in DOMAIN held' : held'[j].session = x /\ held'[j].view = v BY <3>1 DEF HeldBy
            <4>2. CASE j = Len(t) + 1 BY <1>9, <1>14, <4>1, <4>2
            <4>3. CASE j \in 1 .. Len(t)
                <5>1. PICK i \in DOMAIN held : held'[j] = held[i] /\ held[i] \in T BY <1>18, <4>3
                <5>. QED BY <1>3, <4>1, <5>1 DEF HeldBy
            <4>. QED BY <1>14, <1>17, <4>1, <4>2, <4>3
        <3>2. ASSUME v \in HeldBy(x), v \notin gone PROVE v \in HeldBy(x)'
            <4>1. PICK i \in DOMAIN held : held[i].session = x /\ held[i].view = v BY <3>2 DEF HeldBy
            <4>2. held[i] \in T BY <1>3, <1>15, <3>2, <4>1
            <4>3. PICK j \in DOMAIN t : t[j] = held[i] BY <1>12, <4>2
            <4>4. j \in DOMAIN held' /\ held'[j] = held[i] BY <1>14, <4>3
            <4>. QED BY <4>1, <4>4 DEF HeldBy
        <3>3. ASSUME x = s, v = opened + 1 PROVE v \in HeldBy(x)'
            <4>1. Len(t) + 1 \in DOMAIN held' BY <1>14
            <4>. QED BY <1>9, <1>14, <3>3, <4>1 DEF HeldBy
        <3>. QED BY <3>1, <3>2, <3>3
    <2>3. CASE x = s
        <3>1. \A v \in gone : v \notin WatchedBy(s)
            BY <1>0, <1>3 DEF HeldBy, WatchedBy, ViewsApart
        <3>2. engine'[s].views = views BY <1>8 DEF ControlledSo
        <3>. QED BY <1>0, <1>2, <1>6, <2>1, <2>2, <2>3, <3>1, <3>2 DEF EngineHolds
    <2>4. CASE x # s
        <3>1. \A v \in gone : v \notin HeldBy(x)
            BY <1>0, <1>3, <2>4 DEF HeldBy, ViewsApart
        <3>2. engine'[x].views = engine[x].views BY <1>8, <2>4 DEF ControlledSo
        <3>. QED BY <1>0, <2>1, <2>2, <2>4, <3>1, <3>2 DEF EngineHolds
    <2>. QED BY <2>3, <2>4
<1>21. PlaneTyped' BY <1>0, <1>4, <1>5, <1>8, <1>14 DEF PlaneTyped, ControlledSo
<1>. QED BY <1>8, <1>19, <1>20, <1>21 DEF PlaneInv

\* A new watch has a new number, and the one it replaces goes on both sides.
LEMMA WatchKeeps ==
    ASSUME PlaneInv, NEW c \in calls, Watch(c) PROVE PlaneInv'
<1>0. PlaneTyped /\ ViewsApart /\ \A x \in PlaneSessions : EngineHolds(x) /\ EngineKnows(x) /\ Tells(x)
    BY DEF PlaneInv
<1>1. PICK s : s = c.session OBVIOUS
<1>2. c \in Calls /\ s \in PlaneSessions /\ life[s] # "new" BY <1>1, CallersAreAttached
<1>3. PICK old, gone, new, views :
          /\ old = {w \in watchViews : w.session = s /\ w.rule = c.rule}
          /\ gone = {w.view : w \in old}
          /\ new = [session |-> s, rule |-> c.rule, view |-> opened + 1]
          /\ views = (engine[s].views \ gone) \cup {opened + 1}
    OBVIOUS
<1>4. /\ watchViews' = (watchViews \ old) \cup {new} /\ Controlled(s, views)
      /\ calls' = calls \ {c} /\ c.op = "watch" /\ opened < MaxOpened /\ opened' = opened + 1
      /\ life' = life /\ subscribed' = subscribed /\ held' = held /\ heard' = heard
    BY <1>1, <1>3 DEF Watch
<1>5. opened \in Nat /\ opened + 1 \in EngineViews /\ opened' \in 0 .. MaxOpened
    BY <1>0, <1>4, PlaneAssumption DEF PlaneTyped, EngineViews
<1>7. views \in SUBSET EngineViews BY <1>0, <1>2, <1>3, <1>5 DEF PlaneTyped, EngineSession
<1>8. ControlledSo(s, views) /\ \A x \in PlaneSessions : EngineKnows(x)' /\ Tells(x)'
    BY <1>2, <1>4, <1>7, ReplyKeeps
<1>9. new \in WatchView /\ new.session = s /\ new.view = opened + 1
    <2>1. c.rule \in WatchIds BY <1>2, <1>4 DEF Calls, Kinds
    <2>. QED BY <1>2, <1>3, <1>5, <2>1 DEF WatchView
<1>10. \A i \in DOMAIN held : held[i].view \in Nat /\ held[i].view < opened + 1
    <2>1. \A i \in DOMAIN held : held[i] \in HeldView BY <1>0 DEF PlaneTyped
    <2>2. \A h \in HeldView : h.view \in Nat BY DEF HeldView, EngineViews
    <2>. QED BY <1>0, <1>5, <2>1, <2>2 DEF ViewsApart
<1>11. \A w \in watchViews : w.view \in Nat /\ w.view < opened + 1
    <2>1. \A w \in watchViews : w.view \in Nat BY <1>0 DEF PlaneTyped, WatchView, EngineViews
    <2>. QED BY <1>0, <1>5, <2>1 DEF ViewsApart
<1>12. \A w \in watchViews' : w = new \/ (w \in watchViews /\ w \notin old) BY <1>4
<1>13. ViewsApart'
    <2>1. ASSUME NEW v \in watchViews', NEW w \in watchViews', v.view = w.view PROVE v = w
        BY <1>0, <1>5, <1>9, <1>11, <1>12, <2>1 DEF ViewsApart
    <2>2. \A i \in DOMAIN held : \A w \in watchViews' : held[i].view # w.view
        BY <1>0, <1>5, <1>9, <1>10, <1>12 DEF ViewsApart
    <2>3. \A i \in DOMAIN held : held[i].view <= opened' BY <1>4, <1>5, <1>10
    <2>4. \A w \in watchViews' : w.view <= opened' BY <1>4, <1>5, <1>9, <1>11, <1>12
    <2>. QED BY <1>0, <1>4, <2>1, <2>2, <2>3, <2>4 DEF ViewsApart
<1>14. ASSUME NEW x \in PlaneSessions PROVE EngineHolds(x)'
    <2>1. HeldBy(x)' = HeldBy(x) BY <1>4 DEF HeldBy
    <2>2. CASE x = s
        <3>1. ASSUME NEW v PROVE v \in WatchedBy(s)' <=> (v \in WatchedBy(s) /\ v \notin gone) \/ v = opened + 1
            <4>1. ASSUME v \in WatchedBy(s)' PROVE (v \in WatchedBy(s) /\ v \notin gone) \/ v = opened + 1
                <5>1. PICK w \in watchViews' : w.session = s /\ w.view = v BY <4>1 DEF WatchedBy
                <5>2. CASE w = new BY <1>9, <5>1, <5>2
                <5>3. CASE w \in watchViews /\ w \notin old
                    <6>1. v \in WatchedBy(s) BY <5>1, <5>3 DEF WatchedBy
                    <6>2. v \notin gone BY <1>0, <1>3, <5>1, <5>3 DEF ViewsApart
                    <6>. QED BY <6>1, <6>2
                <5>. QED BY <1>12, <5>2, <5>3
            <4>2. ASSUME v \in WatchedBy(s), v \notin gone PROVE v \in WatchedBy(s)'
                <5>1. PICK w \in watchViews : w.session = s /\ w.view = v BY <4>2 DEF WatchedBy
                <5>2. w \in watchViews' BY <1>3, <1>4, <4>2, <5>1
                <5>. QED BY <5>1, <5>2 DEF WatchedBy
            <4>3. ASSUME v = opened + 1 PROVE v \in WatchedBy(s)'
                <5>1. new \in watchViews' BY <1>4
                <5>. QED BY <1>9, <4>3, <5>1 DEF WatchedBy
            <4>. QED BY <4>1, <4>2, <4>3
        <3>2. \A v \in gone : v \notin HeldBy(s) BY <1>0, <1>3 DEF HeldBy, ViewsApart
        <3>3. engine'[s].views = views BY <1>8 DEF ControlledSo
        <3>. QED BY <1>0, <1>2, <1>3, <2>1, <2>2, <3>1, <3>2, <3>3 DEF EngineHolds
    <2>3. CASE x # s
        <3>1. \A w \in watchViews \cup watchViews' : w.session = x => (w \in watchViews <=> w \in watchViews')
            BY <1>3, <1>4, <1>9, <2>3
        <3>2. \A v : v \in WatchedBy(x)' <=> v \in WatchedBy(x) BY <3>1 DEF WatchedBy
        <3>3. engine'[x].views = engine[x].views BY <1>8, <2>3 DEF ControlledSo
        <3>. QED BY <1>0, <2>1, <3>2, <3>3 DEF EngineHolds
    <2>. QED BY <2>2, <2>3
<1>15. PlaneTyped' BY <1>0, <1>4, <1>5, <1>8, <1>9 DEF PlaneTyped, ControlledSo
<1>. QED BY <1>8, <1>13, <1>14, <1>15 DEF PlaneInv

\* The end of a watch.
LEMMA UnwatchKeeps ==
    ASSUME PlaneInv, NEW s \in PlaneSessions, NEW rule \in WatchIds, Unwatch(s, rule) PROVE PlaneInv'
<1>0. PlaneTyped /\ ViewsApart /\ \A x \in PlaneSessions : EngineHolds(x) /\ EngineKnows(x) /\ Tells(x)
    BY DEF PlaneInv
<1>1. PICK u \in watchViews : /\ u.session = s
                              /\ watchViews' = watchViews \ {u}
                              /\ Controlled(s, engine[s].views \ {u.view})
    BY DEF Unwatch
<1>2. /\ calls' = calls /\ opened' = opened /\ life' = life /\ subscribed' = subscribed
      /\ held' = held /\ heard' = heard
    BY DEF Unwatch
<1>3. life[s] # "new"
    <2>1. u.view \in engine[s].views BY <1>0, <1>1 DEF EngineHolds, WatchedBy
    <2>. QED BY <1>0, <2>1 DEF EngineKnows
<1>4. PICK views : views = engine[s].views \ {u.view} OBVIOUS
<1>5. views \in SUBSET EngineViews BY <1>0, <1>4 DEF PlaneTyped, EngineSession
<1>6. ControlledSo(s, views) /\ \A x \in PlaneSessions : EngineKnows(x)' /\ Tells(x)'
    BY <1>1, <1>2, <1>3, <1>4, <1>5, ReplyKeeps
<1>7. ViewsApart' BY <1>0, <1>1, <1>2 DEF ViewsApart
<1>8. ASSUME NEW x \in PlaneSessions PROVE EngineHolds(x)'
    <2>1. HeldBy(x)' = HeldBy(x) BY <1>2 DEF HeldBy
    <2>2. CASE x = s
        <3>1. ASSUME NEW v PROVE v \in WatchedBy(s)' <=> v \in WatchedBy(s) /\ v # u.view
            BY <1>0, <1>1 DEF WatchedBy, ViewsApart
        <3>2. u.view \notin HeldBy(s) BY <1>0, <1>1 DEF HeldBy, ViewsApart
        <3>3. engine'[s].views = views BY <1>6 DEF ControlledSo
        <3>. QED BY <1>0, <1>4, <2>1, <2>2, <3>1, <3>2, <3>3 DEF EngineHolds
    <2>3. CASE x # s
        <3>1. WatchedBy(x)' = WatchedBy(x) BY <1>1, <2>3 DEF WatchedBy
        <3>2. engine'[x].views = engine[x].views BY <1>6, <2>3 DEF ControlledSo
        <3>. QED BY <1>0, <2>1, <3>1, <3>2 DEF EngineHolds
    <2>. QED BY <2>2, <2>3
<1>9. PlaneTyped' BY <1>0, <1>1, <1>2, <1>6 DEF PlaneTyped, ControlledSo
<1>. QED BY <1>6, <1>7, <1>8, <1>9 DEF PlaneInv

\* The first push of a watch comes after all that the engine has said.
LEMMA WatchGroupsKeeps ==
    ASSUME PlaneInv, NEW c \in calls, PlaneWatchGroups(c) PROVE PlaneInv'
<1>0. PlaneTyped /\ ViewsApart /\ \A x \in PlaneSessions : EngineHolds(x) /\ EngineKnows(x) /\ Tells(x)
    BY DEF PlaneInv
<1>1. PICK s, n : s = c.session /\ n = engine[s].said + 1 OBVIOUS
<1>2. /\ s \in PlaneSessions /\ life[s] # "new" /\ (s \in subscribed \/ life[s] = "detached")
    BY <1>1, CallersAreAttached DEF PlaneWatchGroups
<1>3. /\ n <= MaxPushes
      /\ engine' = [engine EXCEPT ![s] = [engine[s] EXCEPT !.known = TRUE, !.said = n, !.outbox = <<>>]]
      /\ pushes' = [pushes EXCEPT ![s] = Append(pushes[s] \o engine[s].outbox, n)]
      /\ revived' = revived \cup (IF life[s] = "detached" THEN {s} ELSE {})
      /\ calls' = calls \ {c} /\ life' = life /\ subscribed' = subscribed /\ held' = held
      /\ watchViews' = watchViews /\ opened' = opened /\ heard' = heard
    BY <1>1 DEF PlaneWatchGroups
<1>4. engine[s] \in EngineSession /\ engine[s].outbox \in Seq(PushNumbers) /\ engine[s].said \in 0 .. MaxPushes
    BY <1>0, <1>2 DEF PlaneTyped, EngineSession
<1>5. n \in PushNumbers /\ n \in 0 .. MaxPushes /\ <<>> \in Seq(PushNumbers)
    BY <1>1, <1>3, <1>4, PlaneAssumption DEF PushNumbers
<1>6. PICK e : e = [engine[s] EXCEPT !.known = TRUE, !.said = n, !.outbox = <<>>] OBVIOUS
<1>7. e \in EngineSession /\ e.said = n /\ e.outbox = <<>> /\ e.views = engine[s].views
    BY <1>4, <1>5, <1>6 DEF EngineSession
<1>8. PICK p, o, q : p = pushes[s] /\ o = engine[s].outbox /\ q = Append(p \o o, n) OBVIOUS
<1>9. p \in Seq(PushNumbers) /\ o \in Seq(PushNumbers) BY <1>0, <1>2, <1>4, <1>8 DEF PlaneTyped
<1>10. p \o o \in Seq(PushNumbers) BY <1>9, ConcatProperties
<1>11. q \in Seq(PushNumbers) BY <1>5, <1>8, <1>10, AppendProperties
<1>12. engine' = [engine EXCEPT ![s] = e] /\ pushes' = [pushes EXCEPT ![s] = q] BY <1>3, <1>6, <1>8
<1>13. engine'[s] = e /\ pushes'[s] = q
       /\ \A x \in PlaneSessions : x # s => engine'[x] = engine[x] /\ pushes'[x] = pushes[x]
    BY <1>0, <1>2, <1>12 DEF PlaneTyped
<1>14. PlaneTyped'
    <2>1. engine' \in [PlaneSessions -> EngineSession] BY <1>0, <1>7, <1>12 DEF PlaneTyped
    <2>2. pushes' \in [PlaneSessions -> Seq(PushNumbers)] BY <1>0, <1>11, <1>12 DEF PlaneTyped
    <2>3. revived' \in SUBSET PlaneSessions BY <1>0, <1>2, <1>3 DEF PlaneTyped
    <2>. QED BY <1>0, <1>3, <2>1, <2>2, <2>3 DEF PlaneTyped
<1>15. ViewsApart' /\ \A x \in PlaneSessions : EngineHolds(x)' BY <1>0, <1>3, <1>7, <1>13, SameViews
<1>16. ASSUME NEW x \in PlaneSessions PROVE EngineKnows(x)'
    <2>1. life[s] \in {"new", "attached", "detached"} BY <1>0, <1>2 DEF PlaneTyped
    <2>. QED BY <1>0, <1>2, <1>3, <1>7, <1>13, <2>1 DEF EngineKnows
<1>17. ASSUME NEW x \in PlaneSessions PROVE Tells(x)'
    <2>1. CASE x # s BY <1>0, <1>3, <1>13, <2>1, SameSession
    <2>2. CASE x = s
        <3>1. SUFFICES ASSUME life[s] # "detached" PROVE Tells(s)' BY <1>3, <2>2 DEF Tells
        <3>2. PushCounts(Stream(s), engine[s].said) BY <1>0, <1>2, <3>1 DEF Tells
        <3>3. PICK h, b : h = heard[s] /\ b = Stream(s) OBVIOUS
        <3>4. h \in Seq(PushNumbers) BY <1>0, <1>2, <3>3 DEF PlaneTyped
        <3>5. b = (h \o p) \o o BY <1>8, <3>3 DEF Stream
        <3>6. h \o p \in Seq(PushNumbers) BY <1>9, <3>4, ConcatProperties
        <3>7. b \in Seq(PushNumbers) BY <1>9, <3>5, <3>6, ConcatProperties
        <3>8. Stream(s)' = Append(b, n)
            <4>1. PICK w : w = <<n>> OBVIOUS
            <4>2. w \in Seq(PushNumbers) BY <1>5, <4>1
            <4>3. q = (p \o o) \o w BY <1>5, <1>8, <1>10, <4>1, AppendIsConcat
            <4>4. Append(b, n) = b \o w BY <1>5, <3>7, <4>1, AppendIsConcat
            <4>5. h \o ((p \o o) \o w) = (h \o (p \o o)) \o w
                <5>1. PICK r : r = p \o o OBVIOUS
                <5>2. r \in Seq(PushNumbers) BY <1>10, <5>1
                <5>3. (h \o r) \o w = h \o (r \o w) BY <3>4, <4>2, <5>2, ConcatAssociative
                <5>. QED BY <5>1, <5>3
            <4>6. h \o (p \o o) = (h \o p) \o o BY <1>9, <3>4, ConcatAssociative
            <4>7. h \o q \in Seq(PushNumbers) BY <1>11, <3>4, ConcatProperties
            <4>8. (h \o q) \o <<>> = h \o q BY <4>7, ConcatEmptySeq
            <4>9. Stream(s)' = (h \o q) \o <<>> BY <1>3, <1>7, <1>13, <3>3 DEF Stream
            <4>. QED BY <3>5, <4>3, <4>4, <4>5, <4>6, <4>8, <4>9
        <3>9. PushCounts(Append(b, n), n)
            <4>1. Len(b) = engine[s].said /\ \A i \in 1 .. engine[s].said : b[i] = i BY <3>2, <3>3 DEF PushCounts
            <4>2. /\ Len(Append(b, n)) = Len(b) + 1 /\ \A i \in 1 .. Len(b) : Append(b, n)[i] = b[i]
                  /\ Append(b, n)[Len(b) + 1] = n
                BY <1>5, <3>7, AppendProperties
            <4>3. \A i \in 1 .. n : i = n \/ i \in 1 .. engine[s].said BY <1>1, <1>4
            <4>. QED BY <1>1, <1>4, <4>1, <4>2, <4>3 DEF PushCounts
        <3>10. engine'[s].said = n BY <1>7, <1>13
        <3>11. PushCounts(Stream(s)', engine'[s].said) BY <3>8, <3>9, <3>10
        <3>. QED BY <1>0, <1>2, <1>3, <3>1, <3>11 DEF Tells, PushCounts
    <2>. QED BY <2>1, <2>2
<1>. QED BY <1>14, <1>15, <1>16, <1>17 DEF PlaneInv

\* A poll moves what was pushed and then what is in the outbox to the grids.
LEMMA PollKeeps ==
    ASSUME PlaneInv, PollAllTicks PROVE PlaneInv'
<1>0. PlaneTyped /\ ViewsApart /\ \A x \in PlaneSessions : EngineHolds(x) /\ EngineKnows(x) /\ Tells(x)
    BY DEF PlaneInv
<1>1. /\ calls' = calls /\ opened' = opened /\ life' = life /\ subscribed' = subscribed /\ held' = held
      /\ watchViews' = watchViews /\ revived' = revived
      /\ pushes' = [x \in PlaneSessions |-> <<>>]
    BY DEF PollAllTicks
<1>2. ASSUME NEW x \in PlaneSessions
      PROVE  /\ engine'[x] \in EngineSession /\ engine'[x].views = engine[x].views
             /\ engine'[x].known = engine[x].known /\ engine'[x].said = engine[x].said
             /\ engine'[x].outbox = <<>> /\ pushes'[x] = <<>> /\ heard'[x] \in Seq(PushNumbers)
             /\ heard'[x] = (IF x \notin subscribed THEN heard[x] ELSE Stream(x))
    <2>1. engine[x] \in EngineSession /\ heard[x] \in Seq(PushNumbers) /\ pushes[x] \in Seq(PushNumbers)
          /\ engine[x].outbox \in Seq(PushNumbers) /\ <<>> \in Seq(PushNumbers)
        BY <1>0 DEF PlaneTyped, EngineSession
    <2>2. PICK e : e = [engine[x] EXCEPT !.outbox = <<>>] OBVIOUS
    <2>3. e \in EngineSession /\ e.views = engine[x].views /\ e.known = engine[x].known
          /\ e.said = engine[x].said /\ e.outbox = <<>>
        BY <2>1, <2>2 DEF EngineSession
    <2>4. engine'[x] = e BY <2>2 DEF PollAllTicks
    <2>5. heard'[x] = IF x \notin subscribed THEN heard[x] ELSE Stream(x) BY DEF PollAllTicks, Stream
    <2>6. heard[x] \o pushes[x] \in Seq(PushNumbers) BY <2>1, ConcatProperties
    <2>7. Stream(x) \in Seq(PushNumbers) BY <2>1, <2>6, ConcatProperties DEF Stream
    <2>. QED BY <1>1, <2>1, <2>3, <2>4, <2>5, <2>7
<1>3. PlaneTyped'
    <2>1. engine' = [x \in PlaneSessions |-> engine'[x]] BY DEF PollAllTicks
    <2>2. engine' \in [PlaneSessions -> EngineSession] BY <1>2, <2>1
    <2>3. heard' = [x \in PlaneSessions |-> heard'[x]] BY DEF PollAllTicks
    <2>4. heard' \in [PlaneSessions -> Seq(PushNumbers)] BY <1>2, <2>3
    <2>5. <<>> \in Seq(PushNumbers) OBVIOUS
    <2>. QED BY <1>0, <1>1, <2>2, <2>4, <2>5 DEF PlaneTyped
<1>4. ViewsApart' /\ \A x \in PlaneSessions : EngineHolds(x)' BY <1>0, <1>1, <1>2, SameViews
<1>5. \A x \in PlaneSessions : EngineKnows(x)' BY <1>0, <1>1, <1>2 DEF EngineKnows
<1>6. ASSUME NEW x \in PlaneSessions PROVE Tells(x)'
    <2>1. SUFFICES ASSUME life[x] # "detached" PROVE Tells(x)' BY <1>1 DEF Tells
    <2>2. PICK h : h = heard'[x] OBVIOUS
    <2>3. h \in Seq(PushNumbers) BY <1>2, <2>2
    <2>4. h \o <<>> = h BY <2>3, ConcatEmptySeq
    <2>5. Stream(x)' = h BY <1>2, <2>2, <2>4 DEF Stream
    <2>6. PushCounts(h, engine[x].said)
        <3>1. PushCounts(Stream(x), engine[x].said) BY <1>0, <2>1 DEF Tells
        <3>2. CASE x \in subscribed BY <1>2, <2>2, <3>1, <3>2
        <3>3. CASE x \notin subscribed
            <4>1. engine[x].said = 0 /\ h = heard[x] BY <1>0, <1>2, <2>1, <2>2, <3>3 DEF Tells
            <4>2. PICK p, o : p = pushes[x] /\ o = engine[x].outbox OBVIOUS
            <4>3. p \in Seq(PushNumbers) /\ o \in Seq(PushNumbers) BY <1>0, <4>2 DEF PlaneTyped, EngineSession
            <4>4. h \o p \in Seq(PushNumbers) /\ Len(h \o p) = Len(h) + Len(p) BY <2>3, <4>3, ConcatProperties
            <4>5. Len((h \o p) \o o) = Len(h \o p) + Len(o) BY <4>3, <4>4, ConcatProperties
            <4>6. Len((h \o p) \o o) = 0 BY <3>1, <4>1, <4>2 DEF PushCounts, Stream
            <4>7. Len(h) \in Nat /\ Len(p) \in Nat /\ Len(o) \in Nat BY <2>3, <4>3
            <4>8. Len(h) = 0 BY <4>4, <4>5, <4>6, <4>7
            <4>. QED BY <4>1, <4>8 DEF PushCounts
        <3>. QED BY <3>2, <3>3
    <2>7. PushCounts(Stream(x)', engine'[x].said) BY <1>2, <2>5, <2>6
    <2>. QED BY <1>0, <1>1, <1>2, <2>1, <2>7 DEF Tells, PushCounts
<1>. QED BY <1>3, <1>4, <1>5, <1>6 DEF PlaneInv

\* Without views there is nothing to tell apart.
LEMMA PlaneStart == PlaneInit => PlaneInv
<1>1. SUFFICES ASSUME PlaneInit PROVE PlaneInv OBVIOUS
<1>2. <<>> \in Seq(PushNumbers) /\ <<>> \in Seq(HeldView) OBVIOUS
<1>3. Unknown \in EngineSession BY <1>2, PlaneAssumption DEF Unknown, EngineSession
<1>4. PlaneTyped BY <1>1, <1>2, <1>3, PlaneAssumption DEF PlaneInit, PlaneTyped
<1>5. held = <<>> /\ watchViews = {} /\ calls = {} BY <1>1 DEF PlaneInit
<1>6. DOMAIN held = {} BY <1>5
<1>7. ViewsApart BY <1>5, <1>6 DEF ViewsApart
<1>8. ASSUME NEW x \in PlaneSessions PROVE EngineHolds(x) /\ EngineKnows(x) /\ Tells(x)
    <2>1. /\ engine[x].views = {} /\ engine[x].known = FALSE /\ engine[x].said = 0 /\ engine[x].outbox = <<>>
          /\ heard[x] = <<>> /\ pushes[x] = <<>> /\ life[x] = "new"
        BY <1>1 DEF PlaneInit, Unknown
    <2>2. HeldBy(x) = {} /\ WatchedBy(x) = {} BY <1>5, <1>6 DEF HeldBy, WatchedBy
    <2>3. (<<>> \o <<>>) \o <<>> = <<>> BY <1>2, ConcatEmptySeq
    <2>4. PushCounts(Stream(x), 0) BY <2>1, <2>3 DEF Stream, PushCounts
    <2>. QED BY <1>5, <2>1, <2>2, <2>4 DEF EngineHolds, EngineKnows, Tells
<1>. QED BY <1>4, <1>7, <1>8 DEF PlaneInv

\* A step of the rest of the tab.
LEMMA StutterKeeps ==
    ASSUME PlaneInv, UNCHANGED planeVars PROVE PlaneInv'
<1>0. PlaneTyped /\ ViewsApart /\ \A x \in PlaneSessions : EngineHolds(x) /\ EngineKnows(x) /\ Tells(x)
    BY DEF PlaneInv
<1>1. /\ life' = life /\ calls' = calls /\ subscribed' = subscribed /\ held' = held /\ watchViews' = watchViews
      /\ engine' = engine /\ opened' = opened /\ pushes' = pushes /\ heard' = heard /\ revived' = revived
    BY DEF planeVars
<1>2. PlaneTyped' BY <1>0, <1>1 DEF PlaneTyped
<1>3. ViewsApart' /\ \A x \in PlaneSessions : EngineHolds(x)' BY <1>0, <1>1, SameViews
<1>4. ASSUME NEW x \in PlaneSessions PROVE EngineKnows(x)' BY <1>0, <1>1 DEF EngineKnows
<1>5. ASSUME NEW x \in PlaneSessions PROVE Tells(x)' BY <1>0, <1>1, SameSession
<1>. QED BY <1>2, <1>3, <1>4, <1>5 DEF PlaneInv

\* One case per action.
LEMMA PlaneStep == PlaneInv /\ [PlaneNext]_planeVars => PlaneInv'
<1>1. SUFFICES ASSUME PlaneInv, [PlaneNext]_planeVars PROVE PlaneInv' OBVIOUS
<1>2. ASSUME NEW s \in PlaneSessions,
             AttachSession(s) \/ DetachSession(s) \/ Request(s) \/ GroupsMove(s)
             \/ \E rule \in WatchIds : Unwatch(s, rule)
      PROVE  PlaneInv'
    BY <1>1, <1>2, AttachKeeps, DetachKeeps, RequestKeeps, GroupsMoveKeeps, UnwatchKeeps
<1>3. ASSUME NEW c \in calls,
             \/ EnsureSubscribed(c) \/ ReadHeld(c) \/ ReadOpens(c) \/ Watch(c)
             \/ PlaneWatchGroups(c) \/ GetAggregates(c)
      PROVE  PlaneInv'
    BY <1>1, <1>3, SubscribeKeeps, ReadHeldKeeps, ReadOpensKeeps, WatchKeeps, WatchGroupsKeeps, AggregatesKeep
<1>4. CASE Boot BY <1>1, <1>4, BootKeeps
<1>5. CASE PollAllTicks BY <1>1, <1>5, PollKeeps
<1>6. CASE UNCHANGED planeVars BY <1>1, <1>6, StutterKeeps
<1>. QED BY <1>1, <1>2, <1>3, <1>4, <1>5, <1>6 DEF PlaneNext

\* For every number of sessions, rules and views, and for all caps: views have
\* one number and one owner, the engine keeps those of each session, and what
\* a grid has heard and will hear are the first deltas, in order.
THEOREM PlaneInvariance == PlaneSpec => []PlaneInv
BY PlaneStart, PlaneStep, PTL DEF PlaneSpec

\* The engine keeps, for every session, exactly the views that the plane can
\* still dispose, and knows no session that is gone but one that a late request
\* brought back (detachSession, disposeView, the evictions).
THEOREM ViewsAreHeld == PlaneSpec => []EngineViewsAreHeld
<1>1. PlaneInv => EngineViewsAreHeld BY DEF PlaneInv, EngineViewsAreHeld, EngineHolds, EngineKnows
<1>. QED BY <1>1, PlaneInvariance, PTL

\* A grid that is attached has heard the first group deltas of the engine, each
\* once and in order, however they came (pollAllTicks, the pushes of a reply).
THEOREM GroupDeltasInOrder == PlaneSpec => []PushesComeInOrder
<1>1. ASSUME PlaneInv PROVE PushesComeInOrder
    <2>1. SUFFICES ASSUME NEW s \in PlaneSessions, life[s] = "attached"
                   PROVE  heard[s] = [i \in 1 .. Len(heard[s]) |-> i]
        BY DEF PushesComeInOrder
    <2>2. PICK h, p, o : h = heard[s] /\ p = pushes[s] /\ o = engine[s].outbox OBVIOUS
    <2>3. h \in Seq(PushNumbers) /\ p \in Seq(PushNumbers) /\ o \in Seq(PushNumbers)
        BY <1>1, <2>2 DEF PlaneInv, PlaneTyped, EngineSession
    <2>4. PICK n, b : n = engine[s].said /\ b = (h \o p) \o o OBVIOUS
    <2>5. Len(b) = n /\ \A i \in 1 .. n : b[i] = i
        BY <1>1, <2>1, <2>2, <2>4 DEF PlaneInv, Tells, PushCounts, Stream
    <2>6. /\ h \o p \in Seq(PushNumbers) /\ Len(h \o p) = Len(h) + Len(p)
          /\ \A i \in 1 .. Len(h) + Len(p) : (h \o p)[i] = IF i <= Len(h) THEN h[i] ELSE p[i - Len(h)]
        BY <2>3, ConcatProperties
    <2>7. /\ Len(b) = Len(h \o p) + Len(o)
          /\ \A i \in 1 .. Len(h \o p) + Len(o) :
                b[i] = IF i <= Len(h \o p) THEN (h \o p)[i] ELSE o[i - Len(h \o p)]
        BY <2>3, <2>4, <2>6, ConcatProperties
    <2>8. Len(h) \in Nat /\ Len(p) \in Nat /\ Len(o) \in Nat BY <2>3
    <2>9. ASSUME NEW i \in 1 .. Len(h) PROVE h[i] = i
        <3>1. i \in 1 .. Len(h) + Len(p) /\ i \in 1 .. Len(h \o p) + Len(o) /\ i <= Len(h \o p) /\ i <= Len(h)
              /\ i \in 1 .. n
            BY <2>5, <2>6, <2>7, <2>8
        <3>. QED BY <2>5, <2>6, <2>7, <3>1
    <2>10. PICK g : g = [i \in 1 .. Len(h) |-> i] OBVIOUS
    <2>11. h = g BY <2>3, <2>9, <2>10
    <2>. QED BY <2>2, <2>10, <2>11
<1>. QED BY <1>1, PlaneInvariance, PTL

------------------------------------------------------------------------------
(* One filter, three evaluations: the rows a grid selects.                  *)

\* The conditions a column's filter is made of.
CondsOf(col) == IF col = "size" THEN NumberConds ELSE TextConds \cup SetConds

LEMMA SpellingOfCase ==
    /\ DOMAIN IgnoringCase = {"equals", "notEqual"}
    /\ IgnoringCase["equals"] = "equalsIgnoreCase" /\ IgnoringCase["notEqual"] = "notEqualIgnoreCase"
    /\ DOMAIN Spelled = {"equalsIgnoreCase", "notEqualIgnoreCase"}
    /\ Spelled["equalsIgnoreCase"] = "equals" /\ Spelled["notEqualIgnoreCase"] = "notEqual"
BY DEF IgnoringCase, Spelled

\* A condition's operation names its column, and is no alternative.
LEMMA OperationOfCondition ==
    ASSUME NEW col \in Columns, NEW c \in CondsOf(col)
    PROVE  /\ OpOf(col, c).column = col /\ OpOf(col, c).value = c.arg /\ OpOf(col, c).to = c.to
           /\ OpOf(col, c).op # "or"
           /\ OpOf(col, c).op = "notContains" <=> c.op = "notContains"
           /\ OpOf(col, c).op = IF c.kind = "text" /\ c.op = "equals" THEN "equalsIgnoreCase"
                                ELSE IF c.kind = "text" /\ c.op = "notEqual" THEN "notEqualIgnoreCase"
                                ELSE c.op
<1>1. c.op # "or" /\ c.op \in {"equals", "notEqual", "contains", "notContains", "blank", "notBlank", "greaterThan", "inRange", "in"}
  BY DEF CondsOf, Columns, NumberConds, TextConds, SetConds, Cond
<1> QED
  BY <1>1, SpellingOfCase DEF OpOf, Op

LEMMA NumbersAgree ==
    ASSUME NEW c \in NumberConds, NEW v \in SizeCells
    PROVE  EvalOp(OpOf("size", c), v) <=> ConditionPredicate(c, v)
<1> DEFINE o == OpOf("size", c)
<1>1. /\ c.kind = "number" /\ c.op \in {"equals", "notEqual", "greaterThan", "inRange", "blank"}
      /\ c.op # "blank" => c.arg \in Numbers
      /\ c.op = "inRange" => c.to \in Numbers
      /\ c.op = "blank" => c.arg = Null
  BY DEF NumberConds, Cond
<1>2. o.column = "size" /\ o.value = c.arg /\ o.to = c.to /\ o.op = c.op
  BY <1>1, OperationOfCondition DEF CondsOf, Columns
<1>3. v # Null => v \in Nat
  BY QueryAssumption DEF SizeCells
<1>4. c.op # "blank" => c.arg \in Nat /\ c.arg # Null
  BY <1>1, QueryAssumption
<1> HIDE DEF o
<1>5. EvalOp(o, v) <=> IF c.op = "blank" THEN v = Null
                       ELSE IF v = Null THEN c.op = "notEqual"
                       ELSE Tests(c.op, v, c.arg, c.to)
  <2>1. CASE c.op = "blank"
    BY <2>1, <1>2, SpellingOfCase DEF EvalOp
  <2>2. CASE c.op # "blank" /\ v = Null
    BY <2>2, <1>1, <1>2, <1>4, SpellingOfCase DEF EvalOp
  <2>3. CASE c.op # "blank" /\ v # Null
    BY <2>3, <1>1, <1>2, <1>4, SpellingOfCase DEF EvalOp, SearchColumns
  <2> QED BY <2>1, <2>2, <2>3
<1>6. ConditionPredicate(c, v) <=> IF c.op = "blank" THEN v = Null
                       ELSE IF v = Null THEN c.op = "notEqual"
                       ELSE Tests(c.op, v, c.arg, c.to)
  <2>1. CASE c.op = "blank"
    BY <2>1, <1>1 DEF ConditionPredicate
  <2>2. CASE c.op # "blank" /\ v = Null
    BY <2>2, <1>1 DEF ConditionPredicate
  <2>3. CASE c.op # "blank" /\ v # Null
    BY <2>3, <1>1 DEF ConditionPredicate
  <2> QED BY <2>1, <2>2, <2>3
<1> QED BY <1>5, <1>6 DEF o

LEMMA TextsAgree ==
    ASSUME NEW c \in TextConds, NEW v
    PROVE  EvalOp(OpOf("desk", c), v) <=> ConditionPredicate(c, v)
<1> DEFINE o == OpOf("desk", c)
<1>1. /\ c.kind = "text" /\ c.op \in {"equals", "notEqual", "contains", "notContains", "blank", "notBlank"}
      /\ c.op \notin {"blank", "notBlank"} => c.arg \in Needles
  BY DEF TextConds, Cond
<1>2. /\ o.column = "desk" /\ o.value = c.arg
      /\ o.op = IF c.op = "equals" THEN "equalsIgnoreCase"
                ELSE IF c.op = "notEqual" THEN "notEqualIgnoreCase" ELSE c.op
  BY <1>1, OperationOfCondition DEF CondsOf, Columns
<1>3. c.op \notin {"blank", "notBlank"} => c.arg # Null
  BY <1>1, QueryAssumption
<1>4. (IF o.op \in DOMAIN Spelled THEN Spelled[o.op] ELSE o.op) = c.op
  BY <1>1, <1>2, SpellingOfCase
<1> HIDE DEF o
<1>5. EvalOp(o, v) <=> IF c.op \in {"blank", "notBlank"} THEN (v = Null) <=> (c.op = "blank")
                       ELSE IF v = Null THEN c.op \in {"notEqual", "notContains"}
                       ELSE TextTests(c.op, v, c.arg)
  <2>1. CASE c.op \in {"blank", "notBlank"}
    BY <2>1, <1>4 DEF EvalOp
  <2>2. CASE c.op \notin {"blank", "notBlank"} /\ v = Null
    BY <2>2, <1>1, <1>2, <1>3, <1>4 DEF EvalOp
  <2>3. CASE c.op \notin {"blank", "notBlank"} /\ v # Null
    BY <2>3, <1>1, <1>2, <1>3, <1>4 DEF EvalOp, SearchColumns
  <2> QED BY <2>1, <2>2, <2>3
<1>6. ConditionPredicate(c, v) <=>
                       IF c.op \in {"blank", "notBlank"} THEN (v = Null) <=> (c.op = "blank")
                       ELSE IF v = Null THEN c.op \in {"notEqual", "notContains"}
                       ELSE TextTests(c.op, v, c.arg)
  <2>1. CASE c.op \in {"blank", "notBlank"}
    BY <2>1, <1>1 DEF ConditionPredicate
  <2>2. CASE c.op \notin {"blank", "notBlank"} /\ v = Null
    BY <2>2, <1>1 DEF ConditionPredicate
  <2>3. CASE c.op \notin {"blank", "notBlank"} /\ v # Null
    BY <2>3, <1>1 DEF ConditionPredicate
  <2> QED BY <2>1, <2>2, <2>3
<1> QED BY <1>5, <1>6 DEF o

LEMMA SetsAgree ==
    ASSUME NEW c \in SetConds, NEW v
    PROVE  EvalOp(OpOf("desk", c), v) <=> ConditionPredicate(c, v)
<1> DEFINE o == OpOf("desk", c)
<1>1. c.kind = "set" /\ c.op = "in"
  BY DEF SetConds, Cond
<1>2. o.value = c.arg /\ o.op = "in"
  BY <1>1, OperationOfCondition DEF CondsOf, Columns
<1> HIDE DEF o
<1>3. EvalOp(o, v) <=> v \in c.arg
  BY <1>2, SpellingOfCase DEF EvalOp
<1>4. ConditionPredicate(c, v) <=> v \in c.arg
  BY <1>1 DEF ConditionPredicate
<1> QED BY <1>3, <1>4 DEF o

\* An engine answers to a condition's operation what the tab does.
LEMMA ConditionsAgree ==
    ASSUME NEW col \in Columns, NEW c \in CondsOf(col), NEW row \in Rows
    PROVE  /\ EvalOp(OpOf(col, c), row[OpOf(col, c).column]) <=> ConditionPredicate(c, row[col])
           /\ Matches(OpOf(col, c), row) <=> ConditionPredicate(c, row[col])
<1>1. OpOf(col, c).column = col /\ OpOf(col, c).op # "or"
  BY OperationOfCondition
<1>2. EvalOp(OpOf(col, c), row[col]) <=> ConditionPredicate(c, row[col])
  <2>1. CASE col = "size"
    BY <2>1, NumbersAgree DEF CondsOf, Rows
  <2>2. CASE col = "desk"
    BY <2>2, TextsAgree, SetsAgree DEF CondsOf
  <2> QED BY <2>1, <2>2 DEF Columns
<1> QED BY <1>1, <1>2 DEF Matches

\* What a filter is made of: one condition, or two joined.
LEMMA PartsOfModel ==
    ASSUME NEW col \in Columns, NEW m \in Models(col)
    PROVE  /\ \A i \in DOMAIN m.conditions : m.conditions[i] \in CondsOf(col)
           /\ m.operator \in {"none", "AND", "OR"}
           /\ DOMAIN m.conditions = 1 .. Len(m.conditions) /\ Len(m.conditions) \in 1 .. 2
           /\ Len(m.conditions) = 2 => m.operator # "none" /\ col = "desk"
           /\ m.operator # "none" => Len(m.conditions) = 2 /\ \A i \in DOMAIN m.conditions : m.conditions[i] \in TextConds
<1>1. CASE col = "size"
  <2>1. PICK c \in NumberConds : m = Simple(c)
    BY <1>1 DEF Models
  <2> QED BY <2>1, <1>1 DEF Simple, CondsOf
<1>2. CASE col = "desk"
  <2>1. CASE \E c \in TextConds \cup SetConds : m = Simple(c)
    BY <2>1, <1>2 DEF Simple, CondsOf
  <2>2. CASE \E op \in {"AND", "OR"}, c \in TextConds, d \in TextConds : m = Combined(op, c, d)
    <3>1. PICK op \in {"AND", "OR"}, c \in TextConds, d \in TextConds : m = Combined(op, c, d)
      BY <2>2
    <3>2. m.conditions = <<c, d>> /\ m.operator = op
      BY <3>1 DEF Combined
    <3>3. Len(m.conditions) = 2 /\ DOMAIN m.conditions = 1 .. 2 /\ m.conditions[1] = c /\ m.conditions[2] = d
      BY <3>2
    <3>4. \A i \in DOMAIN m.conditions : m.conditions[i] \in TextConds
      BY <3>3
    <3> QED BY <3>2, <3>3, <3>4, <1>2 DEF CondsOf
  <2>3. m \in {Simple(c) : c \in TextConds \cup SetConds} \cup {Combined(op, c, d) : op \in {"AND", "OR"}, c \in TextConds, d \in TextConds}
    BY <1>2 DEF Models
  <2> QED BY <2>1, <2>2, <2>3
<1> QED BY <1>1, <1>2 DEF Columns

OpsOf(col, m) == [i \in DOMAIN m.conditions |-> OpOf(col, m.conditions[i])]

LEMMA PlainOps ==
    ASSUME NEW col \in Columns, NEW m \in Models(col)
    PROVE  /\ OpsOf(col, m) \in Seq(InSeq(OpsOf(col, m))) /\ Len(OpsOf(col, m)) = Len(m.conditions)
           /\ InSeq(OpsOf(col, m)) = {OpOf(col, c) : c \in InSeq(m.conditions)}
           /\ FilterModelToOps(col, m) = IF m.operator = "OR" THEN <<OrOf(InSeq(OpsOf(col, m)))>> ELSE OpsOf(col, m)
<1>1. DOMAIN m.conditions = 1 .. Len(m.conditions) /\ Len(m.conditions) \in Nat
  BY PartsOfModel
<1>2. DOMAIN OpsOf(col, m) = 1 .. Len(m.conditions)
  BY <1>1 DEF OpsOf
<1>3. OpsOf(col, m) \in [1 .. Len(m.conditions) -> InSeq(OpsOf(col, m))]
  BY <1>1 DEF OpsOf, InSeq
<1>4. OpsOf(col, m) \in Seq(InSeq(OpsOf(col, m))) /\ Len(OpsOf(col, m)) = Len(m.conditions)
  BY <1>1, <1>2, <1>3
<1>5. InSeq(OpsOf(col, m)) = {OpOf(col, m.conditions[i]) : i \in DOMAIN m.conditions}
  BY DEF OpsOf, InSeq
<1>6. @ = {OpOf(col, c) : c \in InSeq(m.conditions)}
  BY DEF InSeq
<1>7. FilterModelToOps(col, m) = IF m.operator = "OR" THEN <<OrOf(InSeq(OpsOf(col, m)))>> ELSE OpsOf(col, m)
  BY DEF OpsOf, FilterModelToOps
<1> QED BY <1>4, <1>5, <1>6, <1>7

LEMMA InOne ==
    ASSUME NEW v
    PROVE  InSeq(<<v>>) = {v} /\ <<v>> \in Seq({v}) /\ Len(<<v>>) = 1
<1>1. DOMAIN <<v>> = {1} /\ <<v>>[1] = v
  OBVIOUS
<1> QED BY <1>1 DEF InSeq

LEMMA OrIsAlternatives ==
    ASSUME NEW ops
    PROVE  OrOf(ops).op = "or" /\ OrOf(ops).value = ops
BY DEF OrOf

\* The operations of a filter select the rows that the tab's conditions do.
LEMMA FiltersAgree ==
    ASSUME NEW col \in Columns, NEW m \in Models(col), NEW row \in Rows
    PROVE  (\A o \in InSeq(FilterModelToOps(col, m)) : Matches(o, row)) <=> ColumnPredicate(m, row[col])
<1>1. \A c \in InSeq(m.conditions) : c \in CondsOf(col)
  BY PartsOfModel DEF InSeq
<1>2. CASE m.operator = "OR"
  <2>1. InSeq(FilterModelToOps(col, m)) = {OrOf(InSeq(OpsOf(col, m)))}
    BY <1>2, PlainOps, InOne
  <2>2. Matches(OrOf(InSeq(OpsOf(col, m))), row) <=> \E o \in InSeq(OpsOf(col, m)) : EvalOp(o, row[o.column])
    BY OrIsAlternatives DEF Matches
  <2>3. (\E o \in InSeq(OpsOf(col, m)) : EvalOp(o, row[o.column]))
        <=> \E c \in InSeq(m.conditions) : EvalOp(OpOf(col, c), row[OpOf(col, c).column])
    BY PlainOps
  <2> QED BY <1>1, <1>2, <2>1, <2>2, <2>3, ConditionsAgree DEF ColumnPredicate
<1>3. CASE m.operator # "OR"
  <2>1. InSeq(FilterModelToOps(col, m)) = {OpOf(col, c) : c \in InSeq(m.conditions)}
    BY <1>3, PlainOps
  <2>2. (\A o \in InSeq(FilterModelToOps(col, m)) : Matches(o, row))
        <=> \A c \in InSeq(m.conditions) : Matches(OpOf(col, c), row)
    BY <2>1
  <2> QED BY <1>1, <1>3, <2>2, ConditionsAgree DEF ColumnPredicate
<1> QED BY <1>2, <1>3

\* So do the operations of the quick filter.
LEMMA SearchesAgree ==
    ASSUME NEW text, text # Null, NEW row \in Rows
    PROVE  Matches(SearchOp(text), row) <=> SearchPredicate(text, row)
<1> DEFINE c == Cond("text", "contains", text, Null)
<1>1. text # Null
  OBVIOUS
<1>2. ASSUME NEW col \in SearchColumns, NEW v
      PROVE  EvalOp(Op(col, "contains", text, Null), v) <=> ConditionPredicate(c, v)
  <2> DEFINE o == Op(col, "contains", text, Null)
  <2>1. o.column = col /\ o.op = "contains" /\ o.value = text
    BY DEF Op
  <2>2. c.kind = "text" /\ c.op = "contains" /\ c.arg = text
    BY DEF Cond
  <2> HIDE DEF o, c
  <2>3. EvalOp(o, v) <=> v # Null /\ TextTests("contains", v, text)
    <3>1. CASE v = Null
      BY <3>1, <2>1, SpellingOfCase DEF EvalOp
    <3>2. CASE v # Null
      BY <3>2, <1>1, <2>1, SpellingOfCase DEF EvalOp
    <3> QED BY <3>1, <3>2
  <2>4. ConditionPredicate(c, v) <=> v # Null /\ TextTests("contains", v, text)
    BY <2>2 DEF ConditionPredicate
  <2> QED BY <2>3, <2>4 DEF o
<1>5. \A col \in SearchColumns : Op(col, "contains", text, Null).column = col
  BY DEF Op
<1>3. Matches(OrOf({Op(col, "contains", text, Null) : col \in SearchColumns}), row)
      <=> \E o \in {Op(col, "contains", text, Null) : col \in SearchColumns} : EvalOp(o, row[o.column])
  BY OrIsAlternatives DEF Matches
<1>4. @ <=> \E col \in SearchColumns : EvalOp(Op(col, "contains", text, Null), row[col])
  BY <1>5
<1> QED BY <1>2, <1>3, <1>4 DEF SearchPredicate, SearchOp

\* A cell that has a text has every part of it.
LEMMA PartsAreFound ==
    ASSUME NEW text, text # Null, NEW word, word # Null, word.pieces \subseteq text.pieces,
           NEW row \in Rows, SearchPredicate(text, row)
    PROVE  SearchPredicate(word, row)
<1> DEFINE c(t) == Cond("text", "contains", t, Null)
<1>1. PICK col \in SearchColumns : ConditionPredicate(c(text), row[col])
  BY DEF SearchPredicate
<1>2. ASSUME NEW t
      PROVE  ConditionPredicate(c(t), row[col]) <=> row[col] # Null /\ Includes(row[col], t)
  <2>1. c(t).kind = "text" /\ c(t).op = "contains" /\ c(t).arg = t
    BY DEF Cond
  <2> HIDE DEF c
  <2> QED BY <2>1 DEF ConditionPredicate, TextTests
<1> HIDE DEF c
<1>3. row[col] # Null /\ Includes(row[col], text)
  BY <1>1, <1>2
<1>4. ConditionPredicate(c(word), row[col])
  BY <1>2, <1>3 DEF Includes, Fold
<1> QED BY <1>4 DEF SearchPredicate, c

\* Only rows that are not soft-deleted are looked at.
LEMMA DeletedAreLeftOut ==
    ASSUME NEW row \in Rows
    PROVE  Matches(Op("deleted", "notEqual", TRUE, Null), row) <=> ~row.deleted
<1> DEFINE o == Op("deleted", "notEqual", TRUE, Null)
<1>1. o.column = "deleted" /\ o.op = "notEqual" /\ o.value = TRUE
  BY DEF Op
<1>2. row.deleted \in BOOLEAN /\ row.deleted # Null /\ TRUE # Null
  BY QueryAssumption DEF Rows
<1>3. row["deleted"] = row.deleted
  OBVIOUS
<1> HIDE DEF o
<1>4. EvalOp(o, row.deleted) <=> row.deleted # TRUE
  BY <1>1, <1>2, SpellingOfCase DEF EvalOp, Tests, SearchColumns
<1> QED BY <1>1, <1>2, <1>3, <1>4 DEF Matches, o

-----------------------------------------------------------------------------
\* Four sequences, one behind another.
LEMMA FourInARow ==
    ASSUME NEW S, NEW a \in Seq(S), NEW b \in Seq(S), NEW c \in Seq(S), NEW d \in Seq(S)
    PROVE  LET all == a \o b \o c \o d IN
           /\ all \in Seq(S) /\ Len(all) = Len(a) + Len(b) + Len(c) + Len(d)
           /\ DOMAIN all = 1 .. Len(all)
           /\ \A i \in 1 .. Len(all) :
                all[i] = IF i <= Len(a) THEN a[i]
                         ELSE IF i <= Len(a) + Len(b) THEN b[i - Len(a)]
                         ELSE IF i <= Len(a) + Len(b) + Len(c) THEN c[i - Len(a) - Len(b)]
                         ELSE d[i - Len(a) - Len(b) - Len(c)]
<1>1. /\ a \o b \in Seq(S) /\ Len(a \o b) = Len(a) + Len(b)
      /\ \A i \in 1 .. Len(a) + Len(b) : (a \o b)[i] = IF i <= Len(a) THEN a[i] ELSE b[i - Len(a)]
  OBVIOUS
<1> DEFINE ab == a \o b
<1> HIDE DEF ab
<1>2. /\ ab \o c \in Seq(S) /\ Len(ab \o c) = Len(ab) + Len(c)
      /\ \A i \in 1 .. Len(ab) + Len(c) : (ab \o c)[i] = IF i <= Len(ab) THEN ab[i] ELSE c[i - Len(ab)]
  BY <1>1 DEF ab
<1> DEFINE abc == ab \o c
<1> HIDE DEF abc
<1>3. /\ abc \o d \in Seq(S) /\ Len(abc \o d) = Len(abc) + Len(d)
      /\ \A i \in 1 .. Len(abc) + Len(d) : (abc \o d)[i] = IF i <= Len(abc) THEN abc[i] ELSE d[i - Len(abc)]
  BY <1>2 DEF abc
<1>4. /\ Len(a) \in Nat /\ Len(b) \in Nat /\ Len(c) \in Nat /\ Len(d) \in Nat
      /\ Len(ab) = Len(a) + Len(b) /\ Len(abc) = Len(a) + Len(b) + Len(c)
  BY <1>1, <1>2 DEF ab, abc
<1> DEFINE all == abc \o d
<1>5. DOMAIN all = 1 .. Len(all) /\ Len(all) = Len(a) + Len(b) + Len(c) + Len(d)
  BY <1>3, <1>4
<1>6. ASSUME NEW i \in 1 .. Len(all)
      PROVE  all[i] = IF i <= Len(a) THEN a[i]
                         ELSE IF i <= Len(a) + Len(b) THEN b[i - Len(a)]
                         ELSE IF i <= Len(a) + Len(b) + Len(c) THEN c[i - Len(a) - Len(b)]
                         ELSE d[i - Len(a) - Len(b) - Len(c)]
  <2>1. all[i] = IF i <= Len(abc) THEN abc[i] ELSE d[i - Len(abc)]
    BY <1>3, <1>5, <1>4
  <2>2. i <= Len(abc) => abc[i] = IF i <= Len(ab) THEN ab[i] ELSE c[i - Len(ab)]
    BY <1>2, <1>4 DEF abc
  <2>3. i <= Len(ab) => ab[i] = IF i <= Len(a) THEN a[i] ELSE b[i - Len(a)]
    BY <1>1, <1>4 DEF ab
  <2> HIDE DEF all
  <2> QED BY <2>1, <2>2, <2>3, <1>4
<1> QED BY <1>3, <1>5, <1>6 DEF all, abc, ab

\* What is required of a row: the four parts of a view's filter.
FilterParts(o) ==
    \/ o = Op("deleted", "notEqual", TRUE, Null)
    \/ o \in InSeq(ColumnOps("desk")) \/ o \in InSeq(ColumnOps("size")) \/ o \in InSeq(QuickOps)

LEMMA OperationsOfView ==
    ASSUME QueriesTypeOK
    PROVE  /\ \A col \in Columns : ColumnOps(col) \in Seq(InSeq(ColumnOps(col))) /\ Len(ColumnOps(col)) \in 0 .. 2
           /\ QuickOps \in Seq(InSeq(QuickOps)) /\ Len(QuickOps) \in 0 .. 1
<1>1. ASSUME NEW col \in Columns
      PROVE  ColumnOps(col) \in Seq(InSeq(ColumnOps(col))) /\ Len(ColumnOps(col)) \in 0 .. 2
  <2>1. CASE filterModel[col] = Null
    BY <2>1 DEF ColumnOps
  <2>2. CASE filterModel[col] # Null
    <3> DEFINE m == filterModel[col]
    <3>1. m \in Models(col)
      BY <2>2 DEF QueriesTypeOK
    <3>2. ColumnOps(col) = FilterModelToOps(col, m)
      BY <2>2 DEF ColumnOps
    <3> HIDE DEF m
    <3> QED BY <3>1, <3>2, PlainOps, PartsOfModel, InOne
  <2> QED BY <2>1, <2>2
<1>2. QuickOps \in Seq(InSeq(QuickOps)) /\ Len(QuickOps) \in 0 .. 1
  <2>1. CASE quickText = Null
    BY <2>1 DEF QuickOps
  <2>2. CASE quickText # Null
    <3> DEFINE o == SearchOp(quickText)
    <3>1. QuickOps = <<o>>
      BY <2>2 DEF QuickOps, SearchOps
    <3> HIDE DEF o
    <3> QED BY <3>1, InOne
  <2> QED BY <2>1, <2>2
<1> QED BY <1>1, <1>2

\* Each operation of a view is of one of the parts.
LEMMA ViewIsItsParts ==
    ASSUME QueriesTypeOK
    PROVE  LET n == Len(ColumnOps("desk"))
               m == Len(ColumnOps("size"))
           IN  /\ Len(ViewFilter) = 1 + n + m + Len(QuickOps) /\ DOMAIN ViewFilter = 1 .. Len(ViewFilter)
               /\ n \in Nat /\ m \in Nat /\ Len(QuickOps) \in Nat
               /\ DOMAIN ColumnOps("desk") = 1 .. n /\ DOMAIN ColumnOps("size") = 1 .. m
               /\ DOMAIN QuickOps = 1 .. Len(QuickOps)
               /\ \A i \in DOMAIN ViewFilter :
                     ViewFilter[i] = IF i = 1 THEN Op("deleted", "notEqual", TRUE, Null)
                                     ELSE IF i <= 1 + n THEN ColumnOps("desk")[i - 1]
                                     ELSE IF i <= 1 + n + m THEN ColumnOps("size")[i - 1 - n]
                                     ELSE QuickOps[i - 1 - n - m]
<1> DEFINE first == Op("deleted", "notEqual", TRUE, Null)
           b == ColumnOps("desk")
           c == ColumnOps("size")
           S == {first} \cup InSeq(b) \cup InSeq(c) \cup InSeq(QuickOps)
<1>1. /\ b \in Seq(InSeq(b)) /\ c \in Seq(InSeq(c)) /\ QuickOps \in Seq(InSeq(QuickOps))
      /\ <<first>> \in Seq({first}) /\ Len(<<first>>) = 1 /\ <<first>>[1] = first
  BY OperationsOfView, InOne DEF Columns
<1> HIDE DEF b, c, first
<1>2. <<first>> \in Seq(S) /\ b \in Seq(S) /\ c \in Seq(S) /\ QuickOps \in Seq(S)
  BY <1>1
<1> HIDE DEF S
<1> DEFINE a == <<first>>
           all == a \o b \o c \o QuickOps
<1>3. /\ Len(all) = Len(a) + Len(b) + Len(c) + Len(QuickOps) /\ DOMAIN all = 1 .. Len(all)
      /\ \A i \in 1 .. Len(all) :
                all[i] = IF i <= Len(a) THEN a[i]
                         ELSE IF i <= Len(a) + Len(b) THEN b[i - Len(a)]
                         ELSE IF i <= Len(a) + Len(b) + Len(c) THEN c[i - Len(a) - Len(b)]
                         ELSE QuickOps[i - Len(a) - Len(b) - Len(c)]
  BY <1>2, FourInARow
<1>4. ViewFilter = all
  BY DEF ViewFilter, first, b, c
<1>5. Len(b) \in Nat /\ Len(c) \in Nat /\ Len(QuickOps) \in Nat /\ Len(a) = 1 /\ a[1] = first
      /\ DOMAIN b = 1 .. Len(b) /\ DOMAIN c = 1 .. Len(c) /\ DOMAIN QuickOps = 1 .. Len(QuickOps)
  BY <1>1
<1> HIDE DEF all, a
<1>6. \A i \in DOMAIN ViewFilter :
          ViewFilter[i] = IF i = 1 THEN first
                          ELSE IF i <= 1 + Len(b) THEN b[i - 1]
                          ELSE IF i <= 1 + Len(b) + Len(c) THEN c[i - 1 - Len(b)]
                          ELSE QuickOps[i - 1 - Len(b) - Len(c)]
  <2> SUFFICES ASSUME NEW i \in DOMAIN ViewFilter
               PROVE  ViewFilter[i] = IF i = 1 THEN first
                                      ELSE IF i <= 1 + Len(b) THEN b[i - 1]
                                      ELSE IF i <= 1 + Len(b) + Len(c) THEN c[i - 1 - Len(b)]
                                      ELSE QuickOps[i - 1 - Len(b) - Len(c)]
    OBVIOUS
  <2>1. i \in 1 .. Len(all) /\ i \in Nat /\ i >= 1 BY <1>3, <1>4, <1>5
  <2>2. ViewFilter[i] = IF i <= 1 THEN a[i]
                        ELSE IF i <= 1 + Len(b) THEN b[i - 1]
                        ELSE IF i <= 1 + Len(b) + Len(c) THEN c[i - 1 - Len(b)]
                        ELSE QuickOps[i - 1 - Len(b) - Len(c)]
    BY <2>1, <1>3, <1>4, <1>5
  <2>3. i <= 1 <=> i = 1 BY <2>1
  <2> QED BY <2>2, <2>3, <1>5
<1> QED BY <1>3, <1>4, <1>5, <1>6 DEF b, c, first

LEMMA ViewRequires ==
    ASSUME QueriesTypeOK
    PROVE  InSeq(ViewFilter) = {Op("deleted", "notEqual", TRUE, Null)} \cup InSeq(ColumnOps("desk"))
                               \cup InSeq(ColumnOps("size")) \cup InSeq(QuickOps)
<1> DEFINE b == ColumnOps("desk")
           c == ColumnOps("size")
           n == Len(b)
           m == Len(c)
           first == Op("deleted", "notEqual", TRUE, Null)
<1>1. /\ Len(ViewFilter) = 1 + n + m + Len(QuickOps) /\ DOMAIN ViewFilter = 1 .. Len(ViewFilter)
      /\ n \in Nat /\ m \in Nat /\ Len(QuickOps) \in Nat
      /\ DOMAIN b = 1 .. n /\ DOMAIN c = 1 .. m
      /\ DOMAIN QuickOps = 1 .. Len(QuickOps)
      /\ \A i \in DOMAIN ViewFilter :
           ViewFilter[i] = IF i = 1 THEN first
                           ELSE IF i <= 1 + n THEN b[i - 1]
                           ELSE IF i <= 1 + n + m THEN c[i - 1 - n]
                           ELSE QuickOps[i - 1 - n - m]
  BY ViewIsItsParts
<1> HIDE DEF b, c, n, m, first
<1>2. ASSUME NEW i \in DOMAIN ViewFilter
      PROVE  ViewFilter[i] \in {first} \cup InSeq(b) \cup InSeq(c) \cup InSeq(QuickOps)
  <2>1. CASE i = 1
    BY <2>1, <1>1
  <2>2. CASE i # 1 /\ i <= 1 + n
    <3>1. ViewFilter[i] = b[i - 1] /\ i - 1 \in DOMAIN b
      BY <2>2, <1>1
    <3> QED BY <3>1 DEF InSeq
  <2>3. CASE ~(i <= 1 + n) /\ i <= 1 + n + m
    <3>1. ViewFilter[i] = c[i - 1 - n] /\ i - 1 - n \in DOMAIN c
      BY <2>3, <1>1
    <3> QED BY <3>1 DEF InSeq
  <2>4. CASE ~(i <= 1 + n + m)
    <3>1. ViewFilter[i] = QuickOps[i - 1 - n - m] /\ i - 1 - n - m \in DOMAIN QuickOps
      BY <2>4, <1>1
    <3> QED BY <3>1 DEF InSeq
  <2> QED BY <2>1, <2>2, <2>3, <2>4, <1>1
<1>3. first \in InSeq(ViewFilter)
  <2>1. 1 \in DOMAIN ViewFilter /\ ViewFilter[1] = first
    BY <1>1
  <2> QED BY <2>1 DEF InSeq
<1>4. ASSUME NEW j \in DOMAIN b
      PROVE  b[j] \in InSeq(ViewFilter)
  <2>1. j + 1 \in DOMAIN ViewFilter /\ ViewFilter[j + 1] = b[(j + 1) - 1] /\ (j + 1) - 1 = j
    BY <1>1
  <2> QED BY <2>1 DEF InSeq
<1>5. ASSUME NEW j \in DOMAIN c
      PROVE  c[j] \in InSeq(ViewFilter)
  <2>1. j + 1 + n \in DOMAIN ViewFilter /\ ViewFilter[j + 1 + n] = c[(j + 1 + n) - 1 - n] /\ (j + 1 + n) - 1 - n = j
    BY <1>1
  <2> QED BY <2>1 DEF InSeq
<1>6. ASSUME NEW j \in DOMAIN QuickOps
      PROVE  QuickOps[j] \in InSeq(ViewFilter)
  <2> DEFINE i == j + 1 + n + m
  <2>1. j \in Nat /\ j >= 1 /\ j <= Len(QuickOps)
    BY <1>1
  <2>2. i \in 1 .. Len(ViewFilter) /\ i - 1 - n - m = j /\ i # 1 /\ ~(i <= 1 + n) /\ ~(i <= 1 + n + m)
    BY <1>1, <2>1
  <2> HIDE DEF i
  <2>3. i \in DOMAIN ViewFilter /\ ViewFilter[i] = QuickOps[j]
    BY <1>1, <2>2
  <2> QED BY <2>3 DEF InSeq
<1>7. InSeq(ViewFilter) = {first} \cup InSeq(b) \cup InSeq(c) \cup InSeq(QuickOps)
  BY <1>2, <1>3, <1>4, <1>5, <1>6 DEF InSeq
<1> QED BY <1>7 DEF b, c, first

\* Of two alternatives of a view the later one has the larger number.
LEMMA OrsAreNumbered ==
    ASSUME NEW ops, NEW i \in Nat, NEW j \in Nat, i < j, j >= 1, ops[j].op = "or"
    PROVE  Cardinality({k \in 1 .. i : ops[k].op = "or"}) # Cardinality({k \in 1 .. j : ops[k].op = "or"})
<1> DEFINE A == {k \in 1 .. i : ops[k].op = "or"}
           B == {k \in 1 .. j : ops[k].op = "or"}
<1>1. IsFiniteSet(1 .. j)
  <2>1. 1 \in Int /\ j \in Int
    OBVIOUS
  <2> QED BY <2>1, FS_Interval
<1>2. IsFiniteSet(B)
  BY <1>1, FS_Subset
<1>3. A \in SUBSET B /\ j \in B /\ j \notin A
  OBVIOUS
<1> HIDE DEF A, B
<1>4. Cardinality(A) # Cardinality(B)
  BY <1>2, <1>3, FS_Subset
<1> QED BY <1>4 DEF A, B

\* An exclusion among the operations of a view is one of the text column.
LEMMA ExclusionsAreOfText ==
    ASSUME QueriesTypeOK, NEW i \in DOMAIN ViewFilter, ViewFilter[i].op = "notContains"
    PROVE  /\ i - 1 \in DOMAIN ColumnOps("desk") /\ ViewFilter[i] = ColumnOps("desk")[i - 1]
           /\ filterModel["desk"] # Null /\ filterModel["desk"] \in Models("desk")
           /\ filterModel["desk"].operator # "OR"
           /\ i - 1 \in DOMAIN filterModel["desk"].conditions
           /\ filterModel["desk"].conditions[i - 1].op = "notContains"
           /\ ViewFilter[i].column = "desk"
<1> DEFINE n == Len(ColumnOps("desk"))
           m == Len(ColumnOps("size"))
<1>1. /\ Len(ViewFilter) = 1 + n + m + Len(QuickOps) /\ DOMAIN ViewFilter = 1 .. Len(ViewFilter)
      /\ n \in Nat /\ m \in Nat /\ Len(QuickOps) \in Nat
      /\ DOMAIN ColumnOps("desk") = 1 .. n /\ DOMAIN ColumnOps("size") = 1 .. m
      /\ DOMAIN QuickOps = 1 .. Len(QuickOps)
      /\ \A k \in DOMAIN ViewFilter :
           ViewFilter[k] = IF k = 1 THEN Op("deleted", "notEqual", TRUE, Null)
                           ELSE IF k <= 1 + n THEN ColumnOps("desk")[k - 1]
                           ELSE IF k <= 1 + n + m THEN ColumnOps("size")[k - 1 - n]
                           ELSE QuickOps[k - 1 - n - m]
  BY ViewIsItsParts
<1> HIDE DEF n, m
<1>2. i # 1
  BY <1>1 DEF Op
<1>3. ASSUME ~(i <= 1 + n), i <= 1 + n + m
      PROVE  FALSE
  <2> DEFINE k == i - 1 - n
  <2>0. k \in 1 .. m /\ i # 1
    BY <1>3, <1>1
  <2>1. k \in DOMAIN ColumnOps("size") /\ ViewFilter[i] = ColumnOps("size")[k]
    BY <1>3, <1>1, <2>0
  <2> HIDE DEF k
  <2>2. filterModel["size"] # Null /\ filterModel["size"] \in Models("size")
    BY <2>1 DEF ColumnOps, QueriesTypeOK, Columns
  <2>3. PICK c \in NumberConds : filterModel["size"] = Simple(c)
    BY <2>2 DEF Models
  <2>4. ColumnOps("size") = OpsOf("size", filterModel["size"])
    BY <2>2, <2>3, PlainOps DEF ColumnOps, Simple, Columns
  <2>5. ViewFilter[i] = OpOf("size", c)
    <3>1. DOMAIN ColumnOps("size") = DOMAIN filterModel["size"].conditions
      BY <2>4 DEF OpsOf
    <3>2. filterModel["size"].conditions = <<c>>
      BY <2>3 DEF Simple
    <3> QED BY <2>1, <2>4, <3>1, <3>2 DEF OpsOf
  <2>6. c.op # "notContains"
    BY DEF NumberConds, Cond
  <2> QED BY <2>5, <2>6, OperationOfCondition DEF CondsOf, Columns
<1>4. ASSUME ~(i <= 1 + n + m)
      PROVE  FALSE
  <2> DEFINE k == i - 1 - n - m
  <2>0. i \in 1 .. 1 + n + m + Len(QuickOps)
    BY <1>1
  <2>1. k \in 1 .. Len(QuickOps) /\ ~(i <= 1 + n) /\ i # 1
    BY <1>4, <2>0, <1>1
  <2>2. ViewFilter[i] = QuickOps[k] /\ k \in DOMAIN QuickOps
    BY <1>4, <2>1, <1>1
  <2> HIDE DEF k
  <2>3. quickText # Null
    BY <2>2 DEF QuickOps
  <2> DEFINE o == SearchOp(quickText)
  <2>4. QuickOps = <<o>>
    BY <2>3 DEF QuickOps, SearchOps
  <2>5. o.op = "or"
    BY DEF SearchOp, OrOf
  <2> HIDE DEF o
  <2> QED BY <2>2, <2>4, <2>5
<1>5. i - 1 \in DOMAIN ColumnOps("desk") /\ ViewFilter[i] = ColumnOps("desk")[i - 1]
  <2>1. i \in Nat /\ i >= 1 /\ i # 1 /\ i <= 1 + n
    BY <1>1, <1>2, <1>3, <1>4
  <2>2. i - 1 \in 1 .. n
    BY <2>1, <1>1
  <2> QED BY <1>1, <2>1, <2>2
<1> DEFINE d == filterModel["desk"]
<1>6. d # Null /\ d \in Models("desk")
  BY <1>5 DEF ColumnOps, QueriesTypeOK, Columns
<1>7. ColumnOps("desk") = FilterModelToOps("desk", d)
  BY <1>6 DEF ColumnOps
<1> HIDE DEF d
<1>8. d.operator # "OR"
  <2> SUFFICES ASSUME d.operator = "OR" PROVE FALSE
    OBVIOUS
  <2> DEFINE o == OrOf(InSeq(OpsOf("desk", d)))
  <2>1. ColumnOps("desk") = <<o>>
    BY <1>6, <1>7, PlainOps DEF Columns
  <2>2. o.op = "or"
    BY DEF OrOf
  <2> HIDE DEF o
  <2> QED BY <1>5, <2>1, <2>2
<1>9. ColumnOps("desk") = OpsOf("desk", d)
  BY <1>6, <1>7, <1>8, PlainOps DEF Columns
<1>10. i - 1 \in DOMAIN d.conditions /\ ViewFilter[i] = OpOf("desk", d.conditions[i - 1])
  BY <1>5, <1>9 DEF OpsOf
<1>11. d.conditions[i - 1] \in CondsOf("desk")
  BY <1>6, <1>10, PartsOfModel DEF Columns
<1>12. d.conditions[i - 1].op = "notContains" /\ ViewFilter[i].column = "desk"
  BY <1>10, <1>11, OperationOfCondition DEF Columns
<1> QED BY <1>5, <1>6, <1>8, <1>10, <1>12 DEF d

\* The engine is given, for each name of a computed column, the expression of
\* the operation that has it.
LEMMA ExpressionsAreTheirs ==
    ASSUME QueriesTypeOK, ~ExcludesTwice, NEW i \in Computed(ViewFilter)
    PROVE  Expressions(ViewFilter)[ColumnName(ViewFilter, i)] = ViewFilter[i]
<1> DEFINE ops == ViewFilter
<1>0. DOMAIN ops = 1 .. Len(ops) /\ Len(ops) \in Nat
  BY ViewIsItsParts
<1>1. ASSUME NEW j \in Computed(ops), NEW k \in Computed(ops), ColumnName(ops, j) = ColumnName(ops, k), j # k
      PROVE  FALSE
  <2>0. /\ j \in DOMAIN ops /\ k \in DOMAIN ops /\ j \in Nat /\ k \in Nat /\ j >= 1 /\ k >= 1
        /\ ops[j].op \in {"or", "notContains"} /\ ops[k].op \in {"or", "notContains"}
    BY <1>0 DEF Computed
  <2>1. CASE ops[j].op = "or" /\ ops[k].op = "or"
    <3>1. Cardinality({x \in 1 .. j : ops[x].op = "or"}) = Cardinality({x \in 1 .. k : ops[x].op = "or"})
      BY <1>1, <2>1 DEF ColumnName
    <3>2. j < k \/ k < j
      BY <1>1, <2>0
    <3> QED BY <2>0, <2>1, <3>1, <3>2, OrsAreNumbered
  <2>2. CASE ops[j].op = "or" /\ ops[k].op # "or"
    <3>1. ColumnName(ops, j)[1] = "or" /\ ColumnName(ops, k)[1] = "nc"
      BY <2>2 DEF ColumnName
    <3> QED BY <1>1, <3>1
  <2>3. CASE ops[j].op # "or" /\ ops[k].op = "or"
    <3>1. ColumnName(ops, j)[1] = "nc" /\ ColumnName(ops, k)[1] = "or"
      BY <2>3 DEF ColumnName
    <3> QED BY <1>1, <3>1
  <2>4. CASE ops[j].op = "notContains" /\ ops[k].op = "notContains"
    <3> DEFINE d == filterModel["desk"]
    <3>1. /\ d # Null /\ d \in Models("desk") /\ d.operator # "OR"
          /\ j - 1 \in DOMAIN d.conditions /\ d.conditions[j - 1].op = "notContains"
          /\ k - 1 \in DOMAIN d.conditions /\ d.conditions[k - 1].op = "notContains"
      BY <2>0, <2>4, ExclusionsAreOfText
    <3> HIDE DEF d
    <3>2. /\ DOMAIN d.conditions = 1 .. Len(d.conditions) /\ Len(d.conditions) \in 1 .. 2
          /\ d.operator \in {"none", "AND", "OR"}
          /\ Len(d.conditions) = 2 => d.operator # "none"
      BY <3>1, PartsOfModel DEF Columns
    <3> DEFINE x == j - 1
               y == k - 1
               l == Len(d.conditions)
    <3>5. x # y /\ x \in Int /\ y \in Int
      BY <2>0, <1>1
    <3>6. x \in 1 .. l /\ y \in 1 .. l /\ l \in 1 .. 2
      BY <3>1, <3>2
    <3> HIDE DEF x, y, l
    <3>7. l = 2 /\ 1 .. l = {x, y}
      BY <3>5, <3>6
    <3>3. l = 2 /\ DOMAIN d.conditions = {x, y}
      BY <3>2, <3>7 DEF l
    <3>8. d.operator = "AND"
      BY <3>1, <3>2, <3>3 DEF l
    <3>9. d.conditions[x].op = "notContains" /\ d.conditions[y].op = "notContains"
      BY <3>1 DEF x, y
    <3>4. \A c \in InSeq(d.conditions) : c.op = "notContains"
      BY <3>3, <3>9 DEF InSeq
    <3> QED BY <3>1, <3>8, <3>4 DEF ExcludesTwice, d
  <2> QED BY <2>0, <2>1, <2>2, <2>3, <2>4
<1> DEFINE name == ColumnName(ops, i)
           same == {k \in Computed(ops) : ColumnName(ops, k) = name}
<1>2. same = {i}
  BY <1>1
<1>3. i \in Nat
  BY <1>0 DEF Computed
<1>4. Max(same) = i
  <2>1. Max({i}) = i
    BY <1>3 DEF Max
  <2> QED BY <1>2, <2>1
<1>5. Expressions(ops)[name] = ops[Max(same)]
  <2>1. name \in {ColumnName(ops, k) : k \in Computed(ops)}
    OBVIOUS
  <2> QED BY <2>1 DEF Expressions
<1> QED BY <1>4, <1>5

\* A grid on the engine selects by the operations of its view.
LEMMA EngineLooksAtAll ==
    ASSUME QueriesTypeOK, ~ExcludesTwice, NEW row \in Rows
    PROVE  EngineSelects(row) <=> \A o \in InSeq(ViewFilter) : Matches(o, row)
<1>1. EngineSelects(row) <=> \A i \in DOMAIN ViewFilter :
            Matches(IF i \in Computed(ViewFilter) THEN Expressions(ViewFilter)[ColumnName(ViewFilter, i)]
                    ELSE ViewFilter[i], row)
  BY DEF EngineSelects
<1>2. EngineSelects(row) <=> \A i \in DOMAIN ViewFilter : Matches(ViewFilter[i], row)
  BY <1>1, ExpressionsAreTheirs
<1> QED BY <1>2 DEF InSeq

\* What a column's filter and the quick filter ask for, put together.
LEMMA PartsSelect ==
    ASSUME QueriesTypeOK, NEW row \in Rows
    PROVE  /\ \A col \in Columns :
                (\A o \in InSeq(ColumnOps(col)) : Matches(o, row))
                <=> (filterModel[col] # Null => ColumnPredicate(filterModel[col], row[col]))
           /\ (\A o \in InSeq(QuickOps) : Matches(o, row)) <=> (quickText # Null => SearchPredicate(quickText, row))
<1>0. InSeq(<<>>) = {}
  BY DEF InSeq
<1>1. ASSUME NEW col \in Columns
      PROVE  (\A o \in InSeq(ColumnOps(col)) : Matches(o, row))
             <=> (filterModel[col] # Null => ColumnPredicate(filterModel[col], row[col]))
  <2>1. CASE filterModel[col] = Null
    BY <2>1, <1>0 DEF ColumnOps
  <2>2. CASE filterModel[col] # Null
    <3>1. filterModel[col] \in Models(col)
      BY <2>2 DEF QueriesTypeOK
    <3> QED BY <2>2, <3>1, FiltersAgree DEF ColumnOps
  <2> QED BY <2>1, <2>2
<1>2. (\A o \in InSeq(QuickOps) : Matches(o, row)) <=> (quickText # Null => SearchPredicate(quickText, row))
  <2>1. CASE quickText = Null
    BY <2>1, <1>0 DEF QuickOps
  <2>2. CASE quickText # Null
    <3> DEFINE o == SearchOp(quickText)
    <3>2. QuickOps = <<o>>
      BY <2>2 DEF QuickOps, SearchOps
    <3>3. Matches(o, row) <=> SearchPredicate(quickText, row)
      BY <2>2, SearchesAgree
    <3> HIDE DEF o
    <3> QED BY <2>2, <3>2, <3>3, InOne
  <2> QED BY <2>1, <2>2
<1> QED BY <1>1, <1>2

LEMMA EngineSelectsAlike ==
    ASSUME QueriesTypeOK, ~ExcludesTwice, NEW row \in Rows
    PROVE  CsrmSelects(row) <=> EngineSelects(row)
<1>1. EngineSelects(row) <=>
        /\ Matches(Op("deleted", "notEqual", TRUE, Null), row)
        /\ \A o \in InSeq(ColumnOps("desk")) : Matches(o, row)
        /\ \A o \in InSeq(ColumnOps("size")) : Matches(o, row)
        /\ \A o \in InSeq(QuickOps) : Matches(o, row)
  BY EngineLooksAtAll, ViewRequires
<1>2. Matches(Op("deleted", "notEqual", TRUE, Null), row) <=> ~row.deleted
  BY DeletedAreLeftOut
<1>3. RowPredicate(row) <=> /\ \A o \in InSeq(ColumnOps("desk")) : Matches(o, row)
                           /\ \A o \in InSeq(ColumnOps("size")) : Matches(o, row)
  BY PartsSelect DEF RowPredicate, Columns
<1> QED BY <1>1, <1>2, <1>3, PartsSelect DEF CsrmSelects

-----------------------------------------------------------------------------
(* The second engine.                                                       *)

EqOf(col, v) == Op(col, IF v = Null THEN "equals" ELSE "equalsIgnoreCase", v, Null)

\* The equalities that a set of values becomes select a text as the set does,
\* when it has no blanks and with a text all those of its spelling.
LEMMA EqualitiesAgree ==
    ASSUME NEW set \in SUBSET DeskCells, Null \notin set,
           \A v \in set \ {Null}, w \in Texts \ set : Fold(v) # Fold(w),
           NEW v \in DeskCells
    PROVE  (\E o \in {EqOf("desk", w) : w \in set} : EvalOp(o, v)) <=> v \in set
<1>1. ASSUME NEW w \in set
      PROVE  EvalOp(EqOf("desk", w), v) <=> v # Null /\ Fold(v) = Fold(w)
  <2> DEFINE o == EqOf("desk", w)
  <2>1. w # Null /\ o.column = "desk" /\ o.op = "equalsIgnoreCase" /\ o.value = w
    BY DEF EqOf, Op
  <2> HIDE DEF o
  <2>4. EvalOp(o, v) <=> v # Null /\ Fold(v) = Fold(w)
    <3>1. CASE v = Null
      BY <2>1, <3>1, SpellingOfCase DEF EvalOp
    <3>2. CASE v # Null
      BY <2>1, <3>2, SpellingOfCase DEF EvalOp, SearchColumns, TextTests
    <3> QED BY <3>1, <3>2
  <2> QED BY <2>4 DEF o
<1>2. (\E o \in {EqOf("desk", w) : w \in set} : EvalOp(o, v)) <=> \E w \in set : EvalOp(EqOf("desk", w), v)
  OBVIOUS
<1>3. (\E w \in set : v # Null /\ Fold(v) = Fold(w)) <=> v \in set
  BY DEF DeskCells
<1> QED BY <1>1, <1>2, <1>3

LEMMA NodesOfCondition ==
    ASSUME NEW col \in Columns, NEW c \in CondsOf(col)
    PROVE  LET eqs == {EqOf(col, v) : v \in c.arg} IN
           NodesOf(col, c) = IF c.kind # "set" THEN {OpOf(col, c)}
                             ELSE IF c.arg = {} THEN {Op(col, "in", {}, Null)}
                             ELSE IF Cardinality(eqs) = 1 THEN eqs ELSE {OrOf(eqs)}
BY DEF NodesOf, EqOf

\* What a set filter becomes selects as the set.
LEMMA SetNodesAgree ==
    ASSUME NEW c \in SetConds, Null \notin c.arg,
           \A v \in c.arg \ {Null}, w \in Texts \ c.arg : Fold(v) # Fold(w),
           NEW row \in Rows
    PROVE  (\A o \in NodesOf("desk", c) : Matches(o, row)) <=> row.desk \in c.arg
<1> DEFINE set == c.arg
           eqs == {EqOf("desk", v) : v \in set}
<1>1. c.kind = "set" /\ set \in SUBSET DeskCells /\ row.desk \in DeskCells
  BY DEF SetConds, Cond, Rows
<1>2. \A o \in eqs : o.column = "desk" /\ o.op # "or"
  BY DEF EqOf, Op
<1>3. (\E o \in eqs : EvalOp(o, row.desk)) <=> row.desk \in set
  BY <1>1, EqualitiesAgree
<1>4. NodesOf("desk", c) = IF set = {} THEN {Op("desk", "in", {}, Null)}
                           ELSE IF Cardinality(eqs) = 1 THEN eqs ELSE {OrOf(eqs)}
  BY <1>1, NodesOfCondition DEF CondsOf, Columns
<1>5. row["desk"] = row.desk
  OBVIOUS
<1>6. IsFiniteSet(eqs)
  <2>1. IsFiniteSet(DeskCells)
    <3>1. IsFiniteSet({Null}) /\ IsFiniteSet(Texts)
      BY FS_Singleton, QueryAssumption
    <3> QED BY <3>1, FS_Union DEF DeskCells
  <2>2. IsFiniteSet(set)
    BY <1>1, <2>1, FS_Subset
  <2> DEFINE f == [v \in set |-> EqOf("desk", v)]
  <2>3. f \in Surjection(set, eqs)
    <3>1. f \in [set -> eqs]
      OBVIOUS
    <3>2. \A e \in eqs : \E v \in set : f[v] = e
      OBVIOUS
    <3> HIDE DEF f, eqs
    <3> QED BY <3>1, <3>2 DEF Surjection
  <2> HIDE DEF f, eqs
  <2> QED BY <2>2, <2>3, FS_Surjection
<1>7. CASE set = {}
  <2> DEFINE o == Op("desk", "in", {}, Null)
  <2>1. NodesOf("desk", c) = {o}
    BY <1>4, <1>7
  <2>2. o.op = "in" /\ o.column = "desk" /\ o.value = {}
    BY DEF Op
  <2> HIDE DEF o
  <2>3. ~EvalOp(o, row.desk)
    BY <2>2, SpellingOfCase DEF EvalOp
  <2> QED BY <2>1, <2>2, <2>3, <1>7, <1>5 DEF Matches
<1>8. CASE set # {} /\ Cardinality(eqs) = 1
  <2>1. PICK e : eqs = {e}
    BY <1>6, <1>8, FS_Singleton
  <2>2. NodesOf("desk", c) = {e}
    BY <1>4, <1>8, <2>1
  <2>3. Matches(e, row) <=> EvalOp(e, row.desk)
    BY <1>2, <1>5, <2>1 DEF Matches
  <2> HIDE DEF eqs
  <2> QED BY <1>3, <2>1, <2>2, <2>3
<1>9. CASE set # {} /\ Cardinality(eqs) # 1
  <2>1. NodesOf("desk", c) = {OrOf(eqs)}
    BY <1>4, <1>9
  <2>2. Matches(OrOf(eqs), row) <=> \E o \in eqs : EvalOp(o, row[o.column])
    BY OrIsAlternatives DEF Matches
  <2>3. Matches(OrOf(eqs), row) <=> \E o \in eqs : EvalOp(o, row.desk)
    BY <2>2, <1>2, <1>5
  <2> HIDE DEF eqs
  <2> QED BY <1>3, <2>1, <2>3
<1> QED BY <1>7, <1>8, <1>9

\* What the second engine is asked of one condition.
LEMMA NodesOfConditionAgree ==
    ASSUME NEW col \in Columns, NEW c \in CondsOf(col), NEW row \in Rows,
           c.kind = "set" => /\ Null \notin c.arg
                             /\ \A v \in c.arg \ {Null}, w \in Texts \ c.arg : Fold(v) # Fold(w)
    PROVE  (\A o \in NodesOf(col, c) : Matches(o, row)) <=> ConditionPredicate(c, row[col])
<1>1. CASE c.kind # "set"
  BY <1>1, NodesOfCondition, ConditionsAgree
<1>2. CASE c.kind = "set"
  <2>1. col = "desk" /\ c \in SetConds
    BY <1>2 DEF CondsOf, Columns, NumberConds, TextConds, Cond
  <2>2. ConditionPredicate(c, row.desk) <=> row.desk \in c.arg
    <3>1. c.op = "in"
      BY <2>1 DEF SetConds, Cond
    <3> QED BY <1>2, <3>1 DEF ConditionPredicate
  <2>3. row["desk"] = row.desk
    OBVIOUS
  <2> QED BY <1>2, <2>1, <2>2, <2>3, SetNodesAgree
<1> QED BY <1>1, <1>2

LEMMA NodesAgree ==
    ASSUME NEW col \in Columns, NEW m \in Models(col), NEW row \in Rows,
           \A c \in InSeq(m.conditions) :
               c.kind = "set" => /\ Null \notin c.arg
                                 /\ \A v \in c.arg \ {Null}, w \in Texts \ c.arg : Fold(v) # Fold(w)
    PROVE  (\A o \in FilterModelToNodes(col, m) : Matches(o, row)) <=> ColumnPredicate(m, row[col])
<1> DEFINE parts == UNION {NodesOf(col, c) : c \in InSeq(m.conditions)}
<1>1. \A c \in InSeq(m.conditions) : c \in CondsOf(col)
  BY PartsOfModel DEF InSeq
<1>2. FilterModelToNodes(col, m) = IF m.operator = "OR" THEN {OrOf(parts)} ELSE parts
  BY DEF FilterModelToNodes
<1>3. CASE m.operator # "OR"
  <2>1. (\A o \in parts : Matches(o, row)) <=> \A c \in InSeq(m.conditions) : \A o \in NodesOf(col, c) : Matches(o, row)
    OBVIOUS
  <2> HIDE DEF parts
  <2> QED BY <1>1, <1>2, <1>3, <2>1, NodesOfConditionAgree DEF ColumnPredicate
<1>4. CASE m.operator = "OR"
  <2>1. \A c \in InSeq(m.conditions) : c \in TextConds
    BY <1>4, PartsOfModel DEF InSeq
  <2>2. ASSUME NEW c \in InSeq(m.conditions)
        PROVE  NodesOf(col, c) = {OpOf(col, c)}
    <3>1. c \in TextConds /\ c \in CondsOf(col)
      BY <2>1, <1>1
    <3>2. c.kind # "set"
      BY <3>1 DEF TextConds, Cond
    <3> QED BY <3>1, <3>2, NodesOfCondition
  <2>3. parts = {OpOf(col, c) : c \in InSeq(m.conditions)}
    BY <2>2
  <2> HIDE DEF parts
  <2>4. Matches(OrOf(parts), row) <=> \E o \in parts : EvalOp(o, row[o.column])
    BY OrIsAlternatives DEF Matches
  <2>5. (\E o \in parts : EvalOp(o, row[o.column]))
        <=> \E c \in InSeq(m.conditions) : EvalOp(OpOf(col, c), row[OpOf(col, c).column])
    BY <2>3
  <2>6. (\A o \in FilterModelToNodes(col, m) : Matches(o, row)) <=> Matches(OrOf(parts), row)
    BY <1>2, <1>4
  <2> QED BY <1>1, <1>4, <2>4, <2>5, <2>6, ConditionsAgree DEF ColumnPredicate
<1> QED BY <1>3, <1>4

LEMMA PlaneSelectsAlike ==
    ASSUME QueriesTypeOK, ~OpenSet, NEW row \in Rows, ~row.deleted
    PROVE  /\ CsrmSelects(row) => PlaneSelects(row)
           /\ SearchesOneWord => (PlaneSelects(row) => CsrmSelects(row))
<1>1. ASSUME NEW col \in Columns, filterModel[col] # Null
      PROVE  (\A o \in FilterModelToNodes(col, filterModel[col]) : Matches(o, row))
             <=> ColumnPredicate(filterModel[col], row[col])
  <2> DEFINE m == filterModel[col]
  <2>1. m \in Models(col)
    BY <1>1 DEF QueriesTypeOK
  <2>2. ASSUME NEW c \in InSeq(m.conditions), c.kind = "set"
        PROVE  /\ Null \notin c.arg
               /\ \A v \in c.arg \ {Null}, w \in Texts \ c.arg : Fold(v) # Fold(w)
    <3>1. PICK i \in DOMAIN m.conditions : c = m.conditions[i]
      BY <2>2 DEF InSeq
    <3> HIDE DEF m
    <3>2. c \in CondsOf(col) /\ c \notin TextConds /\ c \notin NumberConds
      BY <2>1, <2>2, <3>1, PartsOfModel DEF TextConds, NumberConds, Cond
    <3>3. col = "desk"
      BY <3>2 DEF CondsOf, Columns
    <3>4. Len(m.conditions) = 1 /\ i = 1
      BY <2>1, <3>1, <3>2, PartsOfModel
    <3>5. filterModel["desk"] # Null /\ filterModel["desk"].conditions[1] = c
      BY <3>1, <3>3, <3>4, <1>1 DEF m
    <3> QED BY <2>2, <3>5 DEF OpenSet
  <2> HIDE DEF m
  <2>3. (\A o \in FilterModelToNodes(col, m) : Matches(o, row)) <=> ColumnPredicate(m, row[col])
    BY <2>1, <2>2, NodesAgree
  <2> QED BY <2>3 DEF m
<1>2. PlaneSelects(row) <=>
        /\ \A col \in {x \in Columns : filterModel[x] # Null} :
              \A o \in FilterModelToNodes(col, filterModel[col]) : Matches(o, row)
        /\ quickText # Null => \A word \in WordsOf[quickText] : Matches(SearchOp(word), row)
  <2> DEFINE filtered == UNION {FilterModelToNodes(col, filterModel[col]) : col \in {x \in Columns : filterModel[x] # Null}}
             searched == IF quickText = Null THEN {} ELSE {SearchOp(word) : word \in WordsOf[quickText]}
  <2>1. PlaneNodes = filtered \cup searched
    BY DEF PlaneNodes
  <2>2. (\A o \in filtered : Matches(o, row)) <=>
          \A col \in {x \in Columns : filterModel[x] # Null} :
              \A o \in FilterModelToNodes(col, filterModel[col]) : Matches(o, row)
    OBVIOUS
  <2>3. (\A o \in searched : Matches(o, row)) <=>
          (quickText # Null => \A word \in WordsOf[quickText] : Matches(SearchOp(word), row))
    OBVIOUS
  <2> HIDE DEF filtered, searched
  <2> QED BY <2>1, <2>2, <2>3 DEF PlaneSelects
<1>3. RowPredicate(row) <=> \A col \in {x \in Columns : filterModel[x] # Null} :
                               \A o \in FilterModelToNodes(col, filterModel[col]) : Matches(o, row)
  BY <1>1 DEF RowPredicate
<1>4. quickText # Null =>
        /\ quickText \in Searches
        /\ \A word \in WordsOf[quickText] : word # Null /\ word.pieces \subseteq quickText.pieces
  BY QueryAssumption DEF QueriesTypeOK
<1>5. ASSUME quickText # Null, NEW word \in WordsOf[quickText], SearchPredicate(quickText, row)
      PROVE  Matches(SearchOp(word), row)
  <2>1. SearchPredicate(word, row)
    BY <1>4, <1>5, PartsAreFound
  <2> QED BY <1>4, <1>5, <2>1, SearchesAgree
<1>6. ASSUME quickText # Null, SearchesOneWord, \A word \in WordsOf[quickText] : Matches(SearchOp(word), row)
      PROVE  SearchPredicate(quickText, row)
  <2>1. Matches(SearchOp(quickText), row)
    BY <1>6 DEF SearchesOneWord
  <2> QED BY <1>6, <2>1, SearchesAgree
<1> QED BY <1>2, <1>3, <1>5, <1>6 DEF CsrmSelects

-----------------------------------------------------------------------------
(* The filters and the search of a grid are of those it can hold            *)
(* (FilterModel and the quick-filter box).                                  *)
THEOREM FiltersTyped == QuerySpec => []QueriesTypeOK
<1>1. QueryInit => QueriesTypeOK
  BY DEF QueryInit, QueriesTypeOK
<1>2. QueriesTypeOK /\ [QueryNext]_queryVars => QueriesTypeOK'
  <2> SUFFICES ASSUME QueriesTypeOK, [QueryNext]_queryVars PROVE QueriesTypeOK'
    OBVIOUS
  <2>1. CASE Search
    BY <2>1 DEF Search, QueriesTypeOK
  <2>2. ASSUME NEW col \in Columns, SetFilter(col) PROVE QueriesTypeOK'
    <3>1. PICK m \in Models(col) : filterModel' = [filterModel EXCEPT ![col] = m]
      BY <2>2 DEF SetFilter
    <3>2. \A x \in Columns : filterModel'[x] = filterModel[x] \/ (x = col /\ filterModel'[x] = m)
      BY <3>1
    <3>3. quickText' = quickText
      BY <2>2 DEF SetFilter
    <3> QED BY <3>2, <3>3 DEF QueriesTypeOK
  <2>3. CASE UNCHANGED queryVars
    BY <2>3 DEF queryVars, QueriesTypeOK
  <2> QED BY <2>1, <2>2, <2>3 DEF QueryNext
<1> QED BY <1>1, <1>2, PTL DEF QuerySpec

(* Whatever a user filters by, for any texts and numbers, a grid that       *)
(* filters its own rows (filter.mjs) and grids on either engine             *)
(* (viewspec.mjs, toViewSpec.ts) select the same rows, but for two          *)
(* exclusions of one column and sets with blanks or part of a spelling; of  *)
(* a search of several words the second engine selects more.                *)
THEOREM GridsAgree == QuerySpec => []GridsSelectAlike
<1>1. QueriesTypeOK => GridsSelectAlike
  BY EngineSelectsAlike, PlaneSelectsAlike DEF GridsSelectAlike
<1> QED BY <1>1, FiltersTyped, PTL

------------------------------------------------------------------------------
(* The questions a grid asks the hub.                                       *)

Books == [BookKeys -> BookRows]

LEMMA LeastOfTwo ==
    ASSUME NEW a \in Int, NEW b \in Int
    PROVE  Min({a, b}) = IF a <= b THEN a ELSE b
BY DEF Min

LEMMA LeastOfThree ==
    ASSUME NEW a \in Int, NEW b \in Int, NEW c \in Int
    PROVE  Min({a, b, c}) = IF a <= b /\ a <= c THEN a ELSE IF b <= c THEN b ELSE c
BY DEF Min

LEMMA MarksAreOrdered ==
    ASSUME NEW marks \in SUBSET Marks
    PROVE  /\ IsFiniteSet(marks) /\ Cardinality(marks) \in Nat /\ Cardinality(marks) <= Cardinality(Marks)
           /\ IsOrder(marks, {p \in marks \X marks : p[1] < p[2]})
<1>1. marks \subseteq Nat BY HubQueriesAssumption
<1>2. IsFiniteSet(marks) /\ Cardinality(marks) <= Cardinality(Marks) BY HubQueriesAssumption, FS_Subset
<1>3. Cardinality(marks) \in Nat BY <1>2, FS_CardinalityType
<1>4. IsOrder(marks, {p \in marks \X marks : p[1] < p[2]})
  <2> DEFINE R == {p \in marks \X marks : p[1] < p[2]}
  <2>1. \A x, y \in marks : <<x, y>> \in R <=> x < y OBVIOUS
  <2> HIDE DEF R
  <2>2. \A x \in marks : <<x, x>> \notin R BY <1>1, <2>1
  <2>3. ASSUME NEW x \in marks, NEW y \in marks
        PROVE  x = y \/ <<x, y>> \in R \/ <<y, x>> \in R
    <3>1. x \in Nat /\ y \in Nat BY <1>1
    <3>2. x = y \/ x < y \/ y < x BY <3>1
    <3> QED BY <2>1, <3>2
  <2>4. \A x, y, z \in marks : <<x, y>> \in R /\ <<y, z>> \in R => <<x, z>> \in R BY <1>1, <2>1
  <2>5. IsOrder(marks, R) BY <2>2, <2>3, <2>4 DEF IsOrder
  <2> QED BY <2>5 DEF R
<1> QED BY <1>2, <1>3, <1>4

LEMMA RowsAreOrdered ==
    ASSUME NEW b \in Books, NEW keys \in SUBSET BookKeys
    PROVE  /\ IsFiniteSet(keys) /\ Cardinality(keys) \in Nat
           /\ IsOrder(keys, {p \in keys \X keys : Before(b, p[1], p[2])})
           /\ MarksOf(b, keys) \in SUBSET Marks
<1>1. keys \subseteq Nat BY HubQueriesAssumption
<1>2. IsFiniteSet(keys) BY HubQueriesAssumption, FS_Subset
<1>3. Cardinality(keys) \in Nat BY <1>2, FS_CardinalityType
<1>4. \A k \in BookKeys : b[k].mark \in Marks
  <2>1. \A row \in [mark : Marks, deleted : BOOLEAN, there : {TRUE}] : row.mark \in Marks OBVIOUS
  <2>2. NotInBook.mark \in Marks BY HubQueriesAssumption DEF NotInBook
  <2> QED BY <2>1, <2>2 DEF Books, BookRows
<1>5. \A k \in keys : b[k].mark \in Nat BY <1>4, HubQueriesAssumption
<1>6. IsOrder(keys, {p \in keys \X keys : Before(b, p[1], p[2])})
  <2> DEFINE R == {p \in keys \X keys : Before(b, p[1], p[2])}
             m == [k \in keys |-> b[k].mark]
  <2>1. \A x, y \in keys : <<x, y>> \in R <=> m[x] < m[y] \/ (m[x] = m[y] /\ x < y) BY DEF Before
  <2>2. m \in [keys -> Nat] BY <1>5
  <2> HIDE DEF R, m
  <2>3. \A x \in keys : <<x, x>> \notin R BY <1>1, <2>1, <2>2
  <2>4. ASSUME NEW x \in keys, NEW y \in keys
        PROVE  x = y \/ <<x, y>> \in R \/ <<y, x>> \in R
    <3>1. x \in Nat /\ y \in Nat /\ m[x] \in Nat /\ m[y] \in Nat BY <1>1, <2>2
    <3>2. x = y \/ x < y \/ y < x BY <3>1
    <3>3. m[x] = m[y] \/ m[x] < m[y] \/ m[y] < m[x] BY <3>1
    <3> QED BY <2>1, <3>2, <3>3
  <2>5. \A x, y, z \in keys : <<x, y>> \in R /\ <<y, z>> \in R => <<x, z>> \in R BY <1>1, <2>1, <2>2
  <2>6. IsOrder(keys, R) BY <2>3, <2>4, <2>5 DEF IsOrder
  <2> QED BY <2>6 DEF R
<1>7. MarksOf(b, keys) \in SUBSET Marks BY <1>4 DEF MarksOf
<1> QED BY <1>2, <1>3, <1>6, <1>7

\* The rows of a view.
LEMMA RowsOfView ==
    ASSUME NEW b \in Books, NEW keys \in SUBSET BookKeys
    PROVE  /\ RowsIn(b, keys) \in Seq(keys) /\ Len(RowsIn(b, keys)) = Cardinality(keys)
           /\ Cardinality(keys) \in Nat
           /\ \A i \in 1 .. Cardinality(keys) : Cardinality({l \in keys : Before(b, l, RowsIn(b, keys)[i])}) = i - 1
           /\ \A k \in keys : \E i \in 1 .. Cardinality(keys) : RowsIn(b, keys)[i] = k
<1> DEFINE R == {p \in keys \X keys : Before(b, p[1], p[2])}
<1>1. RowsIn(b, keys) = Ranked(keys, R) BY DEF RowsIn
<1>2. ASSUME NEW k \in keys PROVE Below(keys, R, k) = {l \in keys : Before(b, l, k)} BY DEF Below
<1> HIDE DEF R
<1>3. IsFiniteSet(keys) /\ IsOrder(keys, R) BY RowsAreOrdered DEF R
<1> DEFINE s == Ranked(keys, R)
           n == Cardinality(keys)
<1>4. /\ s \in Seq(keys) /\ Len(s) = n /\ n \in Nat
      /\ \A i \in 1 .. n : Cardinality(Below(keys, R, s[i])) = i - 1
      /\ \A k \in keys : \E i \in 1 .. n : s[i] = k
  BY <1>3, RankedIsSorted
<1> HIDE DEF s, n
<1>5. \A i \in 1 .. n : s[i] \in keys BY <1>4
<1>6. \A i \in 1 .. n : Cardinality({l \in keys : Before(b, l, s[i])}) = i - 1 BY <1>2, <1>4, <1>5
<1>7. RowsIn(b, keys) = s BY <1>1 DEF s
<1> QED BY <1>4, <1>6, <1>7 DEF n

\* Marks in order.
LEMMA MarksInOrder ==
    ASSUME NEW marks \in SUBSET Marks
    PROVE  /\ InOrder(marks) \in Seq(marks) /\ Len(InOrder(marks)) = Cardinality(marks) /\ Cardinality(marks) \in Nat
           /\ \A v \in marks : \E i \in 1 .. Cardinality(marks) : InOrder(marks)[i] = v
           /\ \A i, j \in 1 .. Cardinality(marks) : i < j => InOrder(marks)[i] < InOrder(marks)[j]
<1> DEFINE R == {p \in marks \X marks : p[1] < p[2]}
           s == Ranked(marks, R)
           n == Cardinality(marks)
<1>1. InOrder(marks) = s BY DEF InOrder
<1>2. IsFiniteSet(marks) /\ IsOrder(marks, R) BY MarksAreOrdered
<1>3. \A x, y : <<x, y>> \in R => x < y OBVIOUS
<1> HIDE DEF R
<1>4. /\ s \in Seq(marks) /\ Len(s) = n /\ n \in Nat
      /\ \A v \in marks : \E i \in 1 .. n : s[i] = v
      /\ \A i, j \in 1 .. n : i < j => <<s[i], s[j]>> \in R
  BY <1>2, RankedIsSorted
<1> HIDE DEF s
<1>5. \A i, j \in 1 .. n : i < j => s[i] < s[j] BY <1>3, <1>4
<1> QED BY <1>1, <1>4, <1>5

\* What is ascending and is all of a set of marks is the marks in order.
LEMMA AscendingIsInOrder ==
    ASSUME NEW marks \in SUBSET Marks, NEW t \in Seq(marks),
           \A i, j \in 1 .. Len(t) : i < j => t[i] < t[j],
           \A v \in marks : \E i \in 1 .. Len(t) : t[i] = v
    PROVE  t = InOrder(marks)
<1> DEFINE R == {p \in marks \X marks : p[1] < p[2]}
<1>1. \A i \in 1 .. Len(t) : t[i] \in marks OBVIOUS
<1>2. \A i, j \in 1 .. Len(t) : i < j => <<t[i], t[j]>> \in R BY <1>1
<1>3. IsFiniteSet(marks) /\ IsOrder(marks, R) BY MarksAreOrdered
<1>4. InOrder(marks) = Ranked(marks, R) BY DEF InOrder
<1> HIDE DEF R
<1>5. t = Ranked(marks, R) BY <1>2, <1>3, SortedIsRanked
<1> QED BY <1>4, <1>5

\* In a table that the two can be compared on, the view has the tab's rows.
LEMMA SameRows ==
    ASSUME NEW b \in Books, NEW q, Comparable(b, q)
    PROVE  /\ ViewKeys(b, q) = CsrmKeys(b, q)
           /\ ViewKeys(b, q) \in SUBSET BookKeys /\ Cardinality(ViewKeys(b, q)) \in Nat
           /\ MarksOf(b, ViewKeys(b, q)) \in SUBSET Marks
<1>1. ViewKeys(b, q) = CsrmKeys(b, q)
  <2>1. CASE q.kind = "rank" BY <2>1 DEF Comparable
  <2>2. CASE q.kind # "rank" BY <2>2 DEF Comparable, ViewKeys, CsrmKeys, FilterSent
  <2> QED BY <2>1, <2>2
<1>2. ViewKeys(b, q) \in SUBSET BookKeys BY DEF ViewKeys
<1> QED BY <1>1, <1>2, RowsAreOrdered

\* As many values as were asked for are all of them.
LEMMA DistinctReadWhole ==
    ASSUME NEW b \in Books, NEW q, NEW limit \in Nat,
           Cardinality(MarksOf(b, ViewKeys(b, q))) <= limit
    PROVE  DistinctRead(b, q, limit) = InOrder(MarksOf(b, ViewKeys(b, q)))
<1> DEFINE marks == MarksOf(b, ViewKeys(b, q))
           s == InOrder(marks)
           g == <<Root>> \o s
           S == {Root} \cup marks
<1>1. marks \in SUBSET Marks
  <2>1. ViewKeys(b, q) \in SUBSET BookKeys BY DEF ViewKeys
  <2> QED BY <2>1, RowsAreOrdered
<1>2. s \in Seq(marks) /\ Len(s) = Cardinality(marks) /\ Cardinality(marks) \in Nat BY <1>1, MarksInOrder
<1>3. GroupRows(b, q) = g BY DEF GroupRows
<1> HIDE DEF marks, s
<1>4. s \in Seq(S) /\ <<Root>> \in Seq(S) BY <1>2
<1>5. g \in Seq(S) /\ Len(g) = Len(s) + 1 /\ g # <<>> BY <1>4
<1>6. Tail(g) = s BY <1>4
<1> HIDE DEF g, S
<1>7. Len(s) <= limit BY <1>2 DEF marks
<1>8. Min({limit + 1, Len(g)}) = Len(g)
  <2>1. limit + 1 \in Int /\ Len(g) \in Int /\ Len(g) <= limit + 1 BY <1>2, <1>5, <1>7
  <2> QED BY <2>1, LeastOfTwo
<1>9. FirstOf(g, limit + 1) = g BY <1>5, <1>8, SubSeqFull DEF FirstOf
<1> QED BY <1>3, <1>6, <1>9 DEF DistinctRead, s, marks

\* What a search finds are values with the prefix, as many as were asked for.
LEMMA SearchFinds ==
    ASSUME NEW b \in Books, NEW q
    PROVE  LET hits == MarksOf(b, ViewKeys(b, q)) \cap Searched IN
           \E some \in kSubset(Min({SearchLimit, Cardinality(hits)}), hits) : SearchRead(b, q) = InOrder(some)
<1> DEFINE marks == MarksOf(b, ViewKeys(b, q))
           hits == marks \cap Searched
           s == InOrder(marks)
           t == KeepIn(s, Searched)
           n == Min({SearchLimit, Len(t)})
           u == SubSeq(t, 1, n)
           some == {t[i] : i \in 1 .. n}
<1>1. marks \in SUBSET Marks /\ hits \in SUBSET Marks
  <2>1. ViewKeys(b, q) \in SUBSET BookKeys BY DEF ViewKeys
  <2> QED BY <2>1, RowsAreOrdered
<1>2. DistinctRead(b, q, Cardinality(Marks)) = s
  <2>1. Cardinality(Marks) \in Nat BY HubQueriesAssumption, FS_CardinalityType
  <2>2. Cardinality(marks) <= Cardinality(Marks) BY <1>1, MarksAreOrdered
  <2> QED BY <2>1, <2>2, DistinctReadWhole
<1>3. SearchRead(b, q) = u BY <1>2 DEF SearchRead, FirstOf
<1> DEFINE m == Cardinality(marks)
<1>4. /\ s \in Seq(marks) /\ Len(s) = m /\ m \in Nat
      /\ \A v \in marks : \E i \in 1 .. m : s[i] = v
      /\ \A i, j \in 1 .. m : i < j => s[i] < s[j]
  BY <1>1, MarksInOrder
<1> HIDE DEF marks, s, m
<1>5. PICK f \in [1 .. Len(t) -> Nat] : IsPicked(f, t, s, Searched) BY <1>4, KeptIsPicked
<1>6. t \in Seq(marks) BY <1>4, KeptIsPicked
<1> HIDE DEF t
<1>7. Len(t) \in Nat /\ \A i \in 1 .. Len(t) : t[i] \in hits BY <1>5, <1>6 DEF IsPicked
<1>8. t \in Seq(hits)
  <2>1. t \in [1 .. Len(t) -> hits] BY <1>6, <1>7
  <2>2. Seq(hits) = UNION {[1 .. size -> hits] : size \in Nat} BY SeqDef
  <2> QED BY <1>7, <2>1, <2>2
<1>9. \A i, j \in 1 .. Len(t) : i < j => t[i] < t[j] BY <1>4, <1>5 DEF IsPicked
<1>10. ASSUME NEW v \in hits
       PROVE  \E j \in 1 .. Len(t) : t[j] = v
  <2>1. PICK i \in 1 .. Len(s) : s[i] = v BY <1>4
  <2>2. PICK j \in 1 .. Len(t) : f[j] = i BY <1>5, <2>1 DEF IsPicked
  <2> QED BY <1>5, <2>1, <2>2 DEF IsPicked
<1> HIDE DEF hits
<1>11. t = InOrder(hits) BY <1>1, <1>8, <1>9, <1>10, AscendingIsInOrder
<1>12. Len(t) = Cardinality(hits) BY <1>1, <1>11, MarksInOrder
<1>13. n \in 0 .. Len(t)
  <2>1. SearchLimit \in Nat BY HubQueriesAssumption
  <2>2. n = IF SearchLimit <= Len(t) THEN SearchLimit ELSE Len(t) BY <1>7, <2>1, LeastOfTwo
  <2> HIDE DEF n
  <2> QED BY <1>7, <2>1, <2>2
<1>14. n = Min({SearchLimit, Cardinality(hits)}) BY <1>12
<1> HIDE DEF n
<1>15. u \in Seq(hits) /\ Len(u) = n /\ \A i \in 1 .. n : u[i] = t[i]
  BY <1>7, <1>8, <1>13, SubSeqProperties
<1>16. some \in SUBSET hits BY <1>7, <1>13
<1>17. \A v \in some : \E i \in 1 .. n : u[i] = v BY <1>15
<1> HIDE DEF u
<1>18. u \in Seq(some)
  <2>1. \A i \in 1 .. n : t[i] \in some OBVIOUS
  <2>2. 1 \in Int /\ n \in Int BY <1>7, <1>13
  <2> HIDE DEF some
  <2>3. SubSeq(t, 1, n) \in Seq(some) BY ONLY <2>1, <2>2, SubSeqProperties
  <2> QED BY <2>3 DEF u
<1>19. \A i, j \in 1 .. n : i < j => u[i] < u[j] BY <1>7, <1>9, <1>13, <1>15
<1> HIDE DEF some
<1>20. u = InOrder(some) BY <1>1, <1>15, <1>16, <1>17, <1>18, <1>19, AscendingIsInOrder
<1>21. Cardinality(some) = n BY <1>1, <1>15, <1>16, <1>20, MarksInOrder
<1>22. some \in kSubset(Min({SearchLimit, Cardinality(hits)}), hits) BY <1>14, <1>16, <1>21 DEF kSubset
<1> QED BY <1>3, <1>20, <1>22 DEF hits, marks

\* What one read answers is what a tab with these rows would have said.
ReadAnswer(b, q, first) ==
    CASE q.kind = "rowCount"       -> Cardinality(ViewKeys(b, q))
      [] q.kind = "distinctValues" -> DistinctRead(b, q, DistinctLimit)
      [] q.kind = "searchValues"   -> SearchRead(b, q)
      [] q.kind = "aggregates"     -> first

LEMMA OneReadAnswers ==
    ASSUME NEW b \in Books, NEW q, NEW first, Comparable(b, q),
           q.kind \in {"rowCount", "distinctValues", "aggregates", "searchValues"}
    PROVE  Gives(ReadAnswer(b, q, first)) \in CsrmAnswers(b, q)
<1> DEFINE keys == CsrmKeys(b, q)
<1>1. ViewKeys(b, q) = keys BY SameRows
<1> HIDE DEF keys
<1>2. CASE q.kind = "rowCount"
  <2>1. CsrmAnswers(b, q) = {Gives(Cardinality(keys))} BY <1>2 DEF CsrmAnswers, keys
  <2>2. ReadAnswer(b, q, first) = Cardinality(keys) BY <1>1, <1>2 DEF ReadAnswer
  <2> QED BY <2>1, <2>2
<1>3. CASE q.kind = "distinctValues"
  <2>1. CsrmAnswers(b, q) = {Gives(InOrder(MarksOf(b, keys)))} BY <1>3 DEF CsrmAnswers, keys
  <2>2. Cardinality(MarksOf(b, keys)) <= DistinctLimit BY <1>3 DEF Comparable, keys
  <2>3. DistinctLimit \in Nat BY HubQueriesAssumption
  <2>4. DistinctRead(b, q, DistinctLimit) = InOrder(MarksOf(b, keys)) BY <1>1, <2>2, <2>3, DistinctReadWhole
  <2>5. ReadAnswer(b, q, first) = InOrder(MarksOf(b, keys)) BY <1>3, <2>4 DEF ReadAnswer
  <2> QED BY <2>1, <2>5
<1>4. q.kind # "aggregates" BY DEF Comparable
<1>5. CASE q.kind = "searchValues"
  <2> DEFINE hits == MarksOf(b, keys) \cap Searched
             k == Min({SearchLimit, Cardinality(hits)})
  <2>1. CsrmAnswers(b, q) = {Gives(InOrder(some)) : some \in kSubset(k, hits)} BY <1>5 DEF CsrmAnswers, keys
  <2>2. \E some \in kSubset(k, hits) : SearchRead(b, q) = InOrder(some) BY <1>1, SearchFinds
  <2> HIDE DEF hits, k
  <2>3. ReadAnswer(b, q, first) = SearchRead(b, q) BY <1>5 DEF ReadAnswer
  <2> QED BY <2>1, <2>2, <2>3
<1> QED BY <1>2, <1>3, <1>4, <1>5

-----------------------------------------------------------------------------
(* The inductive invariant.                                                 *)

CallFields == {"kind", "filter", "arg", "stage", "total", "start", "found", "reply"}
QuestionKinds == {"rowCount", "distinctValues", "aggregates", "searchValues", "rank", "scan"}

\* Where a rank or a scan is, in a book that has not changed: the rows were
\* counted, the first of them were scanned, or are not the row looked for.
ProgressOK(a, b) ==
    LET lines == RowsIn(b, ViewKeys(b, a)) IN
    /\ a.total = Cardinality(ViewKeys(b, a))
    /\ a.kind = "scan" => a.found = SubSeq(lines, 1, a.start)
    /\ a.kind = "rank" => \A i \in 1 .. a.start : lines[i] # a.arg

\* The answer is that of one of the books of the call.
AnswerOK(a, books) ==
    (\A b \in books : Comparable(b, a)) /\ ~(Counts(a) /\ Cardinality(books) > 1) =>
        \E b \in books : a.reply \in CsrmAnswers(b, a)

CallOK(a, b, books) ==
    /\ DOMAIN a = CallFields /\ a.kind \in QuestionKinds /\ a.stage \in CallStages
    /\ a.total \in Nat /\ a.start \in Nat
    /\ a.stage \in {"opening", "counting"} => a.start = 0 /\ a.found = <<>>
    /\ a.stage = "counting" => Counts(a)
    /\ a.stage = "reading" /\ Counts(a) => a.start < a.total
    /\ a.start = 0 \/ a.start < a.total
    /\ IsFiniteSet(books) /\ b \in books
    /\ a.stage = "reading" /\ Counts(a) /\ Cardinality(books) <= 1 => ProgressOK(a, b)
    /\ a.stage = "closing" /\ a.reply # Failed => AnswerOK(a, books)

QuestionsInv ==
    /\ book \in Books /\ hasEntry \in BOOLEAN /\ bookMoves \in 0 .. MaxBookMoves
    /\ transient = IF asked # NoQuestion /\ asked.stage # "opening" THEN 1 ELSE 0
    /\ asked # NoQuestion => CallOK(asked, book, seen)

LEMMA QuestionsInvAnswers == QuestionsInv => HubQueriesTypeOK /\ HubAnswersAsTabs
<1> SUFFICES ASSUME QuestionsInv PROVE HubQueriesTypeOK /\ HubAnswersAsTabs OBVIOUS
<1>1. transient \in Nat BY DEF QuestionsInv
<1>2. ASSUME asked # NoQuestion
      PROVE  asked.stage \in CallStages /\ asked.start < asked.total + BatchRows
  <2>1. /\ asked.stage \in CallStages /\ asked.total \in Nat /\ asked.start \in Nat
        /\ asked.start = 0 \/ asked.start < asked.total
    BY <1>2 DEF QuestionsInv, CallOK
  <2>2. BatchRows \in Nat \ {0} BY HubQueriesAssumption
  <2> QED BY <2>1, <2>2
<1>3. HubQueriesTypeOK BY <1>1, <1>2 DEF HubQueriesTypeOK, QuestionsInv, Books
<1>4. asked # NoQuestion /\ asked.stage = "closing" /\ asked.reply # Failed => AnswerOK(asked, seen)
  BY DEF QuestionsInv, CallOK
<1>5. HubAnswersAsTabs BY <1>4 DEF HubAnswersAsTabs, AnswerOK, QuestionsInv
<1> QED BY <1>3, <1>5

LEMMA OneBook ==
    ASSUME NEW S, IsFiniteSet(S), Cardinality(S) <= 1, NEW x \in S, NEW y \in S
    PROVE  x = y
<1>1. Cardinality(S) \in Nat BY FS_CardinalityType
<1>2. Cardinality(S) # 0 BY FS_EmptySet
<1>3. Cardinality(S) = 1 BY <1>1, <1>2
<1> QED BY <1>3, FS_Singleton

\* What a question is about does not depend on where its call is.
LEMMA SameQuestion ==
    ASSUME NEW a, NEW c, a.kind = c.kind, a.filter = c.filter, a.arg = c.arg, NEW b
    PROVE  /\ ViewKeys(b, a) = ViewKeys(b, c) /\ CsrmAnswers(b, a) = CsrmAnswers(b, c)
           /\ Comparable(b, a) <=> Comparable(b, c)
           /\ Counts(a) <=> Counts(c)
<1>1. FilterSent(a) = FilterSent(c) BY DEF FilterSent
<1>2. ViewKeys(b, a) = ViewKeys(b, c) BY <1>1 DEF ViewKeys
<1>3. CsrmKeys(b, a) = CsrmKeys(b, c) BY DEF CsrmKeys
<1>4. CsrmAnswers(b, a) = CsrmAnswers(b, c) BY <1>3 DEF CsrmAnswers
<1>5. Comparable(b, a) <=> Comparable(b, c) BY <1>2, <1>3 DEF Comparable
<1>6. Counts(a) <=> Counts(c) BY DEF Counts
<1> QED BY <1>2, <1>4, <1>5, <1>6

\* A call that is about to close.
LEMMA ClosingFields ==
    ASSUME NEW a, DOMAIN a = CallFields, NEW answer
    PROVE  LET c == [a EXCEPT !.stage = "closing", !.reply = answer] IN
           /\ DOMAIN c = CallFields /\ c.kind = a.kind /\ c.filter = a.filter /\ c.arg = a.arg
           /\ c.stage = "closing" /\ c.total = a.total /\ c.start = a.start /\ c.found = a.found /\ c.reply = answer
<1> DEFINE d == [a EXCEPT !.stage = "closing"]
           e == [d EXCEPT !.reply = answer]
<1>1. /\ DOMAIN d = CallFields /\ d.kind = a.kind /\ d.filter = a.filter /\ d.arg = a.arg
      /\ d.stage = "closing" /\ d.total = a.total /\ d.start = a.start /\ d.found = a.found
  BY DEF CallFields
<1>2. [a EXCEPT !.stage = "closing", !.reply = answer] = e OBVIOUS
<1> HIDE DEF d
<1>3. /\ DOMAIN e = CallFields /\ e.kind = d.kind /\ e.filter = d.filter /\ e.arg = d.arg
      /\ e.stage = "closing" /\ e.total = d.total /\ e.start = d.start /\ e.found = d.found /\ e.reply = answer
  BY <1>1 DEF CallFields
<1> QED BY <1>1, <1>2, <1>3

\* It may close with an answer of the book as it is, or having failed.
LEMMA ClosingIsOK ==
    ASSUME NEW a, NEW b, NEW books, CallOK(a, b, books), NEW answer,
           \/ answer = Failed
           \/ (\A d \in books : Comparable(d, a)) /\ ~(Counts(a) /\ Cardinality(books) > 1) => answer \in CsrmAnswers(b, a)
    PROVE  LET c == [a EXCEPT !.stage = "closing", !.reply = answer] IN
           CallOK(c, b, books) /\ c # NoQuestion /\ c.stage = "closing"
<1> DEFINE c == [a EXCEPT !.stage = "closing", !.reply = answer]
<1>1. /\ DOMAIN c = CallFields /\ c.kind = a.kind /\ c.filter = a.filter /\ c.arg = a.arg
      /\ c.stage = "closing" /\ c.total = a.total /\ c.start = a.start /\ c.found = a.found /\ c.reply = answer
  BY ClosingFields DEF CallOK
<1> HIDE DEF c
<1>2. c.reply # Failed => AnswerOK(c, books)
  <2> SUFFICES ASSUME answer # Failed, \A d \in books : Comparable(d, c), ~(Counts(c) /\ Cardinality(books) > 1)
               PROVE  \E d \in books : c.reply \in CsrmAnswers(d, c)
    BY <1>1 DEF AnswerOK
  <2>1. (\A d \in books : Comparable(d, a)) /\ ~(Counts(a) /\ Cardinality(books) > 1)
    BY <1>1, SameQuestion
  <2>2. answer \in CsrmAnswers(b, a) /\ b \in books BY <2>1 DEF CallOK
  <2>3. CsrmAnswers(b, a) = CsrmAnswers(b, c) BY <1>1, SameQuestion
  <2> QED BY <1>1, <2>2, <2>3
<1>3. CallOK(c, b, books) BY <1>1, <1>2 DEF CallOK, CallStages
<1>4. c # NoQuestion
  <2>1. c.kind # "none" BY <1>3 DEF CallOK, QuestionKinds
  <2>2. NoQuestion.kind = "none" BY DEF NoQuestion
  <2> QED BY <2>1, <2>2
<1> QED BY <1>1, <1>3, <1>4 DEF c

-----------------------------------------------------------------------------
(* The steps.                                                               *)

LEMMA CallIsUnderWay == ASSUME NEW a, NEW b, NEW books, CallOK(a, b, books) PROVE a # NoQuestion
<1>1. a.kind # "none" BY DEF CallOK, QuestionKinds
<1>2. NoQuestion.kind = "none" BY DEF NoQuestion
<1> QED BY <1>1, <1>2

LEMMA SeenIsCounted ==
    ASSUME NEW a, NEW b, NEW books, CallOK(a, b, books)
    PROVE  Cardinality(books) \in Nat /\ (Cardinality(books) <= 1 <=> ~(Cardinality(books) > 1))
<1>1. Cardinality(books) \in Nat BY FS_CardinalityType DEF CallOK
<1> QED BY <1>1

LEMMA QuestionsInvInit == HubQueriesInit => QuestionsInv
<1>1. MaxBookMoves \in Nat BY HubQueriesAssumption
<1> QED BY <1>1 DEF HubQueriesInit, QuestionsInv, Books

\* When the book changes, what was asked had one book more, and a call of
\* several reads may be torn.
LEMMA AnotherBook ==
    ASSUME NEW a, NEW b, NEW books, CallOK(a, b, books), NEW c, c # b
    PROVE  CallOK(a, c, books \cup {c})
<1> DEFINE more == books \cup {c}
<1>1. IsFiniteSet(books) /\ b \in books BY DEF CallOK
<1>2. IsFiniteSet(more) BY <1>1, FS_AddElement
<1>3. c \in more /\ b \in more /\ books \subseteq more BY <1>1
<1> HIDE DEF more
<1>4. ~(Cardinality(more) <= 1) BY <1>2, <1>3, OneBook
<1>5. Cardinality(more) > 1
  <2>1. Cardinality(more) \in Nat BY <1>2, FS_CardinalityType
  <2> QED BY <1>4, <2>1
<1>6. ASSUME AnswerOK(a, books) PROVE AnswerOK(a, more)
  <2> SUFFICES ASSUME \A d \in more : Comparable(d, a), ~Counts(a)
               PROVE  \E d \in more : a.reply \in CsrmAnswers(d, a)
    BY <1>5 DEF AnswerOK
  <2>1. \A d \in books : Comparable(d, a) BY <1>3
  <2>2. PICK d \in books : a.reply \in CsrmAnswers(d, a) BY <1>6, <2>1 DEF AnswerOK
  <2> QED BY <1>3, <2>2
<1>7. CallOK(a, c, more) BY <1>2, <1>3, <1>4, <1>6 DEF CallOK
<1> QED BY <1>7 DEF more

LEMMA QuestionsInvBookMoves == ASSUME NEW k \in BookKeys PROVE QuestionsInv /\ BookMoves(k) => QuestionsInv'
<1> SUFFICES ASSUME QuestionsInv, BookMoves(k) PROVE QuestionsInv' OBVIOUS
<1>1. PICK row \in BookRows \ {NotInBook, book[k]} : book' = [book EXCEPT ![k] = row] BY DEF BookMoves
<1>2. book \in Books BY DEF QuestionsInv
<1>3. book' \in Books /\ book' # book
  <2>1. book'[k] = row BY <1>1, <1>2 DEF Books
  <2> QED BY <1>1, <1>2, <2>1 DEF Books
<1>4. bookMoves' \in 0 .. MaxBookMoves
  <2>1. bookMoves \in 0 .. MaxBookMoves /\ bookMoves < MaxBookMoves /\ bookMoves' = bookMoves + 1
    BY DEF QuestionsInv, BookMoves
  <2> QED BY <2>1, HubQueriesAssumption
<1>5. /\ hasEntry' \in BOOLEAN /\ asked' = asked
      /\ transient' = IF asked' # NoQuestion /\ asked'.stage # "opening" THEN 1 ELSE 0
  BY DEF QuestionsInv, BookMoves
<1>6. asked # NoQuestion => CallOK(asked, book', seen')
  <2> SUFFICES ASSUME asked # NoQuestion PROVE CallOK(asked, book', seen') OBVIOUS
  <2>1. CallOK(asked, book, seen) BY DEF QuestionsInv
  <2>2. seen' = seen \cup {book'} BY DEF BookMoves
  <2> QED BY <1>3, <2>1, <2>2, AnotherBook
<1> QED BY <1>3, <1>4, <1>5, <1>6 DEF QuestionsInv

LEMMA QuestionsInvEntryGoes == QuestionsInv /\ EntryGoes => QuestionsInv'
BY DEF QuestionsInv, EntryGoes

LEMMA AskedFields ==
    ASSUME NEW q \in Questions
    PROVE  /\ DOMAIN q = CallFields /\ q.kind \in QuestionKinds /\ q.stage = "opening"
           /\ q.total = 0 /\ q.start = 0 /\ q.found = <<>>
<1>1. PICK kind \in QuestionKinds, f \in {Marks, Marks \ {Empty}}, arg \in {0} \cup BookKeys : q = Asking(kind, f, arg) BY DEF Questions, QuestionKinds
<1> QED BY <1>1 DEF Asking, CallFields

LEMMA QuestionsInvAskHub == ASSUME NEW q \in Questions PROVE QuestionsInv /\ AskHub(q) => QuestionsInv'
<1> SUFFICES ASSUME QuestionsInv, AskHub(q) PROVE QuestionsInv' OBVIOUS
<1>1. /\ DOMAIN q = CallFields /\ q.kind \in QuestionKinds /\ q.stage = "opening"
      /\ q.total = 0 /\ q.start = 0 /\ q.found = <<>>
  BY AskedFields
<1>2. IsFiniteSet({book}) BY FS_Singleton
<1>3. CallOK(q, book, {book}) BY <1>1, <1>2 DEF CallOK, CallStages
<1>4. asked' = q /\ seen' = {book} /\ asked = NoQuestion BY DEF AskHub
<1>5. book' = book /\ hasEntry' = hasEntry /\ transient' = transient /\ bookMoves' = bookMoves BY DEF AskHub
<1>6. transient' = 0 BY <1>4, <1>5 DEF QuestionsInv
<1> QED BY <1>1, <1>3, <1>4, <1>5, <1>6 DEF QuestionsInv

LEMMA QuestionsInvViewOpens == QuestionsInv /\ ViewOpens => QuestionsInv'
<1> SUFFICES ASSUME QuestionsInv, ViewOpens PROVE QuestionsInv' OBVIOUS
<1> DEFINE next == IF Counts(asked) THEN "counting" ELSE "reading"
           c == [asked EXCEPT !.stage = next]
<1>1. CallOK(asked, book, seen) /\ asked.stage = "opening" BY DEF QuestionsInv, ViewOpens
<1>2. DOMAIN asked = CallFields BY <1>1 DEF CallOK
<1>3. /\ DOMAIN c = CallFields /\ c.kind = asked.kind /\ c.stage = next
      /\ c.total = asked.total /\ c.start = asked.start /\ c.found = asked.found
  BY <1>2 DEF CallFields
<1>4. asked' = c BY DEF ViewOpens
<1> HIDE DEF c
<1>5. Counts(c) <=> Counts(asked) BY <1>3 DEF Counts
<1>6. CallOK(c, book, seen) BY <1>1, <1>3, <1>5 DEF CallOK, CallStages
<1>7. transient' = 1
  <2>1. transient = 0 /\ transient' = transient + 1 BY <1>1 DEF QuestionsInv, ViewOpens
  <2> QED BY <2>1
<1>8. book' = book /\ hasEntry' = hasEntry /\ seen' = seen /\ bookMoves' = bookMoves BY DEF ViewOpens
<1>9. c # NoQuestion /\ c.stage # "opening" BY <1>3, <1>6, CallIsUnderWay
<1> QED BY <1>4, <1>6, <1>7, <1>8, <1>9 DEF QuestionsInv

LEMMA QuestionsInvViewFails == QuestionsInv /\ ViewFails => QuestionsInv'
BY DEF QuestionsInv, ViewFails

LEMMA QuestionsInvViewCloses == QuestionsInv /\ ViewCloses => QuestionsInv'
<1> SUFFICES ASSUME QuestionsInv, ViewCloses PROVE QuestionsInv' OBVIOUS
<1>1. transient = 1 /\ transient' = transient - 1 BY DEF QuestionsInv, ViewCloses
<1>2. transient' = 0 BY <1>1
<1> QED BY <1>2 DEF QuestionsInv, ViewCloses

\* A step that only takes a call further.
Reads(c) ==
    /\ CallOK(c, book, seen) /\ c.stage # "opening"
    /\ asked # NoQuestion /\ asked.stage # "opening" /\ asked' = c
    /\ UNCHANGED <<book, hasEntry, transient, seen, bookMoves>>

LEMMA QuestionsInvReads == ASSUME NEW c PROVE QuestionsInv /\ Reads(c) => QuestionsInv'
<1> SUFFICES ASSUME QuestionsInv, Reads(c) PROVE QuestionsInv' OBVIOUS
<1>1. c # NoQuestion BY CallIsUnderWay DEF Reads
<1>2. CallOK(asked', book', seen') BY DEF Reads
<1>3. transient' = 1 BY DEF QuestionsInv, Reads
<1> QED BY <1>1, <1>2, <1>3 DEF QuestionsInv, Reads

LEMMA QuestionsInvReadFails == QuestionsInv /\ ReadFails => QuestionsInv'
<1> SUFFICES ASSUME QuestionsInv, ReadFails PROVE QuestionsInv' OBVIOUS
<1> DEFINE c == [asked EXCEPT !.stage = "closing", !.reply = Failed]
<1>1. CallOK(asked, book, seen) BY DEF QuestionsInv, ReadFails
<1>2. CallOK(c, book, seen) /\ c.stage = "closing" BY <1>1, ClosingIsOK
<1>3. asked' = c BY DEF ReadFails, Closing
<1> HIDE DEF c
<1>4. Reads(c) BY <1>2, <1>3 DEF Reads, ReadFails
<1> QED BY <1>4, QuestionsInvReads

LEMMA QuestionsInvReadOnce == QuestionsInv /\ ReadOnce => QuestionsInv'
<1> SUFFICES ASSUME QuestionsInv, ReadOnce PROVE QuestionsInv' OBVIOUS
<1>0. PICK first \in FirstMarks(book, asked) : asked' = Closing(Gives(ReadAnswer(book, asked, first)))
  BY DEF ReadOnce, ReadAnswer
<1> DEFINE answer == Gives(ReadAnswer(book, asked, first))
           c == [asked EXCEPT !.stage = "closing", !.reply = answer]
<1>1. CallOK(asked, book, seen) /\ ~Counts(asked) /\ book \in Books BY DEF QuestionsInv, ReadOnce
<1>2. asked' = c BY <1>0 DEF Closing
<1>3. asked.kind \in {"rowCount", "distinctValues", "aggregates", "searchValues"}
  BY <1>1 DEF CallOK, QuestionKinds, Counts
<1>4. Comparable(book, asked) => answer \in CsrmAnswers(book, asked) BY <1>1, <1>3, OneReadAnswers
<1>5. book \in seen BY <1>1 DEF CallOK
<1> HIDE DEF answer
<1>6. CallOK(c, book, seen) /\ c.stage = "closing" BY <1>1, <1>4, <1>5, ClosingIsOK
<1> HIDE DEF c
<1>7. Reads(c) BY <1>2, <1>6 DEF Reads, ReadOnce
<1> QED BY <1>7, QuestionsInvReads

\* No rows: no rank, and nothing to scan.
LEMMA NothingToRead ==
    ASSUME NEW b \in Books, NEW a, Comparable(b, a), a.kind \in {"rank", "scan"}, Cardinality(ViewKeys(b, a)) = 0
    PROVE  Gives(IF a.kind = "rank" THEN "none" ELSE <<>>) \in CsrmAnswers(b, a)
<1> DEFINE keys == CsrmKeys(b, a)
<1>1. ViewKeys(b, a) = keys /\ keys \in SUBSET BookKeys BY SameRows
<1> HIDE DEF keys
<1>2. keys = {}
  <2>1. IsFiniteSet(keys) BY <1>1, RowsAreOrdered
  <2> QED BY <1>1, <2>1, FS_EmptySet
<1>3. CASE a.kind = "rank"
  <2>1. CsrmAnswers(b, a) = {RankIn(b, keys, a.arg)} BY <1>3 DEF CsrmAnswers, keys
  <2>2. RankIn(b, keys, a.arg) = Gives("none") BY <1>2 DEF RankIn
  <2> QED BY <1>3, <2>1, <2>2
<1>4. CASE a.kind = "scan"
  <2>1. CsrmAnswers(b, a) = {Gives(RowsIn(b, keys))} BY <1>4 DEF CsrmAnswers, keys
  <2>2. RowsIn(b, keys) \in Seq(keys) /\ Len(RowsIn(b, keys)) = 0 BY <1>1, RowsOfView
  <2>3. RowsIn(b, keys) = <<>> BY <2>2
  <2> QED BY <1>4, <2>1, <2>3
<1> QED BY <1>3, <1>4

LEMMA CountedFields ==
    ASSUME NEW a, DOMAIN a = CallFields, NEW n
    PROVE  LET c == [a EXCEPT !.stage = "reading", !.total = n] IN
           /\ DOMAIN c = CallFields /\ c.kind = a.kind /\ c.filter = a.filter /\ c.arg = a.arg
           /\ c.stage = "reading" /\ c.total = n /\ c.start = a.start /\ c.found = a.found
<1> DEFINE d == [a EXCEPT !.stage = "reading"]
           e == [d EXCEPT !.total = n]
<1>1. /\ DOMAIN d = CallFields /\ d.kind = a.kind /\ d.filter = a.filter /\ d.arg = a.arg
      /\ d.stage = "reading" /\ d.total = a.total /\ d.start = a.start /\ d.found = a.found
  BY DEF CallFields
<1>2. [a EXCEPT !.stage = "reading", !.total = n] = e OBVIOUS
<1> HIDE DEF d
<1>3. /\ DOMAIN e = CallFields /\ e.kind = d.kind /\ e.filter = d.filter /\ e.arg = d.arg
      /\ e.stage = d.stage /\ e.total = n /\ e.start = d.start /\ e.found = d.found
  BY <1>1 DEF CallFields
<1> QED BY <1>1, <1>2, <1>3

LEMMA QuestionsInvRowsCounted == QuestionsInv /\ RowsCounted => QuestionsInv'
<1> SUFFICES ASSUME QuestionsInv, RowsCounted PROVE QuestionsInv' OBVIOUS
<1> DEFINE n == Cardinality(ViewKeys(book, asked))
           answer == Gives(IF asked.kind = "rank" THEN "none" ELSE <<>>)
           c == [asked EXCEPT !.stage = "reading", !.total = n]
           d == [asked EXCEPT !.stage = "closing", !.reply = answer]
<1>1. CallOK(asked, book, seen) /\ asked.stage = "counting" /\ book \in Books BY DEF QuestionsInv, RowsCounted
<1>2. /\ asked.kind \in {"rank", "scan"} /\ asked.start = 0 /\ asked.found = <<>> /\ Counts(asked)
      /\ DOMAIN asked = CallFields
  BY <1>1 DEF CallOK, Counts
<1>3. asked' = IF n > 0 THEN c ELSE d BY DEF RowsCounted, Closing
<1>4. /\ RowsIn(book, ViewKeys(book, asked)) \in Seq(ViewKeys(book, asked)) /\ n \in Nat
  <2>1. ViewKeys(book, asked) \in SUBSET BookKeys BY DEF ViewKeys
  <2> QED BY <1>1, <2>1, RowsOfView
<1>5. CASE n > 0
  <2> DEFINE lines == RowsIn(book, ViewKeys(book, asked))
  <2>1. /\ DOMAIN c = CallFields /\ c.kind = asked.kind /\ c.filter = asked.filter /\ c.arg = asked.arg
        /\ c.stage = "reading" /\ c.total = n /\ c.start = asked.start /\ c.found = asked.found
    BY <1>2, CountedFields
  <2>2. asked' = c BY <1>3, <1>5
  <2>3. SubSeq(lines, 1, 0) = <<>> BY <1>4
  <2> HIDE DEF c, lines
  <2>4. ViewKeys(book, c) = ViewKeys(book, asked) BY <2>1, SameQuestion
  <2>5. ProgressOK(c, book) BY <1>2, <2>1, <2>3, <2>4 DEF ProgressOK, lines
  <2> HIDE DEF n
  <2>6. CallOK(c, book, seen) BY <1>1, <1>2, <1>4, <1>5, <2>1, <2>5 DEF CallOK, CallStages
  <2>7. Reads(c) BY <2>1, <2>2, <2>6 DEF Reads, RowsCounted
  <2> QED BY <2>7, QuestionsInvReads
<1>6. CASE ~(n > 0)
  <2>1. n = 0 BY <1>4, <1>6
  <2>2. Comparable(book, asked) => answer \in CsrmAnswers(book, asked) BY <1>1, <1>2, <2>1, NothingToRead
  <2>3. book \in seen BY <1>1 DEF CallOK
  <2>4. asked' = d BY <1>3, <1>6
  <2> HIDE DEF answer
  <2>5. CallOK(d, book, seen) /\ d.stage = "closing" BY <1>1, <2>2, <2>3, ClosingIsOK
  <2> HIDE DEF d
  <2>6. Reads(d) BY <2>4, <2>5 DEF Reads, RowsCounted
  <2> QED BY <2>6, QuestionsInvReads
<1> QED BY <1>5, <1>6

\* One block of the rows of an unchanged book: where it ends, and what it has.
BlockEnd(a) == IF a.start + BatchRows <= a.total THEN a.start + BatchRows ELSE a.total
BlockOf(b, a) ==
    LET lines == RowsIn(b, ViewKeys(b, a))
        last == Min({a.start + BatchRows, a.total, Len(lines)})
    IN  SubSeq(lines, a.start + 1, last)
\* The call after a block.
Onward(a, found) == [a EXCEPT !.start = @ + BatchRows, !.found = found]
Closed(a, answer) == [a EXCEPT !.stage = "closing", !.reply = answer]
AfterIt(a, found) ==
    IF a.start + BatchRows < a.total THEN Onward(a, found)
    ELSE Closed(a, Gives(IF a.kind = "scan" THEN found ELSE "none"))

LEMMA BlockIsNext ==
    ASSUME NEW b \in Books, NEW a, a.start \in Nat, a.total = Cardinality(ViewKeys(b, a)), a.start < a.total
    PROVE  LET lines == RowsIn(b, ViewKeys(b, a))
               block == BlockOf(b, a)
               n == BlockEnd(a)
           IN  /\ lines \in Seq(BookKeys) /\ Len(lines) = a.total /\ a.total \in Nat
               /\ n \in Nat /\ a.start < n /\ n <= a.total
               /\ block = SubSeq(lines, a.start + 1, n)
               /\ DOMAIN block = 1 .. (n - a.start)
               /\ \A i \in 1 .. (n - a.start) : block[i] = lines[a.start + i]
<1> DEFINE keys == ViewKeys(b, a)
           lines == RowsIn(b, keys)
           n == BlockEnd(a)
           block == BlockOf(b, a)
<1>1. keys \in SUBSET BookKeys BY DEF ViewKeys
<1>2. lines \in Seq(keys) /\ Len(lines) = a.total /\ a.total \in Nat BY <1>1, RowsOfView
<1>3. BatchRows \in Nat \ {0} BY HubQueriesAssumption
<1>4. n \in Nat /\ a.start < n /\ n <= a.total BY <1>2, <1>3 DEF BlockEnd
<1>5. Min({a.start + BatchRows, a.total, Len(lines)}) = n
  <2>1. a.start + BatchRows \in Int /\ a.total \in Int /\ Len(lines) = a.total BY <1>2, <1>3
  <2>2. Min({a.start + BatchRows, a.total, Len(lines)})
            = IF a.start + BatchRows <= a.total /\ a.start + BatchRows <= Len(lines) THEN a.start + BatchRows
              ELSE IF a.total <= Len(lines) THEN a.total ELSE Len(lines)
    BY <2>1, LeastOfThree
  <2> QED BY <1>2, <2>1, <2>2 DEF BlockEnd
<1>6. block = SubSeq(lines, a.start + 1, n) BY <1>5 DEF BlockOf
<1>7. lines \in Seq(BookKeys) BY <1>1, <1>2
<1> HIDE DEF lines, n, block
<1>8. \A i \in (a.start + 1) .. n : lines[i] \in BookKeys BY <1>2, <1>4, <1>7
<1> DEFINE m == a.start + 1
<1>9. m \in Int /\ n \in Int /\ m <= n /\ n - m + 1 = n - a.start /\ \A i \in Int : m + i - 1 = a.start + i BY <1>4
<1>10. block = SubSeq(lines, m, n) /\ \A i \in m .. n : lines[i] \in BookKeys BY <1>6, <1>8
<1> HIDE DEF m
<1>11. /\ block \in Seq(BookKeys) /\ Len(block) = IF m <= n THEN n - m + 1 ELSE 0
       /\ \A i \in 1 .. n - m + 1 : block[i] = lines[m + i - 1]
  <2> DEFINE piece == SubSeq(lines, m, n)
  <2>1. \A i \in m .. n : lines[i] \in BookKeys BY <1>10
  <2>2. m \in Int /\ n \in Int BY <1>9
  <2>3. /\ piece \in Seq(BookKeys) /\ Len(piece) = IF m <= n THEN n - m + 1 ELSE 0
        /\ \A i \in 1 .. n - m + 1 : piece[i] = lines[m + i - 1]
    BY ONLY <2>1, <2>2, SubSeqProperties
  <2>4. block = piece BY <1>10
  <2> QED BY <2>3, <2>4
<1>12. DOMAIN block = 1 .. (n - a.start)
  <2>1. DOMAIN block = 1 .. Len(block) BY <1>11
  <2>2. Len(block) = n - a.start BY <1>9, <1>11
  <2> QED BY <2>1, <2>2
<1>13. ASSUME NEW i \in 1 .. (n - a.start) PROVE block[i] = lines[a.start + i]
  <2>1. i \in Int /\ i \in 1 .. n - m + 1 BY <1>9
  <2>2. m + i - 1 = a.start + i BY <1>9, <2>1
  <2>3. block[i] = lines[m + i - 1] BY <1>11, <2>1
  <2> QED BY <2>2, <2>3
<1> QED BY <1>2, <1>4, <1>6, <1>7, <1>12, <1>13 DEF lines, n, block

LEMMA OnwardFields ==
    ASSUME NEW a, DOMAIN a = CallFields, NEW found
    PROVE  LET c == Onward(a, found) IN
           /\ DOMAIN c = CallFields /\ c.kind = a.kind /\ c.filter = a.filter /\ c.arg = a.arg
           /\ c.stage = a.stage /\ c.total = a.total /\ c.start = a.start + BatchRows /\ c.found = found
<1> DEFINE d == [a EXCEPT !.start = a.start + BatchRows]
           e == [d EXCEPT !.found = found]
<1>1. /\ DOMAIN d = CallFields /\ d.kind = a.kind /\ d.filter = a.filter /\ d.arg = a.arg
      /\ d.stage = a.stage /\ d.total = a.total /\ d.start = a.start + BatchRows
  BY DEF CallFields
<1>2. Onward(a, found) = e BY DEF Onward
<1> HIDE DEF d
<1>3. /\ DOMAIN e = CallFields /\ e.kind = d.kind /\ e.filter = d.filter /\ e.arg = d.arg
      /\ e.stage = d.stage /\ e.total = d.total /\ e.start = d.start /\ e.found = found
  BY <1>1 DEF CallFields
<1> QED BY <1>1, <1>2, <1>3

\* A block on, in an unchanged book or any other.
LEMMA OnwardIsOK ==
    ASSUME NEW a, NEW b, NEW books, CallOK(a, b, books), a.stage = "reading", Counts(a), NEW found,
           a.start + BatchRows < a.total,
           Cardinality(books) <= 1 => ProgressOK(Onward(a, found), b)
    PROVE  CallOK(Onward(a, found), b, books) /\ Onward(a, found).stage = "reading"
<1> DEFINE c == Onward(a, found)
<1>1. /\ DOMAIN c = CallFields /\ c.kind = a.kind /\ c.filter = a.filter /\ c.arg = a.arg
      /\ c.stage = a.stage /\ c.total = a.total /\ c.start = a.start + BatchRows /\ c.found = found
  BY OnwardFields DEF CallOK
<1> HIDE DEF c
<1>2. a.start + BatchRows \in Nat BY HubQueriesAssumption DEF CallOK
<1>3. Cardinality(books) <= 1 => ProgressOK(c, b) BY DEF c
<1>4. CallOK(c, b, books) BY <1>1, <1>2, <1>3 DEF CallOK, Counts
<1> QED BY <1>1, <1>4 DEF c

\* The block has the row whose rank is asked for.
LEMMA RankIsRight ==
    ASSUME NEW b \in Books, NEW a, a.start \in Nat, a.start < a.total, ProgressOK(a, b), Comparable(b, a), a.kind = "rank",
           NEW i \in DOMAIN BlockOf(b, a), BlockOf(b, a)[i] = a.arg
    PROVE  Gives(a.start + i - 1) \in CsrmAnswers(b, a)
<1> DEFINE keys == CsrmKeys(b, a)
           lines == RowsIn(b, keys)
           n == BlockEnd(a)
<1>1. ViewKeys(b, a) = keys /\ keys \in SUBSET BookKeys BY SameRows
<1> HIDE DEF keys
<1>2. a.total = Cardinality(keys) BY <1>1 DEF ProgressOK
<1>3. /\ i \in 1 .. (n - a.start) /\ n \in Nat /\ n <= a.total /\ lines[a.start + i] = a.arg /\ a.total \in Nat
  BY <1>1, <1>2, BlockIsNext
<1>4. /\ lines \in Seq(keys) /\ Len(lines) = a.total
      /\ \A j \in 1 .. a.total : Cardinality({l \in keys : Before(b, l, lines[j])}) = j - 1
  BY <1>1, <1>2, RowsOfView
<1> HIDE DEF lines, n
<1>5. a.start + i \in 1 .. a.total BY <1>3
<1>6. a.arg \in keys BY <1>3, <1>4, <1>5
<1>7. Cardinality({l \in keys : Before(b, l, a.arg)}) = a.start + i - 1
  <2> DEFINE j == a.start + i
  <2>0. j \in 1 .. a.total BY <1>5
  <2> HIDE DEF j
  <2>1. Cardinality({l \in keys : Before(b, l, lines[j])}) = j - 1 BY <1>4, <2>0
  <2>2. lines[j] = a.arg BY <1>3 DEF j
  <2>3. Cardinality({l \in keys : Before(b, l, a.arg)}) = j - 1 BY <2>1, <2>2
  <2>4. j - 1 = a.start + i - 1 BY <1>3 DEF j
  <2> QED BY <2>3, <2>4
<1>8. RankIn(b, keys, a.arg) = Gives(a.start + i - 1) BY <1>6, <1>7 DEF RankIn
<1>9. CsrmAnswers(b, a) = {RankIn(b, keys, a.arg)} BY DEF CsrmAnswers, keys
<1> QED BY <1>8, <1>9

\* The block does not have it: no row up to here is the row.
LEMMA NotInTheBlock ==
    ASSUME NEW b \in Books, NEW a, a.start \in Nat, a.start < a.total, ProgressOK(a, b), a.kind = "rank",
           \A i \in DOMAIN BlockOf(b, a) : BlockOf(b, a)[i] # a.arg
    PROVE  \A j \in 1 .. BlockEnd(a) : RowsIn(b, ViewKeys(b, a))[j] # a.arg
<1> DEFINE lines == RowsIn(b, ViewKeys(b, a))
           n == BlockEnd(a)
<1>1. a.total = Cardinality(ViewKeys(b, a)) /\ \A j \in 1 .. a.start : lines[j] # a.arg BY DEF ProgressOK
<1>2. /\ n \in Nat /\ a.start < n /\ DOMAIN BlockOf(b, a) = 1 .. (n - a.start)
      /\ \A i \in 1 .. (n - a.start) : BlockOf(b, a)[i] = lines[a.start + i]
  BY <1>1, BlockIsNext
<1> HIDE DEF lines, n
<1>3. ASSUME NEW j \in 1 .. n PROVE lines[j] # a.arg
  <2>1. CASE j <= a.start BY <1>1, <2>1
  <2>2. CASE ~(j <= a.start)
    <3>1. j - a.start \in 1 .. (n - a.start) /\ a.start + (j - a.start) = j BY <1>2, <2>2
    <3> QED BY <1>2, <3>1
  <2> QED BY <2>1, <2>2
<1> QED BY <1>3 DEF lines, n

LEMMA RankGoesOn ==
    ASSUME NEW b \in Books, NEW a, DOMAIN a = CallFields, a.start \in Nat, a.start < a.total, ProgressOK(a, b), a.kind = "rank",
           \A i \in DOMAIN BlockOf(b, a) : BlockOf(b, a)[i] # a.arg
    PROVE  /\ a.start + BatchRows < a.total => ProgressOK(Onward(a, <<>>), b)
           /\ ~(a.start + BatchRows < a.total) /\ Comparable(b, a) => Gives("none") \in CsrmAnswers(b, a)
<1> DEFINE lines == RowsIn(b, ViewKeys(b, a))
<1>1. \A j \in 1 .. BlockEnd(a) : lines[j] # a.arg BY NotInTheBlock
<1>2. a.total = Cardinality(ViewKeys(b, a)) BY DEF ProgressOK
<1>3. a.total \in Nat
  <2>1. ViewKeys(b, a) \in SUBSET BookKeys BY DEF ViewKeys
  <2> QED BY <1>2, <2>1, RowsOfView
<1>4. BatchRows \in Nat BY HubQueriesAssumption
<1>5. CASE a.start + BatchRows < a.total
  <2> DEFINE c == Onward(a, <<>>)
  <2>1. c.kind = a.kind /\ c.filter = a.filter /\ c.arg = a.arg /\ c.total = a.total /\ c.start = a.start + BatchRows
    BY OnwardFields
  <2>2. BlockEnd(a) = c.start BY <1>3, <1>4, <1>5, <2>1 DEF BlockEnd
  <2> HIDE DEF c
  <2>3. ViewKeys(b, c) = ViewKeys(b, a) BY <2>1, SameQuestion
  <2>4. ProgressOK(c, b) BY <1>1, <1>2, <2>1, <2>2, <2>3 DEF ProgressOK
  <2> QED BY <1>5, <2>4 DEF c
<1>6. ASSUME ~(a.start + BatchRows < a.total), Comparable(b, a)
      PROVE  Gives("none") \in CsrmAnswers(b, a)
  <2> DEFINE keys == CsrmKeys(b, a)
  <2>1. ViewKeys(b, a) = keys /\ keys \in SUBSET BookKeys BY <1>6, SameRows
  <2>2. BlockEnd(a) = a.total BY <1>3, <1>4, <1>6 DEF BlockEnd
  <2>3. \A k \in keys : \E j \in 1 .. a.total : lines[j] = k BY <1>2, <2>1, RowsOfView
  <2>4. a.arg \notin keys BY <1>1, <2>2, <2>3
  <2>5. CsrmAnswers(b, a) = {RankIn(b, keys, a.arg)} BY DEF CsrmAnswers, keys
  <2> HIDE DEF keys
  <2>6. RankIn(b, keys, a.arg) = Gives("none") BY <2>4 DEF RankIn
  <2> QED BY <2>5, <2>6
<1> QED BY <1>5, <1>6

\* What was collected of a scan is the first rows, and in the end all of them.
LEMMA ScanGoesOn ==
    ASSUME NEW b \in Books, NEW a, DOMAIN a = CallFields, a.start \in Nat, a.start < a.total, ProgressOK(a, b), a.kind = "scan"
    PROVE  LET found == a.found \o BlockOf(b, a) IN
           /\ a.start + BatchRows < a.total => ProgressOK(Onward(a, found), b)
           /\ ~(a.start + BatchRows < a.total) /\ Comparable(b, a) => Gives(found) \in CsrmAnswers(b, a)
<1> DEFINE lines == RowsIn(b, ViewKeys(b, a))
           n == BlockEnd(a)
           found == a.found \o BlockOf(b, a)
<1>1. a.total = Cardinality(ViewKeys(b, a)) /\ a.found = SubSeq(lines, 1, a.start) BY DEF ProgressOK
<1>2. /\ lines \in Seq(BookKeys) /\ Len(lines) = a.total /\ a.total \in Nat
      /\ n \in Nat /\ a.start < n /\ n <= a.total
      /\ BlockOf(b, a) = SubSeq(lines, a.start + 1, n)
  BY <1>1, BlockIsNext
<1>3. found = SubSeq(lines, 1, a.start) \o SubSeq(lines, a.start + 1, n) BY <1>1, <1>2
<1>4. BatchRows \in Nat BY HubQueriesAssumption
<1>5. n = IF a.start + BatchRows <= a.total THEN a.start + BatchRows ELSE a.total BY DEF BlockEnd
<1> HIDE DEF lines, n, found
<1>6. found = SubSeq(lines, 1, n)
  <2>1. 1 \in 1 .. Len(lines) + 1 /\ a.start \in (1 - 1) .. Len(lines) /\ n \in a.start .. Len(lines) BY <1>2
  <2> QED BY <1>2, <1>3, <2>1, ConcatAdjacentSubSeq
<1>7. CASE a.start + BatchRows < a.total
  <2> DEFINE c == Onward(a, found)
  <2>1. /\ c.kind = a.kind /\ c.filter = a.filter /\ c.arg = a.arg /\ c.total = a.total /\ c.start = a.start + BatchRows
        /\ c.found = found
    BY OnwardFields
  <2>2. n = c.start BY <1>2, <1>4, <1>5, <1>7, <2>1
  <2> HIDE DEF c
  <2>3. ViewKeys(b, c) = ViewKeys(b, a) BY <2>1, SameQuestion
  <2>4. c.found = SubSeq(RowsIn(b, ViewKeys(b, c)), 1, c.start) BY <1>6, <2>1, <2>2, <2>3 DEF lines
  <2>5. c.total = Cardinality(ViewKeys(b, c)) BY <1>1, <2>1, <2>3
  <2>6. ProgressOK(c, b) BY <2>1, <2>4, <2>5 DEF ProgressOK
  <2> QED BY <1>7, <2>6 DEF c, found
<1>8. ASSUME ~(a.start + BatchRows < a.total), Comparable(b, a)
      PROVE  Gives(found) \in CsrmAnswers(b, a)
  <2> DEFINE keys == CsrmKeys(b, a)
  <2>1. ViewKeys(b, a) = keys BY <1>8, SameRows
  <2>2. n = Len(lines) BY <1>2, <1>4, <1>5, <1>8
  <2>3. found = lines BY <1>2, <1>6, <2>2, SubSeqFull
  <2>4. CsrmAnswers(b, a) = {Gives(RowsIn(b, keys))} BY DEF CsrmAnswers, keys
  <2>5. lines = RowsIn(b, keys) BY <2>1 DEF lines
  <2> QED BY <2>3, <2>4, <2>5
<1> QED BY <1>7, <1>8 DEF found

LEMMA CountedIsClosed ==
    ASSUME NEW a, NEW b, NEW books, CallOK(a, b, books), Counts(a), NEW answer,
           Cardinality(books) <= 1 /\ Comparable(b, a) => answer \in CsrmAnswers(b, a)
    PROVE  CallOK(Closed(a, answer), b, books) /\ Closed(a, answer).stage = "closing"
<1>1. b \in books BY DEF CallOK
<1>2. ASSUME \A d \in books : Comparable(d, a), ~(Counts(a) /\ Cardinality(books) > 1)
      PROVE  answer \in CsrmAnswers(b, a)
  <2>1. Cardinality(books) <= 1 BY <1>2, SeenIsCounted
  <2>2. Comparable(b, a) BY <1>1, <1>2
  <2> QED BY <2>1, <2>2
<1>3. CallOK([a EXCEPT !.stage = "closing", !.reply = answer], b, books)
      /\ [a EXCEPT !.stage = "closing", !.reply = answer].stage = "closing"
  BY <1>2, ClosingIsOK
<1> QED BY <1>3 DEF Closed

LEMMA QuestionsInvRankReads == QuestionsInv /\ RankReads => QuestionsInv'
<1> SUFFICES ASSUME QuestionsInv, RankReads PROVE QuestionsInv' OBVIOUS
<1> DEFINE block == BlockOf(book, asked)
           has(i) == i \in DOMAIN block /\ block[i] = asked.arg
<1>1. /\ CallOK(asked, book, seen) /\ asked.kind = "rank" /\ asked.stage = "reading" /\ book \in Books
      /\ asked # NoQuestion
  BY DEF QuestionsInv, RankReads
<1>2. /\ Counts(asked) /\ DOMAIN asked = CallFields /\ asked.start \in Nat /\ asked.total \in Nat
      /\ asked.start < asked.total /\ book \in seen
      /\ Cardinality(seen) <= 1 => ProgressOK(asked, book)
  BY <1>1 DEF CallOK, Counts
<1>4. block = NextBlock BY DEF BlockOf, NextBlock
<1>5. asked' = IF \E i \in DOMAIN block : block[i] = asked.arg
               THEN Closed(asked, Gives(asked.start + (CHOOSE i \in DOMAIN block : block[i] = asked.arg) - 1))
               ELSE AfterIt(asked, <<>>)
  BY <1>4 DEF RankReads, Closing, Closed, RankAt, AfterBlock, AfterIt, Onward
<1>6. CASE \E i \in DOMAIN block : block[i] = asked.arg
  <2> DEFINE i == CHOOSE x \in DOMAIN block : block[x] = asked.arg
             answer == Gives(asked.start + i - 1)
             c == Closed(asked, answer)
  <2>1. i \in DOMAIN block /\ block[i] = asked.arg BY <1>6
  <2> HIDE DEF i
  <2>2. Cardinality(seen) <= 1 /\ Comparable(book, asked) => answer \in CsrmAnswers(book, asked)
    BY <1>1, <1>2, <2>1, RankIsRight
  <2>3. asked' = c BY <1>5, <1>6 DEF i
  <2> HIDE DEF answer
  <2>4. CallOK(c, book, seen) /\ c.stage = "closing" BY <1>1, <1>2, <2>2, CountedIsClosed
  <2> HIDE DEF c
  <2>5. Reads(c) BY <1>1, <2>3, <2>4 DEF Reads, RankReads
  <2> QED BY <2>5, QuestionsInvReads
<1>7. CASE ~\E i \in DOMAIN block : block[i] = asked.arg
  <2> DEFINE more == asked.start + BatchRows < asked.total
             c == AfterIt(asked, <<>>)
  <2>1. asked' = c BY <1>5, <1>7
  <2>2. Cardinality(seen) <= 1 =>
           /\ more => ProgressOK(Onward(asked, <<>>), book)
           /\ ~more /\ Comparable(book, asked) => Gives("none") \in CsrmAnswers(book, asked)
    BY <1>1, <1>2, <1>7, RankGoesOn
  <2>3. CASE more
    <3>1. c = Onward(asked, <<>>) BY <2>3 DEF AfterIt
    <3>2. CallOK(c, book, seen) /\ c.stage = "reading" BY <1>1, <1>2, <2>2, <2>3, <3>1, OnwardIsOK
    <3> HIDE DEF c
    <3>3. Reads(c) BY <1>1, <2>1, <3>2 DEF Reads, RankReads
    <3> QED BY <3>3, QuestionsInvReads
  <2>4. CASE ~more
    <3>1. c = Closed(asked, Gives("none")) BY <1>1, <2>4 DEF AfterIt
    <3>2. CallOK(c, book, seen) /\ c.stage = "closing" BY <1>1, <1>2, <2>2, <2>4, <3>1, CountedIsClosed
    <3> HIDE DEF c
    <3>3. Reads(c) BY <1>1, <2>1, <3>2 DEF Reads, RankReads
    <3> QED BY <3>3, QuestionsInvReads
  <2> QED BY <2>3, <2>4
<1> QED BY <1>6, <1>7

LEMMA QuestionsInvScanReads == QuestionsInv /\ ScanReads => QuestionsInv'
<1> SUFFICES ASSUME QuestionsInv, ScanReads PROVE QuestionsInv' OBVIOUS
<1> DEFINE found == asked.found \o BlockOf(book, asked)
           more == asked.start + BatchRows < asked.total
           c == AfterIt(asked, found)
<1>1. /\ CallOK(asked, book, seen) /\ asked.kind = "scan" /\ asked.stage = "reading" /\ book \in Books
      /\ asked # NoQuestion
  BY DEF QuestionsInv, ScanReads
<1>2. /\ Counts(asked) /\ DOMAIN asked = CallFields /\ asked.start \in Nat /\ asked.total \in Nat
      /\ asked.start < asked.total /\ book \in seen
      /\ Cardinality(seen) <= 1 => ProgressOK(asked, book)
  BY <1>1 DEF CallOK, Counts
<1>4. asked' = c BY DEF ScanReads, BlockOf, NextBlock, Collected, AfterBlock, Closing, AfterIt, Onward, Closed
<1>5. Cardinality(seen) <= 1 =>
         /\ more => ProgressOK(Onward(asked, found), book)
         /\ ~more /\ Comparable(book, asked) => Gives(found) \in CsrmAnswers(book, asked)
  BY <1>1, <1>2, ScanGoesOn
<1> HIDE DEF found
<1>6. CASE more
  <2>1. c = Onward(asked, found) BY <1>6 DEF AfterIt
  <2>2. CallOK(c, book, seen) /\ c.stage = "reading" BY <1>1, <1>2, <1>5, <1>6, <2>1, OnwardIsOK
  <2> HIDE DEF c
  <2>3. Reads(c) BY <1>1, <1>4, <2>2 DEF Reads, ScanReads
  <2> QED BY <2>3, QuestionsInvReads
<1>7. CASE ~more
  <2>1. c = Closed(asked, Gives(found)) BY <1>1, <1>7 DEF AfterIt
  <2>2. CallOK(c, book, seen) /\ c.stage = "closing" BY <1>1, <1>2, <1>5, <1>7, <2>1, CountedIsClosed
  <2> HIDE DEF c
  <2>3. Reads(c) BY <1>1, <1>4, <2>2 DEF Reads, ScanReads
  <2> QED BY <2>3, QuestionsInvReads
<1> QED BY <1>6, <1>7

LEMMA QuestionsInvIsKept == QuestionsInv /\ [HubQueriesNext]_queryCallVars => QuestionsInv'
<1> SUFFICES ASSUME QuestionsInv, [HubQueriesNext]_queryCallVars PROVE QuestionsInv' OBVIOUS
<1>1. ASSUME NEW k \in BookKeys, BookMoves(k) PROVE QuestionsInv' BY <1>1, QuestionsInvBookMoves
<1>2. ASSUME NEW q \in Questions, AskHub(q) PROVE QuestionsInv' BY <1>2, QuestionsInvAskHub
<1>3. CASE ViewOpens BY <1>3, QuestionsInvViewOpens
<1>4. CASE ViewFails BY <1>4, QuestionsInvViewFails
<1>5. CASE RowsCounted BY <1>5, QuestionsInvRowsCounted
<1>6. CASE ReadOnce BY <1>6, QuestionsInvReadOnce
<1>7. CASE RankReads BY <1>7, QuestionsInvRankReads
<1>8. CASE ScanReads BY <1>8, QuestionsInvScanReads
<1>9. CASE ReadFails BY <1>9, QuestionsInvReadFails
<1>10. CASE ViewCloses BY <1>10, QuestionsInvViewCloses
<1>11. CASE EntryGoes BY <1>11, QuestionsInvEntryGoes
<1>12. CASE UNCHANGED queryCallVars BY <1>12 DEF queryCallVars, QuestionsInv
<1> QED BY <1>1, <1>2, <1>3, <1>4, <1>5, <1>6, <1>7, <1>8, <1>9, <1>10, <1>11, <1>12 DEF HubQueriesNext

(* In every state of the specification a call is accounted for: one view of *)
(* the engine is open from its opening to its end, and in a book that has   *)
(* not changed since, the rows up to the next block are those read.         *)
THEOREM QuestionsInvariance == HubQueriesSpec => []QuestionsInv
BY QuestionsInvInit, QuestionsInvIsKept, PTL DEF HubQueriesSpec

(* A hub answers as a tab with the rows would have, of the table at some    *)
(* moment of the call; and leaves no view behind.                           *)
THEOREM AnswersAgree == HubQueriesSpec => []HubAnswersAsTabs
BY QuestionsInvariance, QuestionsInvAnswers, PTL

(* The type invariant of the questions.                                     *)
THEOREM QuestionsTyped == HubQueriesSpec => []HubQueriesTypeOK
BY QuestionsInvariance, QuestionsInvAnswers, PTL

------------------------------------------------------------------------------
(* A rule runs in two places.                                               *)

\* What a rule is compiled to.  Without a conjunction it is one operation, an
\* `or' if it has two terms.
RuleOK(r) ==
    /\ r.conjoinsUnderOr => r.conjoins
    /\ ~r.conjoins => \E o : r.ops = {o}
    /\ ValidateRule(r) /\ EngineAccepts(r.ops) /\ OrsAreOfTexts(r.ops) /\ ~r.conjoinsUnderOr
       => FiresWhereTrue(r)

\* So is every rule in the editor.
RulesInv == \E rules : operands \in Seq(rules) /\ \A r \in rules : RuleOK(r)

\* A term's operation tests the value as the term does.
LEMMA TermMeansTheSame ==
    ASSUME NEW t \in Terms, t.field \in Schema, NEW row \in RuleRows, row.live # Missing
    PROVE  /\ CompileFilterOps(t).op # "or" /\ CompileFilterOps(t).column = t.field
           /\ IsTrueOf(t, row[t.field]) <=> EngineTests(CompileFilterOps(t), row[t.field])
<1> DEFINE v == row[t.field]
           o == CompileFilterOps(t)
           Ordered == {Comparison("dv01", op, a, FALSE) : op \in {"==", "!=", "<"}, a \in Amounts}
           Turned == {Comparison("dv01", "<", a, TRUE) : a \in Amounts}
           Textual == {Comparison("desk", op, n, FALSE) : op \in {"==", "!="}, n \in Names}
           Flags == {[type |-> "field", field |-> "live"], [type |-> "not", field |-> "live"],
                     [type |-> "field", field |-> "renamed"]}
<1>0. t \in Ordered \/ t \in Turned \/ t \in Textual \/ t \in Flags BY DEF Terms, Comparison
<1>1. CASE t \in Ordered
  <2>1. PICK op \in {"==", "!=", "<"}, a \in Amounts : t = Comparison("dv01", op, a, FALSE) BY <1>1 DEF Comparison
  <2>2. /\ t.type = "comparison" /\ t.field = "dv01" /\ t.op = op /\ t.lit = a /\ ~t.flipped
    BY <2>1 DEF Comparison
  <2>3. o = FilterOp("dv01", op, a) BY <2>2 DEF CompileFilterOps, CompileComparison, CompareOp
  <2>4. o.column = "dv01" /\ o.op = op /\ o.value = a BY <2>3 DEF FilterOp
  <2> HIDE DEF o
  <2>5. IsTrueOf(t, v) <=> EngineTests(o, v) BY <2>2, <2>4 DEF IsTrueOf, EngineTests, Less
  <2> QED BY <2>2, <2>4, <2>5 DEF o
<1>2. CASE t \in Turned
  <2>1. PICK a \in Amounts : t = Comparison("dv01", "<", a, TRUE) BY <1>2, Zenon
  <2>2. /\ t.type = "comparison" /\ t.field = "dv01" /\ t.op = "<" /\ t.lit = a /\ t.flipped
    BY <2>1 DEF Comparison
  <2>3. o = FilterOp("dv01", ">", a) BY <2>2 DEF CompileFilterOps, CompileComparison, CompareOp, Flip
  <2>4. o.column = "dv01" /\ o.op = ">" /\ o.value = a BY <2>3 DEF FilterOp
  <2> HIDE DEF o
  <2>5. v \in Amounts \cup {Missing} BY <2>2 DEF RuleRows
  <2>6. v # Missing => (a < v <=> v > a) BY <2>5, RuleAssumption
  <2>7. IsTrueOf(t, v) <=> EngineTests(o, v) BY <2>2, <2>4, <2>6 DEF IsTrueOf, EngineTests, Less
  <2> QED BY <2>2, <2>4, <2>7 DEF o
<1>3. CASE t \in Textual
  <2>1. PICK op \in {"==", "!="}, n \in Names : t = Comparison("desk", op, n, FALSE) BY <1>3 DEF Comparison
  <2>2. /\ t.type = "comparison" /\ t.field = "desk" /\ t.op = op /\ t.lit = n /\ ~t.flipped
    BY <2>1 DEF Comparison
  <2>3. o = FilterOp("desk", op, n) BY <2>2 DEF CompileFilterOps, CompileComparison, CompareOp
  <2>4. o.column = "desk" /\ o.op = op /\ o.value = n BY <2>3 DEF FilterOp
  <2> HIDE DEF o
  <2>5. IsTrueOf(t, v) <=> EngineTests(o, v) BY <2>2, <2>4 DEF IsTrueOf, EngineTests
  <2> QED BY <2>2, <2>4, <2>5 DEF o
<1>4. CASE t \in Flags
  <2>1. t.field = "live" /\ t.type \in {"field", "not"} BY <1>4 DEF Schema
  <2>2. o = IF t.type = "field" THEN FilterOp("live", "==", Yes) ELSE FilterOp("live", "==", No)
    BY <2>1 DEF CompileFilterOps
  <2>3. /\ o.column = "live" /\ o.op = "==" /\ o.value = IF t.type = "field" THEN Yes ELSE No
    BY <2>2 DEF FilterOp
  <2> HIDE DEF o
  <2>4. v \in {Yes, No} BY <2>1 DEF RuleRows
  <2>5. IsTrueOf(t, v) <=> IF t.type = "field" THEN v = Yes ELSE ~(v = Yes) BY <2>1 DEF IsTrueOf, Truthy
  <2>6. EngineTests(o, v) <=> v = o.value BY <2>3, <2>4, RuleAssumption DEF EngineTests, Eq
  <2>7. IsTrueOf(t, v) <=> EngineTests(o, v) BY <2>1, <2>3, <2>4, <2>5, <2>6, RuleAssumption
  <2> QED BY <2>1, <2>3, <2>7 DEF o
<1> HIDE DEF Ordered, Turned, Textual, Flags
<1> QED BY <1>0, <1>1, <1>2, <1>3, <1>4

LEMMA LeafIsOK == ASSUME NEW t \in Terms PROVE RuleOK(Leaf(t))
<1> DEFINE o == CompileFilterOps(t)
           r == Leaf(t)
<1>1. /\ r.trueOf = CompileEval(t) /\ r.ops = {o} /\ r.fields = {t.field}
      /\ r.conjoins = FALSE /\ r.conjoinsUnderOr = FALSE
  BY DEF Leaf
<1>2. ASSUME t.field \in Schema, NEW row \in RuleRows, row.live # Missing, NEW doubt \in BOOLEAN
      PROVE  row \in CompileEval(t) <=> EngineFires({o}, row, doubt)
  <2>1. Cell(row, t.field) = row[t.field] BY <1>2 DEF Cell
  <2>2. /\ o.op # "or" /\ o.column = t.field
        /\ IsTrueOf(t, row[t.field]) <=> EngineTests(o, row[t.field])
    BY <1>2, TermMeansTheSame
  <2> HIDE DEF o
  <2>3. EngineFires({o}, row, doubt) <=> EngineTests(o, row[t.field]) BY <2>1, <2>2 DEF EngineFires
  <2>4. row \in CompileEval(t) <=> IsTrueOf(t, row[t.field]) BY <2>1 DEF CompileEval
  <2> QED BY <2>2, <2>3, <2>4
<1> HIDE DEF o, r
<1>3. ValidateRule(r) => t.field \in Schema BY <1>1 DEF ValidateRule
<1>4. ValidateRule(r) => FiresWhereTrue(r) BY <1>1, <1>2, <1>3 DEF FiresWhereTrue
<1>5. RuleOK(r) BY <1>1, <1>4 DEF RuleOK
<1> QED BY <1>5 DEF r

\* Joined, they are what the two are, both or either.
LEMMA BinaryIsOK ==
    ASSUME NEW l, NEW r, RuleOK(l), RuleOK(r), NEW op \in {"&&", "||"}
    PROVE  RuleOK(Binary(op, l, r))
<1> DEFINE b == Binary(op, l, r)
<1>1. /\ b.trueOf = EvalBinary(op, l.trueOf, r.trueOf) /\ b.ops = FilterBinary(op, l.ops, r.ops)
      /\ b.fields = l.fields \cup r.fields
      /\ b.conjoins <=> op = "&&" \/ l.conjoins \/ r.conjoins
      /\ b.conjoinsUnderOr <=> IF op = "&&" THEN l.conjoinsUnderOr \/ r.conjoinsUnderOr ELSE l.conjoins \/ r.conjoins
  BY DEF Binary
<1> HIDE DEF b
<1>2. ValidateRule(b) => ValidateRule(l) /\ ValidateRule(r) BY <1>1 DEF ValidateRule
<1>3. b.conjoinsUnderOr => b.conjoins BY <1>1
<1>4. ASSUME op = "&&" PROVE RuleOK(b)
  <2>1. b.trueOf = l.trueOf \cap r.trueOf /\ b.ops = l.ops \cup r.ops BY <1>1, <1>4 DEF EvalBinary, FilterBinary
  <2>2. /\ EngineAccepts(b.ops) => EngineAccepts(l.ops) /\ EngineAccepts(r.ops)
        /\ OrsAreOfTexts(b.ops) => OrsAreOfTexts(l.ops) /\ OrsAreOfTexts(r.ops)
    BY <2>1 DEF EngineAccepts, OrsAreOfTexts
  <2>3. ASSUME NEW row, NEW doubt
        PROVE  EngineFires(b.ops, row, doubt) <=> EngineFires(l.ops, row, doubt) /\ EngineFires(r.ops, row, doubt)
    <3> DEFINE F(o) == IF o.op = "or" THEN \E c \in o.value : ExpressionTests(c, Cell(row, c.column), doubt)
                       ELSE EngineTests(o, Cell(row, o.column))
    <3>1. \A ops : EngineFires(ops, row, doubt) <=> \A o \in ops : F(o) BY Zenon DEF EngineFires
    <3> HIDE DEF F
    <3> QED BY <2>1, <3>1
  <2>4. ValidateRule(b) /\ EngineAccepts(b.ops) /\ OrsAreOfTexts(b.ops) /\ ~b.conjoinsUnderOr => FiresWhereTrue(b)
    BY <1>1, <1>2, <1>4, <2>1, <2>2, <2>3 DEF RuleOK, FiresWhereTrue
  <2> QED BY <1>1, <1>3, <1>4, <2>4 DEF RuleOK
<1>5. ASSUME op = "||" PROVE RuleOK(b)
  <2> DEFINE both == OrNode(l.ops \cup r.ops)
  <2>1. b.trueOf = l.trueOf \cup r.trueOf /\ b.ops = {both} BY <1>1, <1>5 DEF EvalBinary, FilterBinary
  <2>2. both.op = "or" /\ both.value = l.ops \cup r.ops BY DEF OrNode
  <2> HIDE DEF both
  <2>3. ASSUME ValidateRule(b), EngineAccepts(b.ops), OrsAreOfTexts(b.ops), ~b.conjoinsUnderOr
        PROVE  FiresWhereTrue(b)
    <3>1. ~l.conjoins /\ ~r.conjoins BY <1>1, <1>5, <2>3
    <3>2. ~l.conjoinsUnderOr /\ ~r.conjoinsUnderOr BY <3>1 DEF RuleOK
    <3>3. PICK p : l.ops = {p} BY <3>1 DEF RuleOK
    <3>4. PICK q : r.ops = {q} BY <3>1 DEF RuleOK
    <3>5. p.op # "or" /\ q.op # "or" BY <2>1, <2>2, <2>3, <3>3, <3>4 DEF EngineAccepts
    <3>6. /\ EngineAccepts(l.ops) /\ EngineAccepts(r.ops) /\ OrsAreOfTexts(l.ops) /\ OrsAreOfTexts(r.ops)
          /\ p.value \in Names /\ q.value \in Names
      BY <2>1, <2>2, <2>3, <3>3, <3>4, <3>5 DEF EngineAccepts, OrsAreOfTexts
    <3>7. FiresWhereTrue(l) /\ FiresWhereTrue(r) BY <1>2, <2>3, <3>2, <3>6 DEF RuleOK
    <3>8. ASSUME NEW row, NEW doubt
          PROVE  EngineFires(b.ops, row, doubt) <=> EngineFires(l.ops, row, doubt) \/ EngineFires(r.ops, row, doubt)
      <4> DEFINE G(c) == EngineTests(c, Cell(row, c.column))
                 E(c) == ExpressionTests(c, Cell(row, c.column), doubt)
      <4>0. \A ops : EngineFires(ops, row, doubt) <=> \A o \in ops : IF o.op = "or" THEN \E c \in o.value : E(c) ELSE G(o)
        BY Zenon DEF EngineFires
      <4>1. (E(p) <=> G(p)) /\ (E(q) <=> G(q)) BY <3>6 DEF ExpressionTests
      <4> HIDE DEF G, E
      <4>2. EngineFires(b.ops, row, doubt) <=> \E c \in {p, q} : E(c) BY <2>1, <2>2, <3>3, <3>4, <4>0
      <4>3. EngineFires(l.ops, row, doubt) <=> G(p) BY <3>3, <3>5, <4>0
      <4>4. EngineFires(r.ops, row, doubt) <=> G(q) BY <3>4, <3>5, <4>0
      <4> QED BY <4>1, <4>2, <4>3, <4>4
    <3> QED BY <2>1, <3>7, <3>8 DEF FiresWhereTrue
  <2> QED BY <1>1, <1>3, <1>5, <2>1, <2>3 DEF RuleOK
<1>6. RuleOK(b) BY <1>4, <1>5
<1> QED BY <1>6 DEF b

LEMMA RulesInvWrite == ASSUME NEW t \in Terms PROVE RulesInv /\ Write(t) => RulesInv'
<1> SUFFICES ASSUME RulesInv, Write(t) PROVE RulesInv' OBVIOUS
<1>1. PICK rules : operands \in Seq(rules) /\ \A r \in rules : RuleOK(r) BY DEF RulesInv
<1> DEFINE more == rules \cup {Leaf(t)}
<1>2. operands' = Append(operands, Leaf(t)) BY DEF Write
<1>3. operands \in Seq(more) /\ Leaf(t) \in more BY <1>1, SeqMonotonic
<1>4. operands' \in Seq(more) BY <1>2, <1>3, AppendProperties
<1>5. \A r \in more : RuleOK(r) BY <1>1, LeafIsOK
<1> QED BY <1>4, <1>5 DEF RulesInv

LEMMA RulesInvJoin == ASSUME NEW op \in {"&&", "||"} PROVE RulesInv /\ Join(op) => RulesInv'
<1> SUFFICES ASSUME RulesInv, Join(op) PROVE RulesInv' OBVIOUS
<1>1. PICK rules : operands \in Seq(rules) /\ \A r \in rules : RuleOK(r) BY DEF RulesInv
<1> DEFINE n == Len(operands)
           b == Binary(op, operands[n - 1], operands[n])
           rest == SubSeq(operands, 1, n - 2)
           more == rules \cup {b}
<1>2. n \in Nat /\ n >= 2 BY <1>1 DEF Join
<1>3. operands' = Append(rest, b) BY DEF Join
<1>4. operands[n - 1] \in rules /\ operands[n] \in rules BY <1>1, <1>2, ElementOfSeq
<1>5. RuleOK(b) BY <1>1, <1>4, BinaryIsOK
<1>6. rest \in Seq(rules)
  <2>1. \A i \in 1 .. n - 2 : operands[i] \in rules BY <1>1, <1>2, ElementOfSeq
  <2>2. 1 \in Int /\ n - 2 \in Int BY <1>2
  <2> QED BY <2>1, <2>2, SubSeqProperties
<1> HIDE DEF b, rest
<1>7. rest \in Seq(more) /\ b \in more BY <1>6, SeqMonotonic
<1>8. operands' \in Seq(more) BY <1>3, <1>7, AppendProperties
<1>9. \A r \in more : RuleOK(r) BY <1>1, <1>5
<1> QED BY <1>8, <1>9 DEF RulesInv

(* For any numbers, texts and shapes: a rule that is valid and that the     *)
(* engine accepts (compile.mjs, conditionExpression) fires there on the     *)
(* rows the client's evaluation is true of, but for a disjunction of other  *)
(* than texts, a conjunction under one and a flag without a value.          *)
THEOREM RulesAgree == RuleSpec => []RulesMeanTheSame
<1>1. RuleInit => RulesInv
  <2>1. <<>> \in Seq({}) BY EmptySeq
  <2> QED BY <2>1 DEF RuleInit, RulesInv
<1>2. RulesInv /\ [RuleNext]_ruleVars => RulesInv'
  <2> SUFFICES ASSUME RulesInv, [RuleNext]_ruleVars PROVE RulesInv' OBVIOUS
  <2>1. ASSUME NEW t \in Terms, Write(t) PROVE RulesInv' BY <2>1, RulesInvWrite
  <2>2. CASE Join("&&") BY <2>2, RulesInvJoin
  <2>3. CASE Join("||") BY <2>3, RulesInvJoin
  <2>4. CASE UNCHANGED ruleVars BY <2>4 DEF ruleVars, RulesInv
  <2> QED BY <2>1, <2>2, <2>3, <2>4 DEF RuleNext
<1>3. RulesInv => RulesMeanTheSame
  <2> SUFFICES ASSUME RulesInv PROVE RulesMeanTheSame OBVIOUS
  <2>1. PICK rules : operands \in Seq(rules) /\ \A r \in rules : RuleOK(r) BY DEF RulesInv
  <2>2. \A i \in DOMAIN operands : operands[i] \in rules BY <2>1, ElementOfSeq
  <2> QED BY <2>1, <2>2 DEF RuleOK, RulesMeanTheSame
<1> QED BY <1>1, <1>2, <1>3, PTL DEF RuleSpec

------------------------------------------------------------------------------
(* The inferred schema. Of a path the sampler keeps counts, flags and a set *)
(* that may be let go; the invariant says of each what it tells of the      *)
(* samples, and the artifact follows from that, without the samples.        *)

\* What can be kept of a path.
JsTypes == {"null", "array", "number", "string", "boolean"}
StatsSet == [count : Nat, nulls : Nat, types : SUBSET JsTypes, fraction : BOOLEAN, iso : Nat,
             distinct : SUBSET SampleValues, overflowed : BOOLEAN]

NullValues == {v \in SampleValues : JsType[v] = "null"}
\* The values whose contents are looked at.
PlainValues == {v \in SampleValues : JsType[v] \notin {"null", "array"}}

\* Counts, flags and the set are those of the samples at a path.
StatsFit(s, p) ==
    /\ s \in StatsSet
    /\ s.count = TimesSampled(p, SampleValues)
    /\ s.nulls = TimesSampled(p, NullValues)
    /\ s.iso = TimesSampled(p, IsoLike)
    /\ s.types = {JsType[v] : v \in SampledAt(p)}
    /\ s.fraction = (SampledAt(p) \cap Fractions # {})
    /\ s.distinct = IF s.overflowed THEN {} ELSE SampledAt(p) \cap PlainValues

\* What was sampled; a value that came again has the next number.
ObservedOK ==
    /\ observed \in SUBSET [path : SamplePaths, value : SampleValues, nth : Nat]
    /\ IsFiniteSet(observed)
    /\ \A x \in observed : x.nth <= TimesSampled(x.path, {x.value})

\* The inductive invariant of the sampler.
InferenceInv ==
    /\ ObservedOK
    /\ DOMAIN leafStats = {p \in SamplePaths : Len(p) <= MaxNesting /\ SampledAt(p) # {}}
    /\ \A p \in DOMAIN leafStats : StatsFit(leafStats[p], p)

------------------------------------------------------------------------------
\* How often values were sampled is a number, and grows with the values.
LEMMA SamplesAreCounted ==
  ASSUME ObservedOK, NEW p, NEW values
  PROVE  /\ IsFiniteSet(Samples(p, values))
         /\ TimesSampled(p, values) \in Nat
         /\ TimesSampled(p, values) = 0 <=> Samples(p, values) = {}
<1>1. IsFiniteSet(Samples(p, values))
  BY FS_Subset DEF ObservedOK, Samples
<1>. QED BY <1>1, FS_CardinalityType, FS_EmptySet DEF TimesSampled

\* The samples of a path are those of the values sampled at it.
LEMMA SamplesAreOfSampled ==
  ASSUME ObservedOK, NEW p, NEW values
  PROVE  /\ Samples(p, values) = Samples(p, values \cap SampledAt(p))
         /\ SampledAt(p) \subseteq SampleValues
         /\ Samples(p, values) = {} <=> values \cap SampledAt(p) = {}
<1>1. SampledAt(p) \subseteq SampleValues BY DEF SampledAt
<1>2. ASSUME NEW x \in observed, x.path = p PROVE x.value \in SampledAt(p)
  BY <1>2 DEF ObservedOK, SampledAt, Samples
<1>3. ASSUME NEW v \in SampledAt(p) PROVE \E x \in observed : x.path = p /\ x.value = v
  BY <1>3 DEF SampledAt, Samples
<1>. QED BY <1>1, <1>2, <1>3 DEF Samples

\* Of values apart, the samples add up.
LEMMA SamplesAddUp ==
  ASSUME ObservedOK, NEW p, NEW one, NEW other, one \cap other = {}
  PROVE  TimesSampled(p, one \cup other) = TimesSampled(p, one) + TimesSampled(p, other)
<1>1. /\ Samples(p, one) \cup Samples(p, other) = Samples(p, one \cup other)
      /\ Samples(p, one) \cap Samples(p, other) = {}
  BY DEF Samples
<1>2. IsFiniteSet(Samples(p, one)) /\ IsFiniteSet(Samples(p, other)) BY SamplesAreCounted
<1>3. TimesSampled(p, one) \in Nat /\ TimesSampled(p, other) \in Nat BY SamplesAreCounted
<1>4. Cardinality({}) = 0 BY FS_EmptySet
<1>5. Cardinality(Samples(p, one) \cup Samples(p, other))
         = Cardinality(Samples(p, one)) + Cardinality(Samples(p, other)) - Cardinality({})
  BY <1>1, <1>2, FS_Union
<1>6. TimesSampled(p, one \cup other) = TimesSampled(p, one) + TimesSampled(p, other) - 0
  BY <1>1, <1>4, <1>5, Zenon DEF TimesSampled
<1>. QED BY <1>3, <1>6

\* What fitting stats tell of the samples that are not null.
LEMMA StatsTell ==
  ASSUME ObservedOK, NEW p \in SamplePaths, NEW s, StatsFit(s, p)
  PROVE  /\ NonNull(s) = TimesSampled(p, ValuesOf(p)) /\ NonNull(s) \in Nat
         /\ s.iso = TimesSampled(p, ValuesOf(p) \cap IsoLike) /\ s.iso \in Nat
         /\ s.nulls > 0 <=> (\E v \in SampledAt(p) : JsType[v] = "null")
         /\ TypesOf(p) = s.types \ {"null"}
         /\ IsFiniteSet(SampledAt(p))
<1>. USE DEF StatsFit
<1>1. /\ ValuesOf(p) \cap NullValues = {}
      /\ ValuesOf(p) \subseteq SampledAt(p)
      /\ (ValuesOf(p) \cup NullValues) \cap SampledAt(p) = SampleValues \cap SampledAt(p)
  BY DEF ValuesOf, NullValues, SampledAt
<1>2. TimesSampled(p, ValuesOf(p) \cup NullValues) = TimesSampled(p, SampleValues)
  BY <1>1, SamplesAreOfSampled DEF TimesSampled
<1>3. TimesSampled(p, ValuesOf(p) \cup NullValues) = TimesSampled(p, ValuesOf(p)) + TimesSampled(p, NullValues)
  BY <1>1, SamplesAddUp
<1>4. TimesSampled(p, ValuesOf(p)) \in Nat /\ TimesSampled(p, NullValues) \in Nat BY SamplesAreCounted
<1>5. NonNull(s) = TimesSampled(p, ValuesOf(p)) /\ NonNull(s) \in Nat
  BY <1>2, <1>3, <1>4 DEF NonNull
<1>6. IsoLike \cap SampledAt(p) = (ValuesOf(p) \cap IsoLike) \cap SampledAt(p)
  BY InferenceAssumption DEF ValuesOf, SampledAt
<1>7. s.iso = TimesSampled(p, ValuesOf(p) \cap IsoLike)
  <2>1. Samples(p, IsoLike) = Samples(p, IsoLike \cap SampledAt(p)) BY SamplesAreOfSampled
  <2>2. Samples(p, ValuesOf(p) \cap IsoLike) = Samples(p, (ValuesOf(p) \cap IsoLike) \cap SampledAt(p))
    BY SamplesAreOfSampled
  <2>. QED BY <1>6, <2>1, <2>2 DEF TimesSampled
<1>8. s.nulls > 0 <=> (\E v \in SampledAt(p) : JsType[v] = "null")
  <2>1. s.nulls = 0 <=> NullValues \cap SampledAt(p) = {}
    <3>1. TimesSampled(p, NullValues) = 0 <=> Samples(p, NullValues) = {} BY SamplesAreCounted
    <3>2. Samples(p, NullValues) = {} <=> NullValues \cap SampledAt(p) = {} BY SamplesAreOfSampled
    <3>. QED BY <3>1, <3>2
  <2>2. NullValues \cap SampledAt(p) = {v \in SampledAt(p) : JsType[v] = "null"} BY DEF NullValues, SampledAt
  <2>. QED BY <2>1, <2>2, <1>4
<1>9. TypesOf(p) = s.types \ {"null"} BY DEF TypesOf, ValuesOf
<1>10. IsFiniteSet(SampledAt(p)) BY FS_Subset, InferenceAssumption DEF SampledAt
<1>11. s.iso \in Nat BY DEF StatsSet
<1>. QED BY <1>5, <1>7, <1>8, <1>9, <1>10, <1>11

------------------------------------------------------------------------------
(* The artifact, column by column.                                          *)

\* A column fits what was sampled at its path (the parts of ArtifactFitsSamples).
ColumnFits(s, p) ==
    LET column == InferOne(s)
        values == ValuesOf(p)
        types == TypesOf(p)
        mixed == "boolean" \in types /\ types # {"boolean"}
    IN  /\ \A v \in values : Holds(column.type, v) \/ mixed \/ column.type = "datetime"
        /\ column.type = "datetime" =>
               /\ column.review # {}
               /\ TimesSampled(p, values \cap IsoLike) * 100 >= TimesSampled(p, values) * IsoPercent
        /\ (column.nullable <=> \E v \in SampledAt(p) : JsType[v] = "null")
        /\ column.filter = "set" /\ "array" \notin types /\ ~mixed => Cardinality(values) <= SetFilterMax
        /\ column.review = {} /\ ~mixed => Cardinality(types) = 1
        /\ NonNull(s) >= MinNonNull => "few" \notin column.review

\* A guess, and the ground for it.
HasGround(g, s) ==
    \/ g.type = "string" /\ g.reason = "mixed" /\ {"string", "number"} \subseteq s.types
    \/ g.type = "boolean" /\ g.reason = "" /\ "boolean" \in s.types
    \/ g.type = "float" /\ g.reason = "" /\ s.fraction
           /\ "number" \in s.types /\ "string" \notin s.types /\ "boolean" \notin s.types
    \/ g.type = "integer" /\ g.reason = "whole" /\ ~s.fraction
           /\ "number" \in s.types /\ "string" \notin s.types /\ "boolean" \notin s.types
    \/ g.type = "boolean" /\ g.reason = "flag" /\ "number" \notin s.types /\ "boolean" \notin s.types
           /\ s.distinct # {} /\ Cardinality(s.distinct) <= 2 /\ s.distinct \subseteq BooleanTokens
    \/ g.type = "datetime" /\ g.reason = "iso" /\ s.iso * 100 >= NonNull(s) * IsoPercent
    \/ g.type = "string" /\ g.reason \in {"iso", "numeric", ""}
           /\ "number" \notin s.types /\ "boolean" \notin s.types

LEMMA GuessHasGround ==
  ASSUME NEW s, s.fraction \in BOOLEAN
  PROVE  HasGround(GuessFrom(s), s)
<1>. USE DEF HasGround
<1>. DEFINE strings == GuessOfStrings(s)
<1>1. \/ strings.type = "boolean" /\ strings.reason = "flag"
             /\ s.distinct # {} /\ Cardinality(s.distinct) <= 2 /\ s.distinct \subseteq BooleanTokens
      \/ strings.type = "datetime" /\ strings.reason = "iso" /\ s.iso * 100 >= NonNull(s) * IsoPercent
      \/ strings.type = "string" /\ strings.reason \in {"iso", "numeric", ""}
  BY Zenon DEF GuessOfStrings, Guess
<1>2. CASE {"string", "number"} \subseteq s.types
  BY <1>2 DEF GuessFrom, Guess
<1>3. CASE ~({"string", "number"} \subseteq s.types) /\ "boolean" \in s.types
  BY <1>3 DEF GuessFrom, Guess
<1>4. CASE ~({"string", "number"} \subseteq s.types) /\ "boolean" \notin s.types /\ "number" \in s.types
  BY <1>4 DEF GuessFrom, Guess
<1>5. CASE "boolean" \notin s.types /\ "number" \notin s.types
  <2>1. GuessFrom(s) = strings BY <1>5 DEF GuessFrom, Guess
  <2>. HIDE DEF strings
  <2>. QED BY <2>1, <1>1, <1>5
<1>. QED BY <1>2, <1>3, <1>4, <1>5

LEMMA ColumnsFit ==
  ASSUME ObservedOK, NEW p \in SamplePaths, NEW s, StatsFit(s, p)
  PROVE  ColumnFits(s, p)
<1>. DEFINE column == InferOne(s)
            values == ValuesOf(p)
            types == TypesOf(p)
            mixed == "boolean" \in types /\ types # {"boolean"}
            from == GuessFrom(s)
            guess == InferType(s)
            filter == FilterStrategyFor(guess.type, s)
<1>1. /\ NonNull(s) = TimesSampled(p, values) /\ NonNull(s) \in Nat
      /\ s.iso = TimesSampled(p, values \cap IsoLike) /\ s.iso \in Nat
      /\ s.nulls > 0 <=> (\E v \in SampledAt(p) : JsType[v] = "null")
      /\ types = s.types \ {"null"}
      /\ IsFiniteSet(SampledAt(p))
  BY StatsTell
<1>2. /\ s.fraction \in BOOLEAN /\ s.overflowed \in BOOLEAN
      /\ s.types = {JsType[v] : v \in SampledAt(p)}
      /\ s.fraction = (SampledAt(p) \cap Fractions # {})
      /\ s.distinct = IF s.overflowed THEN {} ELSE SampledAt(p) \cap PlainValues
  BY DEF StatsFit, StatsSet
<1>3. /\ values \subseteq SampledAt(p) /\ SampledAt(p) \subseteq SampleValues
      /\ \A v \in values : JsType[v] \in types
      /\ \A v \in SampledAt(p) : JsType[v] \in {"null", "array", "number", "string", "boolean"}
      /\ IsFiniteSet(values)
  BY <1>1, InferenceAssumption, FS_Subset DEF ValuesOf, SampledAt, TypesOf
<1>4. types \subseteq {"array", "number", "string", "boolean"}
  BY <1>1, <1>2, <1>3
\* Without arrays what is distinct is what was sampled.
<1>5. ASSUME "array" \notin types, ~s.overflowed PROVE s.distinct = values
  BY <1>5, <1>1, <1>2, <1>3 DEF PlainValues, ValuesOf
<1>6. /\ column = [type |-> guess.type, filter |-> filter, nullable |-> s.nulls > 0,
                   review |-> ({guess.reason} \ {""})
                       \cup (IF s.overflowed \/ (filter = "search-select" /\ LooksUnbounded(s))
                             THEN {"cardinality"} ELSE {})]
      /\ column.type = guess.type /\ column.filter = filter /\ column.nullable = (s.nulls > 0)
      /\ ({guess.reason} \ {""}) \subseteq column.review
      /\ column.review \subseteq {guess.reason, "cardinality"}
  BY Zenon DEF InferOne
<1>. HIDE DEF column
<1>7. HasGround(from, s)
  <2>1. s.fraction \in BOOLEAN BY <1>2
  <2>. QED BY <2>1, GuessHasGround
<1>8. \/ guess.type = "string" /\ guess.reason = "array" /\ "array" \in types
      \/ guess.type = "string" /\ guess.reason = "never" /\ types = {}
      \/ guess.type = from.type /\ guess.reason = "few" /\ "array" \notin types /\ types # {} /\ NonNull(s) < MinNonNull
      \/ guess = from /\ "array" \notin types /\ types # {}
  BY <1>1, <1>2 DEF InferType, Guess
<1>. HIDE DEF from, guess, filter
\* No type but a date loses a value.
<1>9. ASSUME NEW v \in values PROVE Holds(column.type, v) \/ mixed \/ column.type = "datetime"
  <2>1. SUFFICES ASSUME ~mixed, guess.type \notin {"string", "datetime"}
                 PROVE  Holds(guess.type, v)
    BY <1>6 DEF Holds
  <2>2. "array" \notin types /\ types # {} /\ guess.type = from.type
    BY <1>8, <2>1
  <2>3. v \in SampledAt(p) /\ v \in SampleValues /\ JsType[v] \in types /\ JsType[v] \in s.types
    BY <1>1, <1>3
  <2>4. CASE from.type = "boolean" /\ from.reason = "" /\ "boolean" \in s.types
    <3>1. types = {"boolean"} BY <2>1, <2>4, <1>1
    <3>. QED BY <3>1, <2>2, <2>3, <2>4 DEF Holds
  <2>5. CASE from.type \in {"float", "integer"}
             /\ "string" \notin s.types /\ "boolean" \notin s.types /\ (from.type = "integer" => ~s.fraction)
    <3>1. JsType[v] = "number" BY <1>1, <1>4, <2>2, <2>3, <2>5
    <3>2. from.type = "integer" => v \notin Fractions BY <2>5, <1>2, <2>3
    <3>. QED BY <3>1, <3>2, <2>2, <2>5 DEF Holds
  <2>6. CASE from.type = "boolean" /\ from.reason = "flag" /\ s.distinct # {} /\ s.distinct \subseteq BooleanTokens
    <3>1. ~s.overflowed BY <2>6, <1>2
    <3>2. v \in BooleanTokens BY <3>1, <1>5, <2>2, <2>6
    <3>. QED BY <3>2, <2>2, <2>6 DEF Holds
  <2>7. from.type \notin {"string", "datetime"} BY <2>1, <2>2
  <2>. QED BY <1>7, <2>4, <2>5, <2>6, <2>7 DEF HasGround
\* A column of dates is one nearly all of whose values are, and in review.
<1>10. column.type = "datetime" =>
           /\ column.review # {}
           /\ TimesSampled(p, values \cap IsoLike) * 100 >= TimesSampled(p, values) * IsoPercent
  <2>1. SUFFICES ASSUME guess.type = "datetime"
                 PROVE  guess.reason # "" /\ s.iso * 100 >= NonNull(s) * IsoPercent
    BY <1>1, <1>6
  <2>2. from.type = "datetime" /\ (guess = from \/ guess.reason = "few") BY <2>1, <1>8
  <2>3. from.type = "datetime" /\ from.reason = "iso" /\ s.iso * 100 >= NonNull(s) * IsoPercent
    BY <2>2, <1>7 DEF HasGround
  <2>. QED BY <2>2, <2>3
<1>11. column.nullable <=> \E v \in SampledAt(p) : JsType[v] = "null"
  BY <1>1, <1>6, Zenon
\* A set filter is over few values.
<1>12. ASSUME column.filter = "set", "array" \notin types, ~mixed PROVE Cardinality(values) <= SetFilterMax
  <2>0. SetFilterMax \in Nat /\ 2 <= SetFilterMax /\ Cardinality(values) \in Nat
    BY <1>3, InferenceAssumption, FS_CardinalityType
  <2>1. CASE guess.type = "boolean"
    <3>1. from.type = "boolean" BY <2>1, <1>8
    <3>2. CASE from.type = "boolean" /\ from.reason = "" /\ "boolean" \in s.types
      <4>1. types = {"boolean"} BY <3>2, <1>1, <1>12
      <4>2. values \subseteq {v \in SampleValues : JsType[v] = "boolean"} BY <4>1, <1>3
      <4>3. IsFiniteSet({v \in SampleValues : JsType[v] = "boolean"}) BY InferenceAssumption, FS_Subset
      <4>4. Cardinality(values) <= Cardinality({v \in SampleValues : JsType[v] = "boolean"})
        BY <4>2, <4>3, FS_Subset
      <4>5. Cardinality({v \in SampleValues : JsType[v] = "boolean"}) \in Nat BY <4>3, FS_CardinalityType
      <4>. QED BY <4>4, <4>5, <2>0, InferenceAssumption
    <3>3. CASE s.distinct # {} /\ Cardinality(s.distinct) <= 2
      <4>1. s.distinct = values BY <3>3, <1>2, <1>5, <1>12
      <4>. QED BY <4>1, <3>3, <2>0
    <3>. QED BY <3>1, <3>2, <3>3, <1>7 DEF HasGround
  <2>2. CASE guess.type # "boolean"
    <3>1. ~(CardinalityOf(s) > SetFilterMax \/ LooksUnbounded(s))
      BY <2>2, <1>12, <1>6 DEF FilterStrategyFor, filter
    <3>2. ~s.overflowed BY <3>1 DEF LooksUnbounded
    <3>3. CardinalityOf(s) = Cardinality(values) BY <3>2, <1>5, <1>12 DEF CardinalityOf
    <3>. QED BY <3>1, <3>3, <2>0
  <2>. QED BY <2>1, <2>2
\* Without a review, and without booleans among others, all are of one type.
<1>13. ASSUME column.review = {}, ~mixed PROVE Cardinality(types) = 1
  <2>1. guess.reason = "" BY <1>13, <1>6
  <2>2. guess = from /\ "array" \notin types /\ types # {} BY <2>1, <1>8
  <2>3. \/ from.type = "boolean" /\ from.reason = "" /\ "boolean" \in s.types
        \/ from.type = "float" /\ from.reason = "" /\ "number" \in s.types /\ "string" \notin s.types /\ "boolean" \notin s.types
        \/ "number" \notin s.types /\ "boolean" \notin s.types
    BY <2>1, <2>2, <1>7 DEF HasGround
  <2>4. \E t : types = {t}
    <3>1. CASE "boolean" \in s.types
      <4>1. types = {"boolean"} BY <3>1, <1>1, <1>13
      <4>. QED BY <4>1
    <3>2. CASE "number" \in s.types /\ "string" \notin s.types /\ "boolean" \notin s.types
      <4>1. types = {"number"} BY <3>2, <2>2, <1>1, <1>4
      <4>. QED BY <4>1
    <3>3. CASE "number" \notin s.types /\ "boolean" \notin s.types
      <4>1. types = {"string"} BY <3>3, <2>2, <1>1, <1>4
      <4>. QED BY <4>1
    <3>. QED BY <2>3, <3>1, <3>2, <3>3
  <2>. QED BY <2>4, FS_Singleton
\* With values enough no review is for want of them.
<1>14. NonNull(s) >= MinNonNull => "few" \notin column.review
  <2>1. SUFFICES ASSUME NonNull(s) >= MinNonNull PROVE guess.reason # "few"
    BY <1>6
  <2>2. ~(NonNull(s) < MinNonNull) BY <2>1, <1>1, InferenceAssumption
  <2>3. from.reason # "few" BY <1>7 DEF HasGround
  <2>. QED BY <2>2, <2>3, <1>8
<1>. USE DEF column
<1>. QED BY <1>9, <1>10, <1>11, <1>12, <1>13, <1>14, Zenon DEF ColumnFits

LEMMA ArtifactFollows ==
  ASSUME InferenceInv
  PROVE  ArtifactFitsSamples
<1>1. UnknownPaths({x.path : x \in observed}) = {}
  <2>1. DOMAIN Artifact = DOMAIN leafStats BY DEF Artifact
  <2>2. ASSUME NEW x \in observed, Len(x.path) <= MaxNesting PROVE x.path \in DOMAIN leafStats
    <3>1. x.path \in SamplePaths /\ x.value \in SampleValues BY DEF InferenceInv, ObservedOK
    <3>2. x.value \in SampledAt(x.path) BY <3>1 DEF SampledAt, Samples
    <3>. QED BY <3>1, <3>2, <2>2 DEF InferenceInv
  <2>. QED BY <2>1, <2>2 DEF UnknownPaths
<1>2. ASSUME NEW p \in DOMAIN leafStats PROVE ColumnFits(leafStats[p], p)
  BY ColumnsFit DEF InferenceInv
<1>3. ASSUME NEW p \in DOMAIN leafStats, SamplingComplete PROVE NonNull(leafStats[p]) >= MinNonNull
  BY <1>3 DEF SamplingComplete
<1>. QED BY <1>1, <1>2, <1>3, Zenon DEF ArtifactFitsSamples, ColumnFits

------------------------------------------------------------------------------
(* A value is sampled.                                                      *)

LEMMA InferenceStarts == InferenceInit => InferenceInv
<1>. SUFFICES ASSUME InferenceInit PROVE InferenceInv OBVIOUS
<1>1. leafStats = <<>> /\ observed = {} BY DEF InferenceInit
<1>2. ObservedOK BY <1>1, FS_EmptySet DEF ObservedOK
<1>3. \A p : SampledAt(p) = {} BY <1>1 DEF SampledAt, Samples
<1>4. DOMAIN leafStats = {} BY <1>1
<1>. QED BY <1>2, <1>3, <1>4 DEF InferenceInv

\* One sample more: of its path and value one more is counted, and no other.
LEMMA SampleIsCounted ==
  ASSUME ObservedOK, NEW p \in SamplePaths, NEW v \in SampleValues, Sample(p, v)
  PROVE  /\ ObservedOK'
         /\ \A q, values : TimesSampled(q, values)' =
                IF q = p /\ v \in values THEN TimesSampled(q, values) + 1 ELSE TimesSampled(q, values)
         /\ \A q : SampledAt(q)' = IF q = p THEN SampledAt(q) \cup {v} ELSE SampledAt(q)
<1>. DEFINE x == [path |-> p, value |-> v, nth |-> TimesSampled(p, {v}) + 1]
<1>1. observed' = observed \cup {x} BY DEF Sample
<1>2. TimesSampled(p, {v}) \in Nat BY SamplesAreCounted
<1>3. x.path = p /\ x.value = v /\ x.nth = TimesSampled(p, {v}) + 1 OBVIOUS
<1>4. x \notin observed
  <2>1. SUFFICES ASSUME x \in observed PROVE FALSE OBVIOUS
  <2>2. x.nth <= TimesSampled(x.path, {x.value}) BY <2>1 DEF ObservedOK
  <2>. QED BY <2>2, <1>2, <1>3
<1>5. x \in [path : SamplePaths, value : SampleValues, nth : Nat] BY <1>2
<1>. HIDE DEF x
<1>6. ASSUME NEW q, NEW values
      PROVE  /\ Samples(q, values)' = IF q = p /\ v \in values THEN Samples(q, values) \cup {x} ELSE Samples(q, values)
             /\ TimesSampled(q, values)' =
                    IF q = p /\ v \in values THEN TimesSampled(q, values) + 1 ELSE TimesSampled(q, values)
  <2>1. Samples(q, values)' = IF q = p /\ v \in values THEN Samples(q, values) \cup {x} ELSE Samples(q, values)
    BY <1>1, <1>3 DEF Samples
  <2>2. x \notin Samples(q, values) BY <1>4 DEF Samples
  <2>3. IsFiniteSet(Samples(q, values)) BY SamplesAreCounted
  <2>4. Cardinality(Samples(q, values) \cup {x}) = Cardinality(Samples(q, values)) + 1
    BY <2>2, <2>3, FS_AddElement
  <2>. QED BY <2>1, <2>4 DEF TimesSampled
<1>7. ASSUME NEW q PROVE SampledAt(q)' = IF q = p THEN SampledAt(q) \cup {v} ELSE SampledAt(q)
  <2>1. ASSUME NEW w \in SampleValues
        PROVE  Samples(q, {w})' # {} <=> Samples(q, {w}) # {} \/ (q = p /\ w = v)
    BY <1>6
  <2>. QED BY <2>1 DEF SampledAt
<1>8. ObservedOK'
  <2>1. IsFiniteSet(observed') BY <1>1, FS_AddElement DEF ObservedOK
  <2>2. observed' \in SUBSET [path : SamplePaths, value : SampleValues, nth : Nat]
    BY <1>1, <1>5 DEF ObservedOK
  <2>3. ASSUME NEW y \in observed' PROVE y.nth <= TimesSampled(y.path, {y.value})'
    <3>1. TimesSampled(y.path, {y.value}) \in Nat BY SamplesAreCounted
    <3>2. CASE y \in observed
      <4>1. y.nth \in Nat /\ y.nth <= TimesSampled(y.path, {y.value}) BY <3>2 DEF ObservedOK
      <4>2. TimesSampled(y.path, {y.value})' \in {TimesSampled(y.path, {y.value}), TimesSampled(y.path, {y.value}) + 1}
        BY <1>6
      <4>. QED BY <3>1, <4>1, <4>2
    <3>3. CASE y = x
      <4>1. TimesSampled(p, {v})' = TimesSampled(p, {v}) + 1 BY <1>6
      <4>. QED BY <3>3, <4>1, <1>2, <1>3
    <3>. QED BY <1>1, <3>2, <3>3
  <2>. QED BY <2>1, <2>2, <2>3 DEF ObservedOK
<1>. QED BY <1>6, <1>7, <1>8

\* What Noted makes of stats, field by field.
LEMMA NotedFields ==
  ASSUME NEW s \in StatsSet, NEW v \in SampleValues
  PROVE  /\ Noted(s, v).count = s.count + 1
         /\ Noted(s, v).nulls = IF JsType[v] = "null" THEN s.nulls + 1 ELSE s.nulls
         /\ Noted(s, v).types = s.types \cup {JsType[v]}
         /\ Noted(s, v).fraction = (s.fraction \/ v \in Fractions)
         /\ Noted(s, v).iso = IF v \in IsoLike THEN s.iso + 1 ELSE s.iso
         /\ Noted(s, v) \in StatsSet
         /\ \/ v \notin PlainValues /\ Noted(s, v).distinct = s.distinct
                                   /\ Noted(s, v).overflowed = s.overflowed
            \/ v \in PlainValues /\ Noted(s, v).distinct = {} /\ Noted(s, v).overflowed
            \/ v \in PlainValues /\ Noted(s, v).distinct = s.distinct \cup {v}
                                 /\ ~s.overflowed /\ ~Noted(s, v).overflowed
<1>1. /\ JsType[v] \in {"null", "array", "number", "string", "boolean"}
      /\ v \in Fractions => JsType[v] = "number"
      /\ v \in IsoLike => JsType[v] = "string"
      /\ v \in PlainValues <=> JsType[v] \notin {"null", "array"}
  BY InferenceAssumption DEF PlainValues
<1>. DEFINE counted == [s EXCEPT !.count = @ + 1]
            noted == [s EXCEPT !.count = @ + 1, !.types = @ \cup {JsType[v]}]
<1>2. /\ noted \in StatsSet
      /\ noted.count = s.count + 1 /\ noted.types = s.types \cup {JsType[v]} /\ noted.nulls = s.nulls
      /\ noted.fraction = s.fraction /\ noted.iso = s.iso
      /\ noted.distinct = s.distinct /\ noted.overflowed = s.overflowed
  <2>1. /\ counted \in StatsSet
        /\ counted.count = s.count + 1 /\ counted.types = s.types /\ counted.nulls = s.nulls
        /\ counted.fraction = s.fraction /\ counted.iso = s.iso
        /\ counted.distinct = s.distinct /\ counted.overflowed = s.overflowed
    BY DEF StatsSet
  <2>2. noted = [counted EXCEPT !.types = @ \cup {JsType[v]}] BY DEF StatsSet
  <2>3. counted.types \cup {JsType[v]} \in SUBSET JsTypes
    <3>. HIDE DEF counted
    <3>. QED BY <1>1, <2>1 DEF StatsSet, JsTypes
  <2>. HIDE DEF counted
  <2>4. [counted EXCEPT !.types = @ \cup {JsType[v]}] \in StatsSet BY <2>1, <2>3 DEF StatsSet
  <2>. QED BY <2>1, <2>2, <2>4 DEF StatsSet
<1>3. Noted(s, v) =
        CASE JsType[v] = "array" -> noted
          [] JsType[v] = "null"  -> [noted EXCEPT !.nulls = @ + 1]
          [] OTHER -> Gathered([noted EXCEPT !.fraction = @ \/ v \in Fractions,
                                            !.iso = IF v \in IsoLike THEN @ + 1 ELSE @], v)
  BY DEF Noted
<1>. HIDE DEF noted
<1>4. CASE JsType[v] = "array"
  <2>1. Noted(s, v) = noted BY <1>3, <1>4
  <2>. QED BY <2>1, <1>1, <1>2, <1>4 DEF StatsSet
<1>5. CASE JsType[v] = "null"
  <2>1. Noted(s, v) = [noted EXCEPT !.nulls = @ + 1] BY <1>3, <1>5
  <2>. QED BY <2>1, <1>1, <1>2, <1>5 DEF StatsSet
<1>6. CASE JsType[v] \notin {"array", "null"}
  <2>. DEFINE flagged == [noted EXCEPT !.fraction = @ \/ v \in Fractions,
                                       !.iso = IF v \in IsoLike THEN @ + 1 ELSE @]
  <2>1. Noted(s, v) = Gathered(flagged, v) BY <1>3, <1>6
  <2>2. /\ flagged \in StatsSet
        /\ flagged.count = noted.count /\ flagged.types = noted.types /\ flagged.nulls = noted.nulls
        /\ flagged.fraction = (noted.fraction \/ v \in Fractions)
        /\ flagged.iso = IF v \in IsoLike THEN noted.iso + 1 ELSE noted.iso
        /\ flagged.distinct = noted.distinct /\ flagged.overflowed = noted.overflowed
    <3>. DEFINE first == [noted EXCEPT !.fraction = @ \/ v \in Fractions]
                iso == IF v \in IsoLike THEN noted.iso + 1 ELSE noted.iso
    <3>1. /\ first \in StatsSet
          /\ first.count = noted.count /\ first.types = noted.types /\ first.nulls = noted.nulls
          /\ first.fraction = (noted.fraction \/ v \in Fractions) /\ first.iso = noted.iso
          /\ first.distinct = noted.distinct /\ first.overflowed = noted.overflowed
      BY <1>2 DEF StatsSet
    <3>2. flagged = [first EXCEPT !.iso = iso] BY <1>2 DEF StatsSet
    <3>3. iso \in Nat BY <1>2 DEF StatsSet
    <3>. HIDE DEF first, iso
    <3>4. [first EXCEPT !.iso = iso] \in StatsSet /\ [first EXCEPT !.iso = iso].iso = iso
      BY <3>1, <3>3 DEF StatsSet
    <3>. QED BY <3>1, <3>2, <3>4 DEF iso, StatsSet
  <2>. HIDE DEF flagged
  <2>. DEFINE grown == flagged.distinct \cup {v}
              over == flagged.overflowed \/ Cardinality(grown) > CardinalityCap
              kept == IF over THEN {} ELSE grown
  <2>3. Gathered(flagged, v) = [flagged EXCEPT !.distinct = kept, !.overflowed = over] BY DEF Gathered
  <2>4. kept \in SUBSET SampleValues /\ over \in BOOLEAN BY <2>2 DEF StatsSet
  <2>5. /\ over => kept = {}
        /\ ~over => kept = s.distinct \cup {v} /\ ~s.overflowed
    BY <2>2, <1>2
  <2>. HIDE DEF over, kept
  <2>6. /\ Noted(s, v) \in StatsSet
        /\ Noted(s, v).count = flagged.count /\ Noted(s, v).types = flagged.types /\ Noted(s, v).nulls = flagged.nulls
        /\ Noted(s, v).fraction = flagged.fraction /\ Noted(s, v).iso = flagged.iso
        /\ Noted(s, v).distinct = kept /\ Noted(s, v).overflowed = over
    BY <2>1, <2>2, <2>3, <2>4 DEF StatsSet
  <2>. QED BY <2>2, <2>4, <2>5, <2>6, <1>1, <1>2, <1>6
<1>. QED BY <1>1, <1>4, <1>5, <1>6

LEMMA SampleKeepsInv ==
  ASSUME InferenceInv, NEW p \in SamplePaths, NEW v \in SampleValues, Sample(p, v)
  PROVE  InferenceInv'
<1>1. ObservedOK BY DEF InferenceInv
<1>2. /\ ObservedOK'
      /\ \A q, values : TimesSampled(q, values)' =
             IF q = p /\ v \in values THEN TimesSampled(q, values) + 1 ELSE TimesSampled(q, values)
      /\ \A q : SampledAt(q)' = IF q = p THEN SampledAt(q) \cup {v} ELSE SampledAt(q)
  BY <1>1, SampleIsCounted
<1>3. Len(p) \in Nat /\ MaxNesting \in Nat BY InferenceAssumption
<1>4. leafStats' =
           IF Len(p) > MaxNesting THEN leafStats
           ELSE [q \in DOMAIN leafStats \cup {p} |->
                    IF q # p THEN leafStats[q]
                    ELSE Noted(IF p \in DOMAIN leafStats THEN leafStats[p] ELSE NoStats, v)]
  BY DEF Sample
<1>5. DOMAIN leafStats' = {q \in SamplePaths : Len(q) <= MaxNesting /\ SampledAt(q)' # {}}
  <2>1. DOMAIN leafStats = {q \in SamplePaths : Len(q) <= MaxNesting /\ SampledAt(q) # {}} BY DEF InferenceInv
  <2>2. CASE Len(p) > MaxNesting BY <2>1, <2>2, <1>2, <1>3, <1>4
  <2>3. CASE ~(Len(p) > MaxNesting)
    <3>1. DOMAIN leafStats' = DOMAIN leafStats \cup {p} BY <2>3, <1>4
    <3>2. Len(p) <= MaxNesting BY <2>3, <1>3
    <3>. QED BY <2>1, <3>1, <3>2, <1>2
  <2>. QED BY <2>2, <2>3
\* A path that was not sampled has stats that fit.
<1>6. ASSUME NEW q, SampledAt(q) = {} PROVE StatsFit(NoStats, q)
  <2>1. \A values : TimesSampled(q, values) = 0
    BY <1>1, <1>6, SamplesAreCounted, SamplesAreOfSampled
  <2>. QED BY <2>1, <1>6 DEF StatsFit, NoStats, StatsSet
<1>7. ASSUME NEW q, q # p, NEW s, StatsFit(s, q) PROVE StatsFit(s, q)'
  BY <1>7, <1>2 DEF StatsFit
<1>8. ASSUME NEW s, StatsFit(s, p) PROVE StatsFit(Noted(s, v), p)'
  <2>1. /\ s \in StatsSet
        /\ s.count = TimesSampled(p, SampleValues)
        /\ s.nulls = TimesSampled(p, NullValues)
        /\ s.iso = TimesSampled(p, IsoLike)
        /\ s.types = {JsType[w] : w \in SampledAt(p)}
        /\ s.fraction = (SampledAt(p) \cap Fractions # {})
        /\ s.distinct = IF s.overflowed THEN {} ELSE SampledAt(p) \cap PlainValues
    BY <1>8 DEF StatsFit
  <2>2. SampledAt(p)' = SampledAt(p) \cup {v} BY <1>2
  <2>3. v \in NullValues <=> JsType[v] = "null" BY DEF NullValues
  <2>. DEFINE n == Noted(s, v)
  <2>4. /\ n.count = s.count + 1
        /\ n.nulls = IF JsType[v] = "null" THEN s.nulls + 1 ELSE s.nulls
        /\ n.types = s.types \cup {JsType[v]}
        /\ n.fraction = (s.fraction \/ v \in Fractions)
        /\ n.iso = IF v \in IsoLike THEN s.iso + 1 ELSE s.iso
        /\ n \in StatsSet
        /\ \/ v \notin PlainValues /\ n.distinct = s.distinct /\ n.overflowed = s.overflowed
           \/ v \in PlainValues /\ n.distinct = {} /\ n.overflowed
           \/ v \in PlainValues /\ n.distinct = s.distinct \cup {v} /\ ~s.overflowed /\ ~n.overflowed
    BY <2>1, NotedFields
  <2>. HIDE DEF n
  <2>5. n.count = TimesSampled(p, SampleValues)' BY <1>2, <2>1, <2>4
  <2>6. n.nulls = TimesSampled(p, NullValues)' BY <1>2, <2>1, <2>3, <2>4
  <2>7. n.iso = TimesSampled(p, IsoLike)' BY <1>2, <2>1, <2>4
  <2>8. n.types = {JsType[w] : w \in SampledAt(p)'} BY <2>1, <2>2, <2>4
  <2>9. n.fraction = (SampledAt(p)' \cap Fractions # {})
    <3>1. SampledAt(p)' \cap Fractions # {} <=> SampledAt(p) \cap Fractions # {} \/ v \in Fractions BY <2>2
    <3>. QED BY <3>1, <2>1, <2>4
  <2>10. n.distinct = IF n.overflowed THEN {} ELSE SampledAt(p)' \cap PlainValues
    <3>1. v \in PlainValues => SampledAt(p)' \cap PlainValues = (SampledAt(p) \cap PlainValues) \cup {v} BY <2>2
    <3>2. v \notin PlainValues => SampledAt(p)' \cap PlainValues = SampledAt(p) \cap PlainValues BY <2>2
    <3>. QED BY <3>1, <3>2, <2>1, <2>4
  <2>11. StatsFit(n, p)'
    BY <2>4, <2>5, <2>6, <2>7, <2>8, <2>9, <2>10 DEF StatsFit, StatsSet, NullValues, PlainValues
  <2>. QED BY <2>11 DEF n
<1>9. ASSUME NEW q \in DOMAIN leafStats' PROVE StatsFit(leafStats[q], q)'
  <2>1. CASE Len(p) > MaxNesting
    <3>1. q \in DOMAIN leafStats /\ leafStats'[q] = leafStats[q] BY <2>1, <1>4
    <3>2. q # p BY <3>1, <2>1, <1>3 DEF InferenceInv
    <3>3. StatsFit(leafStats[q], q) BY <3>1 DEF InferenceInv
    <3>. QED BY <3>1, <3>2, <3>3, <1>7
  <2>2. CASE ~(Len(p) > MaxNesting) /\ q # p
    <3>1. q \in DOMAIN leafStats /\ leafStats'[q] = leafStats[q] BY <2>2, <1>4
    <3>2. StatsFit(leafStats[q], q) BY <3>1 DEF InferenceInv
    <3>. QED BY <3>1, <3>2, <2>2, <1>7
  <2>3. CASE ~(Len(p) > MaxNesting) /\ q = p
    <3>. DEFINE old == IF p \in DOMAIN leafStats THEN leafStats[p] ELSE NoStats
    <3>1. leafStats'[p] = Noted(old, v) BY <2>3, <1>4
    <3>2. StatsFit(old, p)
      <4>1. CASE p \in DOMAIN leafStats BY <4>1 DEF InferenceInv
      <4>2. CASE p \notin DOMAIN leafStats
        <5>1. Len(p) <= MaxNesting BY <2>3, <1>3
        <5>2. SampledAt(p) = {} BY <4>2, <5>1 DEF InferenceInv
        <5>. QED BY <4>2, <5>2, <1>6
      <4>. QED BY <4>1, <4>2
    <3>. HIDE DEF old
    <3>. QED BY <3>1, <3>2, <2>3, <1>8
  <2>. QED BY <2>1, <2>2, <2>3
<1>. QED BY <1>2, <1>5, <1>9 DEF InferenceInv

------------------------------------------------------------------------------
\* The inductive invariant of the sampler: what is kept of a path is what the
\* flags, counts and the set say of all its samples.
THEOREM SamplingInvariance == InferenceSpec => []InferenceInv
<1>1. InferenceInit => InferenceInv BY InferenceStarts
<1>2. InferenceInv /\ [InferenceNext]_inferenceVars => InferenceInv'
  <2>. SUFFICES ASSUME InferenceInv, [InferenceNext]_inferenceVars PROVE InferenceInv' OBVIOUS
  <2>1. CASE InferenceNext BY <2>1, SampleKeepsInv DEF InferenceNext
  <2>2. CASE UNCHANGED inferenceVars
    <3>1. leafStats' = leafStats /\ observed' = observed BY <2>2 DEF inferenceVars
    <3>2. ObservedOK' BY <3>1 DEF InferenceInv, ObservedOK, Samples, TimesSampled
    <3>3. /\ \A q, values : TimesSampled(q, values)' = TimesSampled(q, values)
          /\ \A q : SampledAt(q)' = SampledAt(q)
      BY <3>1 DEF SampledAt, Samples, TimesSampled
    <3>4. ASSUME NEW q \in DOMAIN leafStats PROVE StatsFit(leafStats[q], q)'
      BY <3>1, <3>3, <3>4 DEF InferenceInv, StatsFit
    <3>. QED BY <3>1, <3>2, <3>3, <3>4 DEF InferenceInv
  <2>. QED BY <2>1, <2>2
<1>. QED BY <1>1, <1>2, PTL DEF InferenceSpec

\* The inferred artifact fits every value that was sampled, although only
\* counts, flags and a set that may be let go were kept (LeafStats, inferType,
\* filterStrategyFor, findUnknownPaths), for all values, caps and thresholds.
THEOREM ArtifactFits == InferenceSpec => []ArtifactFitsSamples
<1>1. InferenceInv => ArtifactFitsSamples BY ArtifactFollows
<1>. QED BY <1>1, SamplingInvariance, PTL

------------------------------------------------------------------------------
\* Filters, questions, rules and schemas together: what is computed in several
\* places, or kept of many values in a few, agrees (viewspec.mjs, parity.mjs,
\* hubDataService.mjs, compile.mjs, infer-schema.mjs).
THEOREM ComputationsAreOne == ComputationsSpec => []ComputationsAgree
<1>1. GridsSelectAlike /\ HubAnswersAsTabs /\ RulesMeanTheSame /\ ArtifactFitsSamples => ComputationsAgree
  BY DEF ComputationsAgree
<1> QED BY <1>1, GridsAgree, AnswersAgree, RulesAgree, ArtifactFits, PTL DEF ComputationsSpec
=============================================================================
