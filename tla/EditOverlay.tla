----------------------------- MODULE EditOverlay ----------------------------
(* SsrmWasmPlane.ts: edits made in a grid are written into the engine and   *)
(* held over the feed, because a feed that resends whole rows would revert  *)
(* them.  One provider, and of each row the one edited column.              *)
EXTENDS Naturals, Sequences, FiniteSets, SequencesExt, Filtering

CONSTANTS
    RowKeys,
    FeedValues,   \* what the feed says
    EditValues,   \* what users enter; the feed may echo it
    NoCell,       \* the row is not in the table
    MaxOverlays,  \* MAX_EDIT_OVERLAYS_PER_PROVIDER
    MaxSaid       \* bound: feed rows remembered since an edit

ASSUME OverlayAssumption == NoCell \notin FeedValues \cup EditValues /\ MaxOverlays \in Nat

VARIABLES
    cells,        \* the engine's column
    overlays,     \* editOverlays, oldest edit first
    removals,     \* removals the next poll reports
    deltasOff,    \* rowDeltasOff: the provider's row deltas are not polled
    edit,         \* the last edit of each row (ghost)
    said          \* what the feed said of the row since (ghost)

overlayVars == <<cells, overlays, removals, deltasOff, edit, said>>

Cells == FeedValues \cup EditValues
Overlay == [key : RowKeys, value : EditValues, baseline : Cells \cup {NoCell}]
NoEdit == NoCell

OverlayTypeOK ==
    /\ cells \in [RowKeys -> Cells \cup {NoCell}]
    /\ overlays \in Seq(Overlay) /\ Len(overlays) <= MaxOverlays
    /\ \A i, j \in DOMAIN overlays : overlays[i].key = overlays[j].key => i = j
    /\ removals \subseteq RowKeys
    /\ deltasOff \in BOOLEAN
    /\ edit \in [RowKeys -> EditValues \cup {NoEdit}]
    /\ said \in [RowKeys -> Seq(Cells)]

OverlayInit ==
    /\ cells = [k \in RowKeys |-> NoCell]
    /\ overlays = <<>>
    /\ removals = {}
    /\ deltasOff \in BOOLEAN
    /\ edit = [k \in RowKeys |-> NoEdit]
    /\ said = [k \in RowKeys |-> <<>>]

HeldOver(k) == {i \in DOMAIN overlays : overlays[i].key = k}
OverlaysOff(keys) == {o \in Overlay : o.key \notin keys}
Released(keys) == KeepIn(overlays, OverlaysOff(keys))

(* The ghosts forget an edit that was released for good.                    *)
Forget(keys) == /\ edit' = [k \in RowKeys |-> IF k \in keys THEN NoEdit ELSE edit[k]]
                /\ said' = [k \in RowKeys |-> IF k \in keys THEN <<>> ELSE said[k]]

-----------------------------------------------------------------------------
(* The edits over the cap: the oldest.  Mutant of it: one too many is kept. *)
OverCapByOne(all) == IF Len(all) > MaxOverlays + 1 THEN {all[1].key} ELSE {}
OverCap(all) == IF Len(all) > MaxOverlays THEN {all[1].key} ELSE {}

(* applyEdits: the edit goes to the young end, without a baseline, and the  *)
(* oldest ones over the cap are released; then the engine takes it.         *)
ApplyEdit(k, v) ==
    LET rest == Released({k})
        all  == Append(rest, [key |-> k, value |-> v, baseline |-> NoCell])
        out  == OverCap(all)
    IN  /\ overlays' = KeepIn(all, OverlaysOff(out))
        /\ cells' = [cells EXCEPT ![k] = v]
        /\ removals' = removals \ {k}
        /\ edit' = [x \in RowKeys |-> IF x \in out THEN NoEdit ELSE IF x = k THEN v ELSE edit[x]]
        /\ said' = [x \in RowKeys |-> IF x \in out \cup {k} THEN <<>> ELSE said[x]]
        /\ UNCHANGED deltasOff

(* What applyEditOverlays makes of a held edit when the feed says v: the    *)
(* feed's first word after the edit is taken for the value before it.       *)
Confirmed(o, v) == v = o.value
(* Mutant of Overruled: the first value after the edit ends it.             *)
OverruledAtOnce(o, v) == v # o.baseline
Overruled(o, v) == o.baseline # NoCell /\ v # o.baseline
StillHeld(o, v) == ~Confirmed(o, v) /\ ~Overruled(o, v)

(* ingest of one row.                                                       *)
Ingest(k, v) ==
    /\ Len(said[k]) < MaxSaid
    /\ IF \E i \in HeldOver(k) : StillHeld(overlays[i], v)
       THEN \E i \in HeldOver(k) :
              /\ overlays' = [overlays EXCEPT ![i].baseline = v]
              /\ cells' = [cells EXCEPT ![k] = overlays[i].value]
       ELSE /\ overlays' = Released({k})
            /\ cells' = [cells EXCEPT ![k] = v]
    /\ removals' = removals \ {k}
    /\ said' = [said EXCEPT ![k] = IF edit[k] = NoEdit THEN @ ELSE Append(@, v)]
    /\ UNCHANGED <<deltasOff, edit>>

(* ingest with replace and no rows: the engine deletes, the poll reports.   *)
Truncate ==
    /\ \E k \in RowKeys : cells[k] # NoCell
    /\ removals' = removals \cup {k \in RowKeys : cells[k] # NoCell}
    /\ cells' = [k \in RowKeys |-> NoCell]
    /\ UNCHANGED <<overlays, deltasOff, edit, said>>

(* A removal the engine reports takes the edit along; a row that came back  *)
(* before the poll is no removal any more.                                  *)
PollRemovals ==
    /\ removals # {} /\ ~deltasOff
    /\ overlays' = Released(removals)
    /\ Forget(removals)
    /\ removals' = {}
    /\ UNCHANGED <<cells, deltasOff>>

DeleteRow(k) ==
    /\ cells[k] # NoCell
    /\ cells' = [cells EXCEPT ![k] = NoCell]
    /\ removals' = removals \cup {k}
    /\ overlays' = Released({k})
    /\ Forget({k})
    /\ UNCHANGED deltasOff

(* boot with another configuration.                                         *)
Reboot ==
    /\ overlays # <<>>
    /\ overlays' = <<>>
    /\ Forget(RowKeys)
    /\ UNCHANGED <<cells, removals, deltasOff>>

DropTable ==
    /\ \E k \in RowKeys : cells[k] # NoCell
    /\ cells' = [k \in RowKeys |-> NoCell]
    /\ overlays' = <<>> /\ removals' = {}
    /\ Forget(RowKeys)
    /\ UNCHANGED deltasOff

OverlayNext ==
    \/ \E k \in RowKeys : \/ \E v \in EditValues : ApplyEdit(k, v)
                          \/ \E v \in Cells : Ingest(k, v)
                          \/ DeleteRow(k)
    \/ Truncate \/ PollRemovals \/ Reboot \/ DropTable

OverlaySpec == OverlayInit /\ [][OverlayNext]_overlayVars

-----------------------------------------------------------------------------
(* Properties.                                                              *)

(* An edited row shows the edit for as long as the feed says one and the    *)
(* same thing of it, and what the feed said last from then on: a resend of  *)
(* the old value never reverts an edit, and an edit never hides a second    *)
(* value.  The first value after the edit is hidden even when it is new.    *)
EditsYieldToNews ==
    \A k \in RowKeys : edit[k] # NoEdit /\ cells[k] # NoCell =>
        cells[k] = IF \A i \in DOMAIN said[k] : said[k][i] = said[k][1]
                   THEN edit[k] ELSE Last(said[k])
=============================================================================
