------------------------------ MODULE Viewport ------------------------------
(* VrmMode (modes/vrm.mjs): a viewport over one grouped engine view that is *)
(* expanded and collapsed in place, by row index.  Every request makes two  *)
(* engine requests at the hub; the engine works in the order it is asked, so   *)
(* the count and the rows of one answer may be of different moments.        *)
EXTENDS Naturals, Sequences, FiniteSets, SequencesExt

CONSTANTS
    MaxGroups,     \* groups 1 .. MaxGroups, with one leaf each
    Ranges,        \* viewport ranges, from 0
    MaxTicks,      \* bound: upstream changes
    MaxCallsOut,   \* bound: requests under way
    MaxToggles     \* bound: clicks on carets

ASSUME ViewportAssumption ==
    /\ MaxGroups \in Nat \ {0} /\ Ranges \subseteq (Nat \X Nat)
    /\ {MaxTicks, MaxCallsOut, MaxToggles} \subseteq Nat

VARIABLES
    tree,          \* the engine's view: of each group, is it open, and its values
    ticks, toggles,\* changes and clicks so far
    deltaOut,          \* a rowDelta is on its way to the tab
    handle,        \* VrmMode.handle: "none", "open", "gone"
    rowCount,      \* VrmMode.rowCount, and the grid's
    range,         \* VrmMode.range
    requests,         \* requests in order: their engine requests and answers
    pendingRefresh, refreshTimer,
    shown,         \* the grid's rows by index, and rowsByIndex
    dropped,       \* a request failed (ghost)
    leaked         \* destroyed while start was under way (ghost)

viewportVars == <<tree, ticks, toggles, deltaOut, handle, rowCount, range, requests,
                  pendingRefresh, refreshTimer, shown, dropped, leaked>>

Groups == 1 .. MaxGroups
MaxRows == 2 * MaxGroups
Row == [group : Groups, leaf : BOOLEAN, version : 0 .. MaxTicks, expanded : BOOLEAN]
NoRowYet == [group |-> 0]

(* The flat list the viewport indexes into.                                 *)
WindowOf(g) == LET group == [group |-> g, leaf |-> FALSE, version |-> tree[g].version] IN
             IF tree[g].open THEN <<group, [group EXCEPT !.leaf = TRUE]>> ELSE <<group>>
Flat == FlattenSeq([g \in 1 .. Cardinality({x \in Groups : tree[x].present}) |-> WindowOf(g)])

ViewportTypeOK ==
    /\ tree \in [Groups -> [present : BOOLEAN, open : BOOLEAN, version : 0 .. MaxTicks]]
    /\ deltaOut \in BOOLEAN /\ pendingRefresh \in BOOLEAN /\ refreshTimer \in BOOLEAN
    /\ handle \in {"none", "open", "gone"}
    /\ rowCount \in 0 .. MaxRows
    /\ range \in Ranges
    /\ Len(requests) <= MaxCallsOut + 1
    /\ shown \in [0 .. MaxRows - 1 -> Row \cup {NoRowYet}]

ViewportInit ==
    /\ tree = [g \in Groups |-> [present |-> g = 1, open |-> TRUE, version |-> 0]]
    /\ ticks = 0 /\ toggles = 0
    /\ deltaOut = FALSE
    /\ handle = "none"
    /\ rowCount = 0
    /\ range \in Ranges
    /\ requests = <<[what |-> "open", stage |-> 0]>>
    /\ pendingRefresh = FALSE /\ refreshTimer = FALSE
    /\ shown = [i \in 0 .. MaxRows - 1 |-> NoRowYet]
    /\ dropped = FALSE /\ leaked = FALSE

-----------------------------------------------------------------------------
(* The engine (external) and the hub's readWindow and expandRow.            *)

(* A group changes, or the next group appears; perspective opens it.        *)
UpstreamTick ==
    /\ ticks < MaxTicks
    /\ \E g \in Groups :
        /\ g > 1 => tree[g - 1].present
        /\ tree' = [tree EXCEPT ![g].present = TRUE, ![g].version = ticks + 1]
    /\ ticks' = ticks + 1
    /\ deltaOut' = TRUE
    /\ UNCHANGED <<toggles, handle, rowCount, range, requests, pendingRefresh, refreshTimer, shown,
                   dropped, leaked>>

Least(a, b) == IF a < b THEN a ELSE b

ReadStep(c) ==
    IF c.stage = 0 THEN [c EXCEPT !.stage = 1, !.count = Len(Flat)]
    ELSE [c EXCEPT !.stage = 2, !.rows = SubSeq(Flat, c.start + 1, Least(Len(Flat), Least(c.end, c.count)))]

(* The next engine call of the i-th request: no earlier request may be      *)
(* waiting for the same.                                                    *)
EngineStep(i) ==
    /\ i \in DOMAIN requests /\ requests[i].stage < 2
    /\ \A j \in 1 .. i - 1 : requests[j].stage > requests[i].stage
    /\ LET c == requests[i] IN
       CASE c.what = "open"   -> requests' = [requests EXCEPT ![i].stage = 2] /\ UNCHANGED tree
         [] c.what = "toggle" ->
              IF c.stage = 0
              THEN /\ tree' = IF c.index < Len(Flat)
                              THEN [tree EXCEPT ![Flat[c.index + 1].group].open =
                                      IF Flat[c.index + 1].leaf THEN @ ELSE ~c.collapse]
                              ELSE tree
                   /\ requests' = [requests EXCEPT ![i].stage = 1]
              ELSE /\ requests' = [requests EXCEPT ![i] = [c EXCEPT !.stage = 2, !.count = Len(Flat)]]
                   /\ UNCHANGED tree
         [] OTHER             -> requests' = [requests EXCEPT ![i] = ReadStep(c)] /\ UNCHANGED tree
    /\ UNCHANGED <<ticks, toggles, deltaOut, handle, rowCount, range, pendingRefresh, refreshTimer,
                   shown, dropped, leaked>>

-----------------------------------------------------------------------------
(* VrmMode.                                                                 *)

AskRows(what, start, end) ==
    [what |-> what, stage |-> 0, start |-> start, end |-> end, count |-> 0, rows |-> <<>>]
CountRead(what) == AskRows(what, 0, 1)

(* Mutant of Fill: the last row of the range is not asked for.              *)
FillShort(count, r) ==
    LET end == Least(count, r[2]) IN
    IF end <= r[1] THEN <<>> ELSE <<AskRows("fill", r[1], end)>>

(* fill: nothing is asked of an empty range.  bufferRows is 0.              *)
Fill(count, r) ==
    LET end == Least(count, r[2] + 1) IN
    IF end <= r[1] THEN <<>> ELSE <<AskRows("fill", r[1], end)>>

(* A row is expanded when the next row of the window is deeper.             *)
Block(c) ==
    [i \in 0 .. MaxRows - 1 |->
       LET n == i - c.start + 1 IN
       IF i < c.start \/ n > Len(c.rows) THEN shown[i]
       ELSE [group |-> c.rows[n].group, leaf |-> c.rows[n].leaf, version |-> c.rows[n].version,
             expanded |-> n < Len(c.rows) /\ c.rows[n + 1].leaf /\ ~c.rows[n].leaf]]

Answered(what) == requests # <<>> /\ Head(requests).stage = 2 /\ Head(requests).what = what

ViewOpened ==
    /\ Answered("open")
    /\ handle' = "open"
    /\ requests' = Append(Tail(requests), CountRead("count"))
    /\ UNCHANGED <<tree, ticks, toggles, deltaOut, rowCount, range, pendingRefresh, refreshTimer, shown,
                   dropped, leaked>>

(* The count of start or refreshViewport: the grid is told, then filled.        *)
Counted ==
    /\ Answered("count")
    /\ rowCount' = Head(requests).count
    /\ requests' = Tail(requests) \o (IF handle = "open" THEN Fill(Head(requests).count, range) ELSE <<>>)
    /\ UNCHANGED <<tree, ticks, toggles, deltaOut, handle, range, pendingRefresh, refreshTimer, shown,
                   dropped, leaked>>

Filled ==
    /\ Answered("fill")
    /\ shown' = Block(Head(requests))
    /\ requests' = Tail(requests)
    /\ UNCHANGED <<tree, ticks, toggles, deltaOut, handle, rowCount, range, pendingRefresh,
                   refreshTimer, dropped, leaked>>

(* toggle: expandRow answered; rows below the toggled one are forgotten.    *)
Toggled ==
    /\ Answered("toggle")
    /\ rowCount' = Head(requests).count
    /\ requests' = Tail(requests) \o (IF handle = "open" THEN Fill(Head(requests).count, range) ELSE <<>>)
    /\ UNCHANGED <<tree, ticks, toggles, deltaOut, handle, range, pendingRefresh, refreshTimer, shown,
                   dropped, leaked>>

Fails ==
    /\ requests # <<>> /\ Head(requests).stage = 2 /\ Head(requests).what # "open"
    /\ requests' = Tail(requests)
    /\ dropped' = TRUE
    /\ UNCHANGED <<tree, ticks, toggles, deltaOut, handle, rowCount, range, pendingRefresh,
                   refreshTimer, shown, leaked>>

SetViewportRange(r) ==
    /\ r # range
    /\ range' = r
    /\ Len(requests) < MaxCallsOut
    /\ requests' = requests \o (IF handle = "open" THEN Fill(rowCount, r) ELSE <<>>)
    /\ UNCHANGED <<tree, ticks, toggles, deltaOut, handle, rowCount, pendingRefresh, refreshTimer, shown,
                   dropped, leaked>>

(* A click on a rendered caret: the direction is what the row shows.        *)
Toggle(i) ==
    /\ handle = "open" /\ i < rowCount /\ shown[i] # NoRowYet /\ ~shown[i].leaf
    /\ Len(requests) < MaxCallsOut /\ toggles < MaxToggles
    /\ toggles' = toggles + 1
    /\ requests' = Append(requests, [what |-> "toggle", stage |-> 0, index |-> i,
                               collapse |-> shown[i].expanded, count |-> 0])
    /\ UNCHANGED <<tree, ticks, deltaOut, handle, rowCount, range, pendingRefresh, refreshTimer, shown,
                   dropped, leaked>>

OnUpstreamChange ==
    /\ deltaOut
    /\ deltaOut' = FALSE
    /\ pendingRefresh' = TRUE /\ refreshTimer' = TRUE
    /\ UNCHANGED <<tree, ticks, toggles, handle, rowCount, range, requests, shown, dropped, leaked>>

(* The timer: nothing without a handle, and then the change stays pending.  *)
RefreshDue ==
    /\ refreshTimer
    /\ Len(requests) < MaxCallsOut
    /\ refreshTimer' = FALSE
    /\ IF pendingRefresh /\ handle = "open"
       THEN pendingRefresh' = FALSE /\ requests' = Append(requests, CountRead("count"))
       ELSE UNCHANGED <<pendingRefresh, requests>>
    /\ UNCHANGED <<tree, ticks, toggles, deltaOut, handle, rowCount, range, shown, dropped, leaked>>

(* destroy disposes of the handle it has; a start under way gets its later. *)
Destroy ==
    /\ handle # "gone" /\ ~leaked
    /\ IF handle = "open" THEN handle' = "gone" /\ UNCHANGED leaked
                          ELSE leaked' = TRUE /\ UNCHANGED handle
    /\ refreshTimer' = FALSE
    /\ UNCHANGED <<tree, ticks, toggles, deltaOut, rowCount, range, requests, pendingRefresh, shown, dropped>>

ViewportNext ==
    \/ UpstreamTick \/ ViewOpened \/ Counted \/ Filled \/ Toggled \/ Fails
    \/ \E i \in 1 .. MaxCallsOut + 1 : EngineStep(i)
    \/ \E r \in Ranges : SetViewportRange(r)
    \/ \E i \in 0 .. MaxRows - 1 : Toggle(i)
    \/ OnUpstreamChange \/ RefreshDue \/ Destroy

ViewportSpec == ViewportInit /\ [][ViewportNext]_viewportVars

-----------------------------------------------------------------------------
(* Properties.                                                              *)

(* When nothing is under way, the grid's row count and the rows of its      *)
(* range are the engine's: neither a toggle between two reads, nor a change *)
(* while a refresh runs, nor a scroll leaves the viewport behind; only a    *)
(* failed read does.                                                        *)
SettledViewportIsCurrent ==
    handle = "open" /\ requests = <<>> /\ ~deltaOut /\ ~refreshTimer /\ ~dropped =>
        /\ rowCount = Len(Flat)
        /\ \A i \in range[1] .. range[2] : i < rowCount =>
             /\ shown[i].group = Flat[i + 1].group
             /\ shown[i].leaf = Flat[i + 1].leaf
             /\ shown[i].version = Flat[i + 1].version
=============================================================================
