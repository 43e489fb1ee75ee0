----------------------------- MODULE SsrmBlocks -----------------------------
(* The blocks of a grid in server-side mode, and how they are kept current  *)
(* (modes/ssrm.mjs: getRows and what attach, onUpstreamChange, onGroupDelta *)
(* and destroy do; grouproutes.mjs).  The grid asks for blocks of a route,  *)
(* the path of an open group; a grouped view has the grand total before its *)
(* groups.  A row delta refreshes all loaded blocks later, a group delta    *)
(* the routes it is about at once.  Which view a block is read from is in   *)
(* TabViews, and when the hub sends deltas in SubscriberFlow and HubWatches.*)
EXTENDS Naturals, Sequences, FiniteSets, SequencesExt, Filtering

CONSTANTS
    Leaves,        \* paths of the rows: a value for each grouping column, and the row,
                   \* all of them numbered as the engine sorts them
    Routes,        \* the routes the grid opens; the length of one is its level
    Levels,        \* how many columns the grid groups by
    BlockRows,     \* rows of a block
    MaxBlocks,     \* bound: blocks of a route
    MaxLeafMoves,  \* bound: changes of the book
    MaxReads       \* bound: reads under way when a refresh starts or a block is opened

ASSUME BlockAssumption ==
    /\ IsFiniteSet(Leaves) /\ \A l \in Leaves : l \in Seq(Nat) /\ Len(l) = Levels + 1
    /\ IsFiniteSet(Routes) /\ \A r \in Routes : r \in Seq(Nat) /\ Len(r) \in 0 .. Levels
    /\ Levels \in Nat /\ BlockRows \in Nat \ {0} /\ MaxBlocks \in Nat /\ MaxLeafMoves \in Nat

VARIABLES
    leaves,        \* of each row its version, Absent while it is not there
    leafMoves,
    rowNews,       \* a rowDelta is on its way
    groupNews,     \* paths of the groupDelta that is on its way
    reads,         \* readWindow calls in order, with what the engine answered
    blocks,        \* the grid's rows, by route and block
    refreshPending, refreshSet,     \* pendingRefresh, refreshTimer
    ssrmAttached,  \* listening to row deltas
    readFailed     \* a read has failed (ghost)

ssrmVars == <<leaves, leafMoves, rowNews, groupNews, reads, blocks, refreshPending, refreshSet,
              ssrmAttached, readFailed>>

Absent == 0
NotLoaded == <<>>
BlockIds == 0 .. MaxBlocks - 1
GrandTotal == [total |-> TRUE, path |-> <<>>, held |-> {}]

-----------------------------------------------------------------------------
(* The engine's view of a route (external), and the window toViewSpec and   *)
(* getRows ask for.  A row's value is what it aggregates.                   *)
Grouped(route) == Len(route) < Levels

RowAt(path) ==
    [total |-> FALSE, path |-> path,
     held |-> {<<l, leaves[l]>> : l \in {k \in Leaves : IsPrefix(path, k) /\ leaves[k] # Absent}}]

(* The i-th child is the one with i - 1 before it.                          *)
Children(route) ==
    LET values == {k[Len(route) + 1] : k \in {l \in Leaves : IsPrefix(route, l) /\ leaves[l] # Absent}}
        Nth(i) == CHOOSE v \in values : Cardinality({u \in values : u < v}) = i - 1
    IN  [i \in 1 .. Cardinality(values) |-> RowAt(Append(route, Nth(i)))]

ViewOf(route) == (IF Grouped(route) THEN <<GrandTotal>> ELSE <<>>) \o Children(route)

(* Mutant: the total is dropped from the answer, and not stepped over.      *)
OffsetForgotten(route) == 0

(* rootOffset.                                                              *)
Offset(route) == IF Grouped(route) THEN 1 ELSE 0

BlockStart(route, i) == i * BlockRows + Offset(route)
Smaller(a, b) == IF a < b THEN a ELSE b
Window(route, from, to) == SubSeq(ViewOf(route), from + 1, Smaller(to, Len(ViewOf(route))))

(* mapGroupRows drops a grand total it sees.                                *)
MapGroupRows(rows) == KeepIn(rows, {r \in ToSet(rows) : ~r.total})

ReadOf(route, i) == [route |-> route, block |-> i, stage |-> 0, count |-> 0, rows |-> <<>>]

Shown(route) == {i \in BlockIds : blocks[route][i] # NotLoaded}

Asked(route) == {reads[n].block : n \in {m \in DOMAIN reads : reads[m].route = route}}

(* External: refreshServerSide without purge asks again for the blocks of   *)
(* the routes that are loaded or asked for, and keeps their rows until then.*)
Reread(routes) ==
    KeepIn(SetToSeq({ReadOf(r, i) : r \in Routes, i \in BlockIds}),
           {c \in {ReadOf(r, i) : r \in routes, i \in BlockIds} : c.block \in Shown(c.route) \cup Asked(c.route)})

-----------------------------------------------------------------------------
SsrmInit ==
    /\ leaves \in [Leaves -> {Absent, 1}] /\ leafMoves = 0
    /\ rowNews = FALSE /\ groupNews = {}
    /\ reads = <<>> /\ blocks = [r \in Routes |-> [i \in BlockIds |-> NotLoaded]]
    /\ refreshPending = FALSE /\ refreshSet = FALSE
    /\ ssrmAttached = TRUE /\ readFailed = FALSE

(* External: a row comes, changes or goes; the hub tells of it, and of the  *)
(* groups above the row.                                                    *)
LeafMoves(l, v) ==
    /\ leafMoves < MaxLeafMoves /\ leaves[l] # v
    /\ leaves' = [leaves EXCEPT ![l] = v]
    /\ leafMoves' = leafMoves + 1
    /\ rowNews' = TRUE
    /\ groupNews' = groupNews \cup {SubSeq(l, 1, n) : n \in 1 .. Levels}
    /\ UNCHANGED <<reads, blocks, refreshPending, refreshSet, ssrmAttached, readFailed>>

(* getRows, up to the request.                                              *)
GetRows(route, i) ==
    /\ ssrmAttached /\ Len(reads) < MaxReads
    /\ i \notin Shown(route) \cup Asked(route)
    /\ reads' = Append(reads, ReadOf(route, i))
    /\ UNCHANGED <<leaves, leafMoves, rowNews, groupNews, blocks, refreshPending, refreshSet,
                   ssrmAttached, readFailed>>

(* readWindow at the hub: the count, and then the rows.                     *)
ReadWindow(n) ==
    /\ n \in DOMAIN reads /\ reads[n].stage < 2
    /\ \A m \in 1 .. n - 1 : reads[m].stage > reads[n].stage
    /\ LET c == reads[n]
           from == BlockStart(c.route, c.block)
           to == Smaller(from + BlockRows, c.count)
       IN reads' = [reads EXCEPT ![n] =
              IF c.stage = 0 THEN [c EXCEPT !.stage = 1, !.count = Len(ViewOf(c.route))]
                             ELSE [c EXCEPT !.stage = 2, !.rows = Window(c.route, from, to)]]
    /\ UNCHANGED <<leaves, leafMoves, rowNews, groupNews, blocks, refreshPending, refreshSet,
                   ssrmAttached, readFailed>>

(* getRows succeeds; of blocks past the end the grid lets go.               *)
BlockArrives ==
    /\ reads # <<>> /\ Head(reads).stage = 2
    /\ LET c == Head(reads)
           rowCount == c.count - Smaller(Offset(c.route), c.count)
       IN blocks' = [blocks EXCEPT ![c.route] =
              [i \in BlockIds |-> IF i * BlockRows >= rowCount THEN NotLoaded
                                  ELSE IF i = c.block THEN MapGroupRows(c.rows) ELSE @[i]]]
    /\ reads' = Tail(reads)
    /\ UNCHANGED <<leaves, leafMoves, rowNews, groupNews, refreshPending, refreshSet, ssrmAttached, readFailed>>

(* params.fail: the grid keeps what it shows.                               *)
ReadFailed ==
    /\ reads # <<>>
    /\ reads' = Tail(reads) /\ readFailed' = TRUE
    /\ UNCHANGED <<leaves, leafMoves, rowNews, groupNews, blocks, refreshPending, refreshSet, ssrmAttached>>

OnRowDelta ==
    /\ rowNews /\ rowNews' = FALSE
    /\ IF ssrmAttached THEN refreshPending' = TRUE /\ refreshSet' = TRUE
                       ELSE UNCHANGED <<refreshPending, refreshSet>>
    /\ UNCHANGED <<leaves, leafMoves, groupNews, reads, blocks, ssrmAttached, readFailed>>

(* The parents of the changed groups, each once.                            *)
RoutesToRefresh(paths) == {Front(p) : p \in paths}

(* onGroupDelta; destroy leaves it attached.                                *)
OnGroupDelta ==
    /\ groupNews # {} /\ Len(reads) <= MaxReads
    /\ groupNews' = {}
    /\ reads' = reads \o Reread(RoutesToRefresh(groupNews) \cap Routes)
    /\ UNCHANGED <<leaves, leafMoves, rowNews, blocks, refreshPending, refreshSet, ssrmAttached, readFailed>>

(* The timer of onUpstreamChange, which nothing clears.                     *)
RefreshAll ==
    /\ refreshSet /\ Len(reads) <= MaxReads
    /\ refreshSet' = FALSE /\ refreshPending' = FALSE
    /\ reads' = reads \o (IF refreshPending THEN Reread(Routes) ELSE <<>>)
    /\ UNCHANGED <<leaves, leafMoves, rowNews, groupNews, blocks, ssrmAttached, readFailed>>

DestroySsrm ==
    /\ ssrmAttached /\ ssrmAttached' = FALSE
    /\ UNCHANGED <<leaves, leafMoves, rowNews, groupNews, reads, blocks, refreshPending, refreshSet, readFailed>>

SsrmNext ==
    \/ \E l \in Leaves, v \in {Absent, leafMoves + 2} : LeafMoves(l, v)
    \/ \E route \in Routes, i \in BlockIds : GetRows(route, i)
    \/ \E n \in DOMAIN reads : ReadWindow(n)
    \/ BlockArrives \/ ReadFailed
    \/ OnRowDelta \/ OnGroupDelta \/ RefreshAll
    \/ DestroySsrm

SsrmSpec == SsrmInit /\ [][SsrmNext]_ssrmVars

-----------------------------------------------------------------------------
SsrmTypeOK ==
    /\ leaves \in [Leaves -> Absent .. MaxLeafMoves + 1] /\ leafMoves \in 0 .. MaxLeafMoves
    /\ \A p \in groupNews : Len(p) \in 1 .. Levels
    /\ DOMAIN blocks = Routes /\ \A n \in DOMAIN reads : reads[n].route \in Routes
    /\ {rowNews, refreshPending, refreshSet, ssrmAttached, readFailed} \subseteq BOOLEAN

(* What a loaded block should show.                                         *)
BlockIsCurrent(route, i) ==
    blocks[route][i] = SubSeq(Children(route), i * BlockRows + 1,
                              Smaller((i + 1) * BlockRows, Len(Children(route))))

(* When nothing is under way, what the grid has loaded is what the engine   *)
(* has: each block its own rows and none of the next block's, whatever      *)
(* changed between the count and the rows of a read.  The aggregates of     *)
(* groups do not wait for the timer: their group delta is enough.           *)
SettledBlocksAreCurrent ==
    reads = <<>> /\ ssrmAttached /\ ~readFailed =>
        /\ ~rowNews /\ ~refreshSet => \A route \in Routes : \A i \in Shown(route) : BlockIsCurrent(route, i)
        /\ groupNews = {} => \A route \in Routes : Grouped(route) =>
                                 \A i \in Shown(route) : BlockIsCurrent(route, i)
=============================================================================
