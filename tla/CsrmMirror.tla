----------------------------- MODULE CsrmMirror -----------------------------
(* CsrmMode (modes/csrm.mjs): a grid that holds every row of an engine view *)
(* itself.  It registers for updates, reads the view, replays what arrived  *)
(* meanwhile, and from then on turns deltas into asynchronous AG-Grid       *)
(* transactions; its mirror of the rows decides between add and update,     *)
(* because the grid applies transactions a frame later.                     *)
EXTENDS Naturals, Sequences, SequencesExt

CONSTANTS
    MirrorKeys,   \* row keys
    MaxImages     \* bound: changes of one row

ASSUME MirrorAssumption == MaxImages \in Nat

VARIABLES
    book,         \* the engine's row under each key: its image, and its flag
    past,         \* the images each key has shown (ghost)
    phase,        \* of CsrmMode.start and stop
    watching,     \* the engine sends this view's updates
    reply,        \* the window read, on its way back
    deltas,       \* updates on their way to the tab
    pending,      \* deltas held until the snapshot is in the grid
    rows,         \* CsrmMode.rows, the mirror
    queue,        \* transactions the grid has not applied
    grid          \* the grid's rows

mirrorVars == <<book, past, phase, watching, reply, deltas, pending, rows, queue, grid>>

Images == 1 .. MaxImages
None == 0
Phases == {"new", "creating", "reading", "live", "frozen", "stopped", "failed"}
Delta == [key : MirrorKeys, image : Images, gone : BOOLEAN]
Transaction == [kind : {"add", "update", "remove"}, key : MirrorKeys, image : Images \cup {None}]
RowsOf == [MirrorKeys -> Images \cup {None}]

MirrorTypeOK ==
    /\ book \in [MirrorKeys -> [image : Images \cup {None}, gone : BOOLEAN]]
    /\ past \in [MirrorKeys -> SUBSET (Images \cup {None})]
    /\ phase \in Phases
    /\ watching \in BOOLEAN
    /\ reply \in Seq(RowsOf)
    /\ deltas \in Seq(Delta)
    /\ pending \in Seq(Delta)
    /\ rows \in RowsOf
    /\ queue \in Seq(Transaction)
    /\ grid \in RowsOf

MirrorInit ==
    /\ book = [k \in MirrorKeys |-> [image |-> None, gone |-> FALSE]]
    /\ past = [k \in MirrorKeys |-> {None}]
    /\ phase = "new"
    /\ watching = FALSE
    /\ reply = <<>> /\ deltas = <<>> /\ pending = <<>> /\ queue = <<>>
    /\ rows = [k \in MirrorKeys |-> None]
    /\ grid = rows

(* What a row is to the grid: isDeleted hides it.                           *)
Visible(row) == IF row.gone THEN None ELSE row.image
VisibleBook == [k \in MirrorKeys |-> Visible(book[k])]

-----------------------------------------------------------------------------
(* The engine.                                                              *)

BookChanges(k) ==
    /\ book[k].image < MaxImages
    /\ \E gone \in BOOLEAN :
        LET row == [image |-> book[k].image + 1, gone |-> gone] IN
        /\ book' = [book EXCEPT ![k] = row]
        /\ past' = [past EXCEPT ![k] = @ \cup {Visible(row)}]
        /\ deltas' = IF watching
                     THEN Append(deltas, [key |-> k, image |-> row.image, gone |-> gone])
                     ELSE deltas
    /\ UNCHANGED <<phase, watching, reply, pending, rows, queue, grid>>

(* on_update is registered before the window is read, in the order asked.   *)
EngineRegisters ==
    /\ phase = "reading" /\ ~watching /\ reply = <<>>
    /\ watching' = TRUE
    /\ UNCHANGED <<book, past, phase, reply, deltas, pending, rows, queue, grid>>

EngineReads ==
    /\ phase = "reading" /\ watching /\ reply = <<>>
    /\ reply' = <<VisibleBook>>
    /\ UNCHANGED <<book, past, phase, watching, deltas, pending, rows, queue, grid>>

-----------------------------------------------------------------------------
(* CsrmMode.                                                                *)

StartMirror ==
    /\ phase = "new"
    /\ phase' = "creating"
    /\ UNCHANGED <<book, past, watching, reply, deltas, pending, rows, queue, grid>>

(* createView answers; onUpdate and readWindow are called in one go.        *)
ViewCreated ==
    /\ phase = "creating"
    /\ phase' = "reading"
    /\ UNCHANGED <<book, past, watching, reply, deltas, pending, rows, queue, grid>>

(* Mutant of ApplyRow: the soft-delete flag is not looked at.               *)
ApplyRowUnflagged(s, d) ==
    [rows |-> [s.rows EXCEPT ![d.key] = d.image],
     queue |-> Append(s.queue, [kind |-> IF s.rows[d.key] # None THEN "update" ELSE "add",
                                key |-> d.key, image |-> d.image])]

(* applyDelta for one row: the mirror at once, the grid by a transaction.   *)
ApplyRow(s, d) ==
    LET known == s.rows[d.key] # None IN
    CASE d.gone /\ ~known -> s
      [] d.gone /\ known ->
           [rows |-> [s.rows EXCEPT ![d.key] = None],
            queue |-> Append(s.queue, [kind |-> "remove", key |-> d.key, image |-> None])]
      [] OTHER ->
           [rows |-> [s.rows EXCEPT ![d.key] = d.image],
            queue |-> Append(s.queue, [kind |-> IF known THEN "update" ELSE "add",
                                       key |-> d.key, image |-> d.image])]

ApplyAll(s, ds) == FoldLeft(ApplyRow, s, ds)

(* Mutant of SnapshotArrives: the held deltas are dropped.                  *)
SnapshotArrivesUnreplayed ==
    /\ phase = "reading" /\ reply # <<>>
    /\ rows' = Head(reply) /\ grid' = Head(reply)
    /\ reply' = <<>> /\ pending' = <<>>
    /\ phase' = "live"
    /\ UNCHANGED <<book, past, watching, deltas, queue>>

(* The snapshot: rowData is replaced, then the held deltas are replayed.    *)
SnapshotArrives ==
    /\ phase = "reading" /\ reply # <<>>
    /\ LET s == ApplyAll([rows |-> Head(reply), queue |-> queue], pending) IN
       rows' = s.rows /\ queue' = s.queue
    /\ grid' = Head(reply)
    /\ reply' = <<>> /\ pending' = <<>>
    /\ phase' = "live"
    /\ UNCHANGED <<book, past, watching, deltas>>

(* The read fails: start leaves no subscription behind.                     *)
SnapshotFails ==
    /\ phase = "reading"
    /\ phase' = "failed"
    /\ watching' = FALSE
    /\ reply' = <<>> /\ deltas' = <<>> /\ pending' = <<>>
    /\ UNCHANGED <<book, past, rows, queue, grid>>

DeltaArrives ==
    /\ deltas # <<>>
    /\ deltas' = Tail(deltas)
    /\ IF phase = "live"
       THEN /\ LET s == ApplyRow([rows |-> rows, queue |-> queue], Head(deltas)) IN
               rows' = s.rows /\ queue' = s.queue
            /\ UNCHANGED pending
       ELSE /\ pending' = Append(pending, Head(deltas))
            /\ UNCHANGED <<rows, queue>>
    /\ UNCHANGED <<book, past, phase, watching, reply, grid>>

(* stop: unsubscribe, dispose, drop the mirror.  A start that is reading    *)
(* goes on when its answer comes, without the subscription.                 *)
StopMirror ==
    /\ phase \in {"reading", "live"}
    /\ phase' = IF phase = "live" THEN "stopped" ELSE "frozen"
    /\ watching' = FALSE
    /\ deltas' = <<>>
    /\ rows' = [k \in MirrorKeys |-> None]
    /\ UNCHANGED <<book, past, reply, pending, queue, grid>>

SnapshotArrivesStopped ==
    /\ phase = "frozen" /\ reply # <<>>
    /\ LET s == ApplyAll([rows |-> Head(reply), queue |-> queue], pending) IN
       rows' = s.rows /\ queue' = s.queue
    /\ grid' = Head(reply)
    /\ reply' = <<>> /\ pending' = <<>>
    /\ UNCHANGED <<book, past, phase, watching, deltas>>

(* AG-Grid (external) applies the oldest transaction: an add of a known id  *)
(* and an update of an unknown one have no effect.                          *)
Routed(g, tx) ==
    CASE tx.kind = "add"    -> [g EXCEPT ![tx.key] = IF @ = None THEN tx.image ELSE @]
      [] tx.kind = "update" -> [g EXCEPT ![tx.key] = IF @ = None THEN @ ELSE tx.image]
      [] tx.kind = "remove" -> [g EXCEPT ![tx.key] = None]

GridApplies ==
    /\ queue # <<>>
    /\ grid' = Routed(grid, Head(queue))
    /\ queue' = Tail(queue)
    /\ UNCHANGED <<book, past, phase, watching, reply, deltas, pending, rows>>

MirrorNext ==
    \/ \E k \in MirrorKeys : BookChanges(k)
    \/ StartMirror \/ ViewCreated \/ EngineRegisters \/ EngineReads
    \/ SnapshotArrives \/ SnapshotFails \/ SnapshotArrivesStopped
    \/ DeltaArrives \/ StopMirror \/ GridApplies

MirrorSpec == MirrorInit /\ [][MirrorNext]_mirrorVars

-----------------------------------------------------------------------------
(* Properties.                                                              *)

(* The grid is a lagging copy of the table: the snapshot, the replay and    *)
(* the transactions only ever show images the row has had.                  *)
Copy == INSTANCE LaggingCopy WITH CopyKeys <- MirrorKeys, Values <- Images, NoRow <- None,
                                  table <- VisibleBook, copy <- grid
GridIsLaggingCopy == Copy!CopySpec

(* A started mirror that is neither stopped nor failed ends up showing the  *)
(* table: no update is lost between the registration and the snapshot.      *)
GridCatchesUp ==
    <>[](phase = "live" => grid = VisibleBook)
=============================================================================
