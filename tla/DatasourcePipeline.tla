------------------------- MODULE DatasourcePipeline -------------------------
(***************************************************************************)
(* One datasource from its upstream to the hub's table: the transport      *)
(* adapter (adapters/base.mjs, adapters/stomp.mjs), the table actor that   *)
(* buffers and batches rows (table_actor.mjs), the differ of a re-snapshot *)
(* (reconnect.mjs), and the two callbacks of hub.mjs that join them.       *)
(*                                                                         *)
(* The upstream is a STOMP broker in trigger-reply mode: the adapter       *)
(* subscribes, then asks for the snapshot, which is the book row by row    *)
(* and an end frame that declares the row count; updates flow on the same  *)
(* subscription and are not told apart from snapshot rows.  The engine's   *)
(* table.update is asynchronous.                                           *)
(***************************************************************************)
EXTENDS Integers, Sequences, FiniteSets, SequencesExt, Filtering

CONSTANTS
    Rows,
    MaxVersion,   \* bound: versions of a row
    QueueLimit,   \* the actor's queueLimit
    MaxRows,      \* batch.maxRows: a longer queue is flushed at once
    MaxAttempts,  \* reconnect.maxAttempts, per endpoint
    Urls,         \* endpoints: the url and its failovers
    Policy,       \* updatesDuringSnapshot: "buffer" or not
    Truncates,    \* the upstream may end a snapshot with rows missing
    MaxOutages    \* bound: drops of an established connection

ASSUME PipelineAssumption ==
    /\ IsFiniteSet(Rows)
    /\ MaxVersion \in Nat \ {0}
    /\ {QueueLimit, MaxRows, MaxAttempts, MaxOutages} \subseteq Nat
    /\ Urls \in Nat \ {0}
    /\ Policy \in {"buffer", "apply"}
    /\ Truncates \in BOOLEAN

VARIABLES
    book,       \* the upstream's version of each row
    serving,    \* it is answering a snapshot request
    toSend,     \* rows of that snapshot not sent yet
    astate,     \* adapter.state
    socket,     \* the transport: "closed", "opening" or "subscribed"
    closed,     \* adapter.closed
    deadline,   \* the snapshot timer is armed
    retry,      \* the reconnect timer is armed
    attempt,    \* attempts on this endpoint
    url,        \* the endpoint, from 1
    received,   \* snapshotRows
    actor,      \* actor.state
    buffering,  \* snapshotBuffer is there
    buffer,     \* its rows
    queue,      \* rows waiting for a flush
    flushDue,   \* the flush timer is armed
    written,    \* rowsOut > 0
    differ,     \* the re-snapshot: collected rows, the table they are compared
                \* with, and the one an unfinished end() is comparing with
    writes,     \* updates the engine has not finished
    table,      \* what a query of the table returns; 0 is no row
    published,  \* the state of the hub's entry, as last sent to its subscribers
    accepted,   \* history: by row, the last image the actor took
    sealed,     \* history: accepted, when the snapshot ended
    seen,       \* history: snapshot rows that came in since it began
    outages     \* connections dropped so far

upstreamVars == <<book, serving, toSend>>
adapterVars == <<astate, socket, closed, deadline, retry, attempt, url, received>>
actorVars == <<actor, buffering, buffer, queue, flushDue, written>>
engineVars == <<writes, table>>
pipelineHistory == <<accepted, sealed, seen>>
pipelineVars == <<upstreamVars, adapterVars, actorVars, differ, engineVars, published, pipelineHistory, outages>>

States == {"idle", "connecting", "snapshotting", "live", "recovering", "failed"}
Absent == 0
Versions == 1..MaxVersion
Empty == [r \in Rows |-> Absent]
Read(content) == [ok |-> TRUE, content |-> content]
Unread == [ok |-> FALSE, content |-> Empty]   \* the table could not be read
Image == [row : Rows, version : {Absent} \cup Versions]

(* mergeBatch: per key, the later row wins.                                *)
Merge(images) ==
    [r \in {images[i].row : i \in DOMAIN images} |->
        images[CHOOSE i \in DOMAIN images :
                  /\ images[i].row = r
                  /\ \A j \in DOMAIN images : images[j].row = r => j <= i].version]

Over(batch, content) == [r \in Rows |-> IF r \in DOMAIN batch THEN batch[r] ELSE content[r]]

(* What a query returns when the engine has finished these updates.        *)
Taken(content, updates) == FoldLeft(LAMBDA t, w : Over(w.batch, t), content, updates)

PipelineInit ==
    /\ book = [r \in Rows |-> 1]
    /\ serving = FALSE
    /\ toSend = {}
    /\ astate = "idle"
    /\ socket = "closed"
    /\ closed = FALSE
    /\ deadline = FALSE
    /\ retry = FALSE
    /\ attempt = 0
    /\ url = 1
    /\ received = 0
    /\ actor = "idle"
    /\ buffering = FALSE
    /\ buffer = <<>>
    /\ queue = <<>>
    /\ flushDue = FALSE
    /\ written = FALSE
    /\ differ = [active |-> FALSE, rows |-> <<>>, base |-> Unread,
                 ending |-> FALSE, against |-> Unread]
    /\ writes = <<>>
    /\ table = Empty
    /\ published = "idle"
    /\ accepted = Empty
    /\ sealed = Empty
    /\ seen = {}
    /\ outages = 0

-----------------------------------------------------------------------------
(* The table actor.                                                        *)

(* flush of what has been queued; live: endSnapshot waits for this write.  *)
Flush(images, live) ==
    /\ queue' = <<>>
    /\ flushDue' = FALSE
    /\ written' = (written \/ images # <<>>)
    /\ writes' = IF images = <<>> THEN writes
                 ELSE Append(writes, [batch |-> Merge(images), live |-> live])

Enqueue(images) ==
    IF Len(queue \o images) >= MaxRows
    THEN Flush(queue \o images, FALSE)
    ELSE /\ queue' = queue \o images
         /\ flushDue' = TRUE
         /\ UNCHANGED <<written, writes>>

(* push: a full queue refuses the rows; the buffer does not count.         *)
Push(images) ==
    IF Len(queue) + Len(images) > QueueLimit
    THEN UNCHANGED <<buffer, queue, flushDue, written, writes, accepted>>
    ELSE /\ accepted' = Over(Merge(images), accepted)
         /\ IF buffering
            THEN buffer' = buffer \o images /\ UNCHANGED <<queue, flushDue, written, writes>>
            ELSE Enqueue(images) /\ UNCHANGED buffer

(* Mutants of EndSnapshot: the buffered rows are left out; the actor is    *)
(* live without waiting for the engine.                                    *)
EndSnapshotUnbuffered(images) ==
    /\ Flush(queue \o images, TRUE)
    /\ buffering' = FALSE
    /\ buffer' = <<>>
    /\ actor' = IF queue \o images = <<>> THEN "live" ELSE actor

EndSnapshotUnawaited(images) ==
    /\ Flush(queue \o buffer \o images, TRUE)
    /\ buffering' = FALSE
    /\ buffer' = <<>>
    /\ actor' = "live"

(* endSnapshot, with rows pushed just before: everything goes out in one   *)
(* flush, and the actor is live when the engine has taken it.              *)
EndSnapshot(images) ==
    /\ Flush(queue \o buffer \o images, TRUE)
    /\ buffering' = FALSE
    /\ buffer' = <<>>
    /\ actor' = IF queue \o buffer \o images = <<>> THEN "live" ELSE actor

FlushTimer ==
    /\ flushDue
    /\ Flush(queue, FALSE)
    /\ UNCHANGED <<upstreamVars, adapterVars, actor, buffering, buffer, differ, table,
                   published, pipelineHistory, outages>>

(* An update resolves.  The one endSnapshot awaits makes the actor live,   *)
(* and the hub publishes it.                                               *)
WriteDone ==
    /\ writes # <<>>
    /\ table' = Over(Head(writes).batch, table)
    /\ writes' = Tail(writes)
    /\ IF Head(writes).live
       THEN actor' = "live" /\ published' = IF closed THEN published ELSE "live"
       ELSE UNCHANGED <<actor, published>>
    /\ UNCHANGED <<upstreamVars, adapterVars, buffering, buffer, queue, flushDue, written, differ,
                   pipelineHistory, outages>>

-----------------------------------------------------------------------------
(* The adapter: connecting and recovering.                                 *)

ConnectTo ==
    /\ astate' = "connecting"
    /\ published' = "connecting"
    /\ socket' = "opening"
    /\ received' = 0

Connect ==
    /\ astate = "idle"
    /\ ~closed
    /\ ConnectTo
    /\ UNCHANGED <<upstreamVars, closed, deadline, retry, attempt, url, actorVars, differ,
                   engineVars, pipelineHistory, outages>>

RetryFires ==
    /\ retry
    /\ retry' = FALSE
    /\ IF closed THEN UNCHANGED <<astate, published, socket, received>> ELSE ConnectTo
    /\ UNCHANGED <<upstreamVars, closed, deadline, attempt, url, actorVars, differ,
                   engineVars, pipelineHistory, outages>>

(* onConnected: subscribe, begin the snapshot, ask for it.                 *)
Subscribed ==
    /\ socket = "opening"
    /\ socket' = "subscribed"
    /\ attempt' = 0
    /\ received' = 0
    /\ astate' = "snapshotting"
    /\ IF written
       THEN \E base \in {Read(table), Unread} :
                differ' = [differ EXCEPT !.active = TRUE, !.rows = <<>>, !.base = base]
       ELSE UNCHANGED differ
    /\ UNCHANGED <<book, closed, retry, url, queue, flushDue, written, engineVars, outages>>

(* Mutant of ArmSnapshotTimeout: no deadline when config omits one.        *)
ArmSnapshotTimeoutOmitted == UNCHANGED deadline

ArmSnapshotTimeout == deadline' = TRUE

OnConnected ==
    /\ Subscribed
    /\ actor # "live"
    /\ actor' = "snapshotting"
    /\ buffering' = (Policy = "buffer")
    /\ buffer' = <<>>
    /\ published' = "snapshotting"
    /\ ArmSnapshotTimeout
    /\ serving' = TRUE
    /\ toSend' = Rows
    /\ accepted' = Over(Merge(queue), Taken(table, writes))
    /\ seen' = {}
    /\ UNCHANGED sealed

(* A live actor has no transition to snapshotting: beginSnapshot throws    *)
(* out of the adapter's setState, so that the hub publishes nothing, no    *)
(* deadline is armed and the snapshot is never asked for.                  *)
OnConnectedThrows ==
    /\ Subscribed
    /\ actor = "live"
    /\ UNCHANGED <<actor, buffering, buffer, published, deadline, serving, toSend, pipelineHistory>>

(* Mutants of NextAttempt: not counted; of HasFailover: off by one.        *)
NextAttemptUncounted == attempt
HasFailoverOffByOne == url <= Urls

NextAttempt == attempt + 1
HasFailover == url < Urls

(* transportClosed and scheduleReconnect: stale at once, then the next     *)
(* attempt, the next endpoint, or the end of them.                         *)
TransportClosed ==
    /\ socket' = "closed"
    /\ serving' = FALSE
    /\ toSend' = {}
    /\ \/ /\ astate = "failed"
          /\ UNCHANGED <<astate, published, retry, attempt, url>>
       \/ /\ astate # "failed"
          /\ attempt < MaxAttempts
          /\ attempt' = NextAttempt
          /\ retry' = TRUE
          /\ astate' = "recovering"
          /\ published' = "recovering"
          /\ UNCHANGED url
       \/ /\ astate # "failed"
          /\ attempt >= MaxAttempts
          /\ HasFailover
          /\ url' = url + 1
          /\ attempt' = 1
          /\ retry' = TRUE
          /\ astate' = "recovering"
          /\ published' = "recovering"
       \/ /\ astate # "failed"
          /\ attempt >= MaxAttempts
          /\ ~HasFailover
          /\ astate' = "failed"
          /\ published' = "failed"
          /\ UNCHANGED <<retry, attempt, url>>
    /\ UNCHANGED <<book, closed, deadline, received, actorVars, differ, engineVars, pipelineHistory>>

ConnectFails == socket = "opening" /\ TransportClosed /\ UNCHANGED outages

Outage ==
    /\ socket = "subscribed"
    /\ outages < MaxOutages
    /\ outages' = outages + 1
    /\ TransportClosed

Fail == astate' = "failed" /\ published' = "failed"

(* Mutant of DeadlineFires: the state is not looked at.                    *)
DeadlineFiresUnchecked ==
    /\ deadline
    /\ deadline' = FALSE
    /\ Fail
    /\ UNCHANGED <<upstreamVars, socket, closed, retry, attempt, url, received, actorVars,
                   differ, engineVars, pipelineHistory, outages>>

(* The snapshot timer is not cleared by an outage: it counts only while    *)
(* the adapter is snapshotting.                                            *)
DeadlineFires ==
    /\ deadline
    /\ deadline' = FALSE
    /\ IF astate = "snapshotting" THEN Fail ELSE UNCHANGED <<astate, published>>
    /\ UNCHANGED <<upstreamVars, socket, closed, retry, attempt, url, received, actorVars,
                   differ, engineVars, pipelineHistory, outages>>

(* A broker ERROR or a broken frame.  The socket stays open.               *)
ErrorFrame ==
    /\ socket # "closed"
    /\ deadline' = FALSE
    /\ Fail
    /\ UNCHANGED <<upstreamVars, socket, closed, retry, attempt, url, received, actorVars,
                   differ, engineVars, pipelineHistory, outages>>

(* The hub tears the table down: adapter.close, actor.dispose.  The entry  *)
(* is gone already, so nothing is published from here on.                  *)
Close ==
    /\ astate # "idle"
    /\ closed' = TRUE
    /\ deadline' = FALSE
    /\ socket' = "closed"
    /\ serving' = FALSE
    /\ toSend' = {}
    /\ astate' = "idle"
    /\ queue' = <<>>
    /\ buffering' = FALSE
    /\ buffer' = <<>>
    /\ flushDue' = FALSE
    /\ UNCHANGED <<book, retry, attempt, url, received, actor, written, differ, engineVars,
                   published, pipelineHistory, outages>>

-----------------------------------------------------------------------------
(* Frames on the subscription.                                             *)

(* deliver and the hub's onRows: a row counts towards the snapshot while   *)
(* one is in progress, whatever it is; the differ takes it if it is        *)
(* collecting, the actor otherwise.                                        *)
Deliver(image) ==
    /\ received' = IF astate = "snapshotting" THEN received + 1 ELSE received
    /\ IF differ.active
       THEN /\ differ' = [differ EXCEPT !.rows = Append(@, image)]
            /\ UNCHANGED <<buffer, queue, flushDue, written, writes, accepted>>
       ELSE Push(<<image>>) /\ UNCHANGED differ
    /\ UNCHANGED <<astate, socket, closed, deadline, retry, attempt, url, actor, buffering,
                   table, published, sealed, outages>>

SnapshotRow(r) ==
    /\ r \in toSend
    /\ toSend' = toSend \ {r}
    /\ seen' = seen \cup {r}
    /\ Deliver([row |-> r, version |-> book[r]])
    /\ UNCHANGED <<book, serving>>

UpdateRow(r) ==
    /\ book[r] < MaxVersion
    /\ book' = [book EXCEPT ![r] = @ + 1]
    /\ IF socket = "subscribed"
       THEN Deliver([row |-> r, version |-> book'[r]])
       ELSE UNCHANGED <<adapterVars, actorVars, differ, engineVars, published, accepted,
                        sealed, outages>>
    /\ UNCHANGED <<serving, toSend, seen>>

(* The end frame declares the size of the book.                            *)
EndFrame ==
    /\ serving
    /\ toSend = {} \/ Truncates
    /\ serving' = FALSE
    /\ toSend' = {}
    /\ UNCHANGED <<book, socket, closed, retry, attempt, url, received, table, accepted, seen,
                   outages>>

Declared == Cardinality(Rows)

(* finishSnapshot: too few rows or too many is a failure.                  *)
CountMismatch ==
    /\ EndFrame
    /\ astate = "snapshotting"
    /\ received # Declared
    /\ deadline' = FALSE
    /\ Fail
    /\ UNCHANGED <<actorVars, differ, writes, sealed>>

(* The count is right: the adapter is live, and the hub ends the snapshot. *)
(* A bound: no second end() of the differ begins while one is pending.     *)
FinishSnapshot ==
    /\ EndFrame
    /\ astate = "snapshotting"
    /\ received = Declared
    /\ deadline' = FALSE
    /\ astate' = "live"
    /\ sealed' = accepted
    /\ \/ /\ actor = "snapshotting" /\ ~differ.active
          /\ EndSnapshot(<<>>)
          /\ published' = IF actor' = "live" THEN "live" ELSE published
          /\ UNCHANGED differ
       \/ /\ actor = "snapshotting" /\ differ.active
          /\ ~differ.ending
          /\ differ' = [differ EXCEPT !.active = FALSE, !.ending = TRUE, !.against = differ.base]
          /\ UNCHANGED <<actorVars, writes, published>>
       \/ /\ actor = "live"
          /\ published' = "live"
          /\ UNCHANGED <<actorVars, writes, differ>>

(* Not snapshotting any more: the end frame is chatter.                    *)
LateEndFrame ==
    /\ EndFrame
    /\ astate # "snapshotting"
    /\ UNCHANGED <<astate, deadline, actorVars, differ, writes, published, sealed>>

-----------------------------------------------------------------------------
(* diffSnapshot: the rows that moved, then those that are gone, as soft    *)
(* deletes.  Against a table that could not be read, every row.            *)
Moved(content) == {i \in Image : content[i.row] # i.version}
Upserts ==
    IF differ.against.ok THEN KeepIn(differ.rows, Moved(differ.against.content)) ELSE differ.rows

Missing ==
    {r \in Rows : /\ differ.against.content[r] # Absent
                  /\ \A i \in DOMAIN differ.rows : differ.rows[i].row # r}
Removals == SetToSeq({[row |-> r, version |-> Absent] : r \in Missing})

(* The differ's end() comes back: the diff is pushed and the snapshot      *)
(* ended, and "live" is published without waiting for the engine.          *)
DiffDone ==
    LET diff == Upserts \o Removals
        rows == IF Len(queue) + Len(diff) > QueueLimit THEN <<>> ELSE diff
    IN  /\ differ.ending
        /\ differ' = [differ EXCEPT !.ending = FALSE, !.rows = <<>>, !.base = Unread]
        /\ IF ~buffering /\ rows # <<>> /\ Len(queue \o rows) >= MaxRows
           THEN Flush(queue \o rows, FALSE) /\ actor' = "live" /\ UNCHANGED <<buffering, buffer>>
           ELSE EndSnapshot(rows)
        /\ accepted' = Over(Merge(rows), accepted)
        /\ published' = IF closed THEN published ELSE "live"
        /\ UNCHANGED <<upstreamVars, adapterVars, table, sealed, seen, outages>>

-----------------------------------------------------------------------------
UpstreamActs ==
    \/ \E r \in Rows : SnapshotRow(r) \/ UpdateRow(r)
    \/ CountMismatch
    \/ FinishSnapshot
    \/ LateEndFrame

PipelineNext ==
    \/ Connect
    \/ RetryFires
    \/ OnConnected
    \/ OnConnectedThrows
    \/ ConnectFails
    \/ Outage
    \/ DeadlineFires
    \/ ErrorFrame
    \/ Close
    \/ UpstreamActs
    \/ FlushTimer
    \/ WriteDone
    \/ DiffDone

PipelineSpec == PipelineInit /\ [][PipelineNext]_pipelineVars

(* Timers fire and the engine answers.  Nothing is assumed of the upstream:*)
(* no timer runs while the adapter is connecting, and a broker that takes  *)
(* the connection and never answers CONNECT leaves it there.               *)
PipelineFairSpec ==
    /\ PipelineSpec
    /\ WF_pipelineVars(RetryFires)
    /\ WF_pipelineVars(DeadlineFires)
    /\ WF_pipelineVars(FlushTimer)
    /\ WF_pipelineVars(WriteDone)
    /\ WF_pipelineVars(DiffDone)

-----------------------------------------------------------------------------
PipelineTypeOK ==
    /\ book \in [Rows -> Versions]
    /\ serving \in BOOLEAN
    /\ toSend \subseteq Rows
    /\ astate \in States
    /\ socket \in {"closed", "opening", "subscribed"}
    /\ {closed, deadline, retry, flushDue, written, buffering, differ.active, differ.ending} \subseteq BOOLEAN
    /\ attempt \in 0..MaxAttempts \/ attempt = 1
    /\ url \in 1..Urls
    /\ received \in Nat
    /\ actor \in {"idle", "snapshotting", "live"}
    /\ buffer \in Seq(Image)
    /\ queue \in Seq(Image)
    /\ differ.rows \in Seq(Image)
    /\ {table, accepted, sealed} \subseteq [Rows -> {Absent} \cup Versions]
    /\ published \in States
    /\ seen \subseteq Rows

(* Through the snapshot buffer, the queue, merged batches and the engine's *)
(* own queue, no row the actor took is lost or overtaken by an older one:  *)
(* put together they hold the last image of each row that was taken.       *)
AcceptedIsHeld ==
    ~closed =>
        accepted = Over(Merge(queue \o buffer), Taken(table, writes))

(* While a datasource recovers a retry is armed, and no retry is armed     *)
(* with a transport open: a connection is neither given up by accident nor *)
(* opened twice.                                                           *)
RecoveryIsArmed ==
    /\ astate = "recovering" => retry
    /\ retry /\ ~closed => socket = "closed" /\ astate = "recovering"

(* "live must mean the snapshot is queryable": on the first connection,    *)
(* when live is published the table returns every row the snapshot left.   *)
FirstLiveIsQueryable ==
    [][(published # "live" /\ published' = "live" /\ outages = 0)
           => \A r \in Rows : table'[r] >= sealed'[r]]_pipelineVars

(* "A snapshot that never ends is indistinguishable from one still         *)
(* arriving": one the tabs have been told of does end, whatever the        *)
(* upstream does or does not send.                                         *)
AnnouncedSnapshotEnds ==
    (published = "snapshotting") ~> (published # "snapshotting" \/ closed)

(* Recovery does not go on for ever: through every attempt and every       *)
(* failover the datasource connects or fails, or it is at an attempt that  *)
(* the broker never answers and nothing times out.                         *)
RecoveryEnds ==
    (astate = "recovering")
        ~> (socket = "subscribed" \/ astate = "failed" \/ closed \/ [](socket = "opening"))

(* "There is always a deadline even when config omits one".                *)
SnapshotHasDeadline == astate = "snapshotting" => deadline

(* "Going live on a silently truncated book is the worst outcome in this   *)
(* system": live is published only of a snapshot that came in whole.       *)
LiveIsWhole == (astate = "live" /\ published = "live") => seen = Rows
=============================================================================
