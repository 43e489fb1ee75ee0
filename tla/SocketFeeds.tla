---------------------------- MODULE SocketFeeds -----------------------------
(* The feeds beside STOMP: WsAdapter (adapters/ws.mjs), alone or carrying   *)
(* the updates of a RestAdapter (adapters/rest.mjs), which pages through    *)
(* its snapshot over HTTP, and SocketIoAdapter (adapters/socketio.mjs),     *)
(* which joins a namespace before it subscribes.  All are BaseAdapters.     *)
(* What the actor makes of the rows is in DatasourcePipeline; here a row    *)
(* delivered is in the table.  A socket.io server that says it closes, and  *)
(* then does, is heard twice: the adapter reconnects twice, and the sockets *)
(* are therefore numbered.                                                  *)
EXTENDS Naturals, Sequences, FiniteSets, SequencesExt

CONSTANTS
    FeedRows,
    Shapes,        \* "subscribe-only", "sentinel", "stream-end", "rest" or "socket.io"
    RetryMax,      \* connection.reconnect.maxAttempts
    MaxChanges,    \* bound: versions of one row, for each shape
    MaxDrops,      \* bound: connections the network drops or the upstream ends
    MaxSockets     \* bound: sockets a feed opens

ASSUME FeedAssumption ==
    /\ Shapes \subseteq {"subscribe-only", "sentinel", "stream-end", "rest", "socket.io"}
    /\ RetryMax \in Nat /\ MaxSockets \in Nat \ {0}

VARIABLES
    shape,         \* how the datasource gets its snapshot and its updates
    source,        \* the upstream's version of each row
    sockets,       \* how many were opened; the last one is this.ws
    link,          \* each socket's state, see Links
    wire,          \* on a socket, to the adapter: rows and the sentinel
    toCome,        \* rows of a socket's snapshot the upstream has still to send
    wsState,       \* state of the adapter with the socket
    wsDeadline,    \* its snapshot timer
    retryTimers, tries,   \* reconnects that are due, and attempts
    restState,     \* state of the RestAdapter
    restDeadline,
    pages,         \* rows still to be fetched
    page,          \* an HTTP answer on its way
    fetching,      \* fetchSnapshot runs
    heldBack,      \* RestAdapter.pending, while it is buffering
    closedByUs,    \* closed
    delivered,     \* the rows the hub has
    drops,
    missed         \* rows whose last image nobody was sent, was lost, was sent while
                   \* two sockets were subscribed, or goes under in an older one
                   \* that is held back (ghost)

feedVars == <<shape, source, sockets, link, wire, toCome, wsState, wsDeadline, retryTimers, tries,
              restState, restDeadline, pages, page, fetching, heldBack, closedByUs, delivered, drops, missed>>
upstreamOnly == <<source, toCome, missed>>
restOnly == <<restState, restDeadline, pages, page, fetching, heldBack>>

NeverSeen == 0
End == [row |-> "end", version |-> NeverSeen]
SocketIds == 1 .. MaxSockets
Current == sockets
Links ==
    {"none",          \* not opened yet
     "opening",
     "greeting",      \* open, before Engine.IO's handshake
     "joining",       \* the namespace is asked for
     "refused",       \* the server would not have it
     "open",          \* subscribe is sent
     "subscribed",    \* and the upstream has read it
     "leaving",       \* the server said it closes
     "closed"}
FeedStates == {"idle", "connecting", "snapshotting", "live", "recovering", "failed"}
FeedImage == [row : FeedRows, version : Nat \ {NeverSeen}]
FeedMessage == FeedImage \cup {End}

SocketFeedsTypeOK ==
    /\ shape \in Shapes
    /\ source \in [FeedRows -> Nat \ {NeverSeen}]
    /\ sockets \in SocketIds /\ link \in [SocketIds -> Links]
    /\ wire \in [SocketIds -> Seq(FeedMessage)] /\ toCome \in [SocketIds -> SUBSET FeedRows]
    /\ heldBack \in Seq(FeedImage) /\ page \in Seq(FeedImage)
    /\ pages \subseteq FeedRows /\ missed \subseteq FeedRows
    /\ wsState \in FeedStates /\ restState \in FeedStates
    /\ wsDeadline \in BOOLEAN /\ restDeadline \in BOOLEAN
    /\ fetching \in BOOLEAN /\ closedByUs \in BOOLEAN
    /\ delivered \in [FeedRows -> Nat]
    /\ drops \in Nat /\ tries \in Nat /\ retryTimers \in Nat

(* connect() of the adapter, or of the RestAdapter: updates first, then the *)
(* first page, without waiting for the socket to open.                      *)
SocketFeedsInit ==
    /\ shape \in Shapes
    /\ source = [r \in FeedRows |-> 1]
    /\ sockets = 1 /\ link = [k \in SocketIds |-> IF k = 1 THEN "opening" ELSE "none"]
    /\ wire = [k \in SocketIds |-> <<>>] /\ toCome = [k \in SocketIds |-> {}]
    /\ wsState = "connecting" /\ wsDeadline = FALSE
    /\ retryTimers = 0 /\ tries = 0
    /\ restState = IF shape = "rest" THEN "snapshotting" ELSE "idle"
    /\ restDeadline = (shape = "rest")
    /\ pages = IF shape = "rest" THEN FeedRows ELSE {}
    /\ page = <<>> /\ fetching = (shape = "rest") /\ heldBack = <<>>
    /\ closedByUs = FALSE
    /\ delivered = [r \in FeedRows |-> NeverSeen]
    /\ drops = 0 /\ missed = FeedRows

RowImage(r) == [row |-> r, version |-> source[r]]
Listening == {k \in SocketIds : link[k] = "subscribed"}
SentRows(w) == {w[i].row : i \in {j \in DOMAIN w : w[j] # End}}

(* deliver: a row, and rows in the order they came.                         *)
Told(known, m) == [known EXCEPT ![m.row] = m.version]
Replayed(known, rows) == FoldLeft(Told, known, rows)

-----------------------------------------------------------------------------
(* The upstream (external).                                                 *)

RowChanges(r) ==
    /\ source[r] < MaxChanges[shape]
    /\ source' = [source EXCEPT ![r] = @ + 1]
    /\ wire' = [k \in SocketIds |->
                   IF k \in Listening THEN Append(wire[k], [row |-> r, version |-> source[r] + 1])
                                      ELSE wire[k]]
    /\ missed' = IF Cardinality(Listening) = 1 THEN missed \ {r} ELSE missed \cup {r}
    /\ UNCHANGED <<shape, sockets, link, toCome, wsState, wsDeadline, retryTimers, tries, restOnly,
                   closedByUs, delivered, drops>>

(* It reads the subscribe message; from here on it sends every change, and  *)
(* all its rows where the feed begins with a snapshot on the socket.        *)
UpstreamSubscribes(k) ==
    /\ link[k] = "open"
    /\ link' = [link EXCEPT ![k] = "subscribed"]
    /\ toCome' = IF shape \in {"sentinel", "stream-end", "socket.io"}
                 THEN [toCome EXCEPT ![k] = FeedRows] ELSE toCome
    /\ UNCHANGED <<shape, source, sockets, wire, wsState, wsDeadline, retryTimers, tries, restOnly,
                   closedByUs, delivered, drops, missed>>

UpstreamSends(k, r) ==
    /\ r \in toCome[k]
    /\ toCome' = [toCome EXCEPT ![k] = @ \ {r}]
    /\ LET last == shape \in {"sentinel", "socket.io"} /\ toCome[k] = {r}
           sent == Append(wire[k], RowImage(r))
       IN  wire' = [wire EXCEPT ![k] = IF last THEN Append(sent, End) ELSE sent]
    /\ missed' = IF Listening = {k} THEN missed \ {r} ELSE missed \cup {r}
    /\ UNCHANGED <<shape, source, sockets, link, wsState, wsDeadline, retryTimers, tries, restOnly,
                   closedByUs, delivered, drops>>

PageRead(r) ==
    /\ fetching /\ r \in pages /\ page = <<>>
    /\ page' = <<RowImage(r)>>
    /\ pages' = pages \ {r}
    /\ missed' = missed \ ({r} \ SentRows(heldBack))
    /\ UNCHANGED <<shape, source, sockets, link, wire, toCome, wsState, wsDeadline, retryTimers,
                   tries, restState, restDeadline, fetching, heldBack, closedByUs, delivered, drops>>

-----------------------------------------------------------------------------
(* WsAdapter.                                                               *)

(* setState, as its owner hears it: a RestAdapter listens for failure only. *)
WsBecomes(state) ==
    /\ wsState' = state
    /\ IF shape = "rest" /\ state = "failed"
       THEN restState' = "failed" /\ restDeadline' = FALSE
       ELSE UNCHANGED <<restState, restDeadline>>

(* The subscribe message is on its way, and the snapshot begins.            *)
Subscribing(k) ==
    /\ link' = [link EXCEPT ![k] = "open"]
    /\ WsBecomes("snapshotting")
    /\ wsDeadline' = TRUE

(* onopen: a WebSocket subscribes at once, socket.io awaits the handshake.  *)
SocketOpens(k) ==
    /\ link[k] = "opening"
    /\ tries' = 0
    /\ IF shape = "socket.io"
       THEN /\ link' = [link EXCEPT ![k] = "greeting"]
            /\ UNCHANGED <<wsState, wsDeadline, restState, restDeadline>>
       ELSE Subscribing(k)
    /\ UNCHANGED <<shape, sockets, wire, retryTimers, pages, page, fetching, heldBack, closedByUs,
                   delivered, drops, upstreamOnly>>

(* Engine.IO's open packet: the client asks to join its namespace.          *)
OnHandshake(k) ==
    /\ link[k] = "greeting"
    /\ link' = [link EXCEPT ![k] = "joining"]
    /\ UNCHANGED <<shape, source, sockets, wire, toCome, wsState, wsDeadline, retryTimers, tries,
                   restOnly, closedByUs, delivered, drops, missed>>

(* The namespace is joined: subscribe, then the snapshot.                   *)
OnJoined(k) ==
    /\ link[k] = "joining"
    /\ Subscribing(k)
    /\ UNCHANGED <<shape, sockets, wire, retryTimers, tries, pages, page, fetching, heldBack,
                   closedByUs, delivered, drops, upstreamOnly>>

(* An error packet fails the feed and leaves the socket open.               *)
JoinRefused(k) ==
    /\ link[k] = "joining"
    /\ link' = [link EXCEPT ![k] = "refused"]
    /\ WsBecomes("failed") /\ wsDeadline' = FALSE
    /\ UNCHANGED <<shape, sockets, wire, retryTimers, tries, pages, page, fetching, heldBack,
                   closedByUs, delivered, drops, upstreamOnly>>

(* Rows are delivered in every state, and buffered by a RestAdapter that    *)
(* still fetches.                                                           *)
RowArrives(k) ==
    /\ wire[k] # <<>> /\ Head(wire[k]) # End
    /\ wire' = [wire EXCEPT ![k] = Tail(@)]
    /\ LET m == Head(wire[k])
       IN  IF shape = "rest" /\ fetching
           THEN heldBack' = Append(heldBack, m) /\ UNCHANGED delivered
           ELSE delivered' = Told(delivered, m) /\ UNCHANGED heldBack
    /\ UNCHANGED <<shape, sockets, link, wsState, wsDeadline, retryTimers, tries, restState,
                   restDeadline, pages, page, fetching, closedByUs, drops, upstreamOnly>>

(* finishSnapshot.  Out of the snapshot it is not a row of this feed.       *)
SentinelArrives(k) ==
    /\ wire[k] # <<>> /\ Head(wire[k]) = End
    /\ wire' = [wire EXCEPT ![k] = Tail(@)]
    /\ IF wsState = "snapshotting"
       THEN wsState' = "live" /\ wsDeadline' = FALSE
       ELSE UNCHANGED <<wsState, wsDeadline>>
    /\ UNCHANGED <<shape, sockets, link, retryTimers, tries, restOnly, closedByUs, delivered, drops,
                   upstreamOnly>>

WsDeadline ==
    /\ wsDeadline
    /\ wsDeadline' = FALSE
    /\ IF wsState = "snapshotting" THEN WsBecomes("failed")
                                   ELSE UNCHANGED <<wsState, restState, restDeadline>>
    /\ UNCHANGED <<shape, sockets, link, wire, retryTimers, tries, pages, page, fetching, heldBack, closedByUs,
                   delivered, drops, upstreamOnly>>

(* transportClosed, scheduleReconnect.                                      *)
SocketClosed ==
    IF wsState = "failed" \/ closedByUs
    THEN UNCHANGED <<wsState, restState, restDeadline, retryTimers, tries>>
    ELSE IF tries >= RetryMax
         THEN WsBecomes("failed") /\ UNCHANGED <<retryTimers, tries>>
         ELSE WsBecomes("recovering") /\ retryTimers' = retryTimers + 1 /\ tries' = tries + 1

(* onSocketClose.  A stream that ends is a snapshot that has ended.         *)
EndsTheStream == shape = "stream-end" /\ wsState = "snapshotting"
OnSocketClose ==
    IF EndsTheStream
    THEN /\ wsState' = "live" /\ wsDeadline' = FALSE
         /\ UNCHANGED <<restState, restDeadline, retryTimers, tries>>
    ELSE SocketClosed /\ UNCHANGED wsDeadline

StreamEnds(k) ==
    /\ shape = "stream-end" /\ link[k] = "subscribed" /\ toCome[k] = {} /\ wire[k] = <<>>
    /\ link' = [link EXCEPT ![k] = "closed"]
    /\ OnSocketClose
    /\ UNCHANGED <<shape, sockets, wire, pages, page, fetching, heldBack, closedByUs, delivered,
                   drops, upstreamOnly>>

(* Engine.IO's close packet: transportClosed, before the socket closes.     *)
ClosePacketArrives(k) ==
    /\ shape = "socket.io" /\ link[k] \in {"joining", "open", "subscribed"} /\ wire[k] = <<>>
    /\ drops < MaxDrops
    /\ drops' = drops + 1
    /\ link' = [link EXCEPT ![k] = "leaving"]
    /\ toCome' = [toCome EXCEPT ![k] = {}]
    /\ SocketClosed
    /\ UNCHANGED <<shape, source, sockets, wire, wsDeadline, pages, page, fetching, heldBack,
                   closedByUs, delivered, missed>>

(* The connection goes, and what is on it: those rows go unheard.  A stream *)
(* cut in the snapshot looks like one that has ended.                       *)
SocketDrops(k) ==
    /\ link[k] \notin {"none", "closed"}
    /\ link[k] # "leaving" => drops < MaxDrops
    /\ drops' = IF link[k] = "leaving" THEN drops ELSE drops + 1
    /\ link' = [link EXCEPT ![k] = "closed"]
    /\ wire' = [wire EXCEPT ![k] = <<>>]
    /\ toCome' = [toCome EXCEPT ![k] = {}]
    /\ missed' = missed \cup SentRows(wire[k])
    /\ OnSocketClose
    /\ UNCHANGED <<shape, source, sockets, pages, page, fetching, heldBack, closedByUs, delivered>>

(* connect, which closes nothing: a socket that is still open is left so.   *)
ReconnectFeed ==
    /\ retryTimers > 0
    /\ retryTimers' = retryTimers - 1
    /\ IF closedByUs THEN UNCHANGED <<wsState, sockets, link>>
       ELSE /\ sockets < MaxSockets
            /\ sockets' = sockets + 1
            /\ wsState' = "connecting"
            /\ link' = [link EXCEPT ![sockets + 1] = "opening"]
    /\ UNCHANGED <<shape, wire, wsDeadline, tries, restOnly, closedByUs, delivered, drops,
                   upstreamOnly>>

-----------------------------------------------------------------------------
(* RestAdapter.                                                             *)

(* Mutant of PageArrives: what was held is dropped.                         *)
PageArrivesUnreplayed ==
    /\ page # <<>> /\ fetching
    /\ page' = <<>>
    /\ delivered' = Told(delivered, page[1])
    /\ IF pages # {}
       THEN UNCHANGED <<restState, restDeadline, fetching, heldBack>>
       ELSE restState' = "live" /\ restDeadline' = FALSE /\ fetching' = FALSE /\ heldBack' = <<>>
    /\ UNCHANGED <<shape, sockets, link, wire, wsState, wsDeadline, retryTimers, tries, pages, closedByUs,
                   drops, upstreamOnly>>

(* A page; after the last one the snapshot ends, whatever the state was,    *)
(* and what was held is replayed.                                           *)
PageArrives ==
    /\ page # <<>> /\ fetching
    /\ page' = <<>>
    /\ LET now == Told(delivered, page[1]) IN
       IF pages # {}
       THEN delivered' = now /\ UNCHANGED <<restState, restDeadline, fetching, heldBack>>
       ELSE /\ restState' = "live" /\ restDeadline' = FALSE /\ fetching' = FALSE
            /\ delivered' = Replayed(now, heldBack)
            /\ heldBack' = <<>>
    /\ UNCHANGED <<shape, sockets, link, wire, wsState, wsDeadline, retryTimers, tries, pages, closedByUs,
                   drops, upstreamOnly>>

(* The walk ends with an error; the updates go on being held.               *)
FetchFails ==
    /\ fetching /\ pages \cup {page[i].row : i \in DOMAIN page} # {}
    /\ pages' = {} /\ page' = <<>>
    /\ restState' = "failed" /\ restDeadline' = FALSE
    /\ UNCHANGED <<shape, sockets, link, wire, wsState, wsDeadline, retryTimers, tries, fetching, heldBack,
                   closedByUs, delivered, drops, upstreamOnly>>

RestDeadline ==
    /\ restDeadline
    /\ restDeadline' = FALSE
    /\ restState' = IF restState = "snapshotting" THEN "failed" ELSE restState
    /\ UNCHANGED <<shape, sockets, link, wire, wsState, wsDeadline, retryTimers, tries, pages, page,
                   fetching, heldBack, closedByUs, delivered, drops, upstreamOnly>>

CloseFeed ==
    /\ ~closedByUs
    /\ closedByUs' = TRUE
    /\ link' = [link EXCEPT ![Current] = "closed"]
    /\ wire' = [wire EXCEPT ![Current] = <<>>]
    /\ toCome' = [toCome EXCEPT ![Current] = {}]
    /\ missed' = missed \cup SentRows(wire[Current])
    /\ wsState' = "idle" /\ wsDeadline' = FALSE
    /\ restState' = "idle" /\ restDeadline' = FALSE
    /\ pages' = {} /\ page' = <<>> /\ fetching' = FALSE
    /\ UNCHANGED <<shape, source, sockets, retryTimers, tries, heldBack, delivered, drops>>

SocketFeedsNext ==
    \/ \E r \in FeedRows : RowChanges(r) \/ PageRead(r)
    \/ \E k \in SocketIds, r \in FeedRows : UpstreamSends(k, r)
    \/ \E k \in SocketIds :
          \/ UpstreamSubscribes(k) \/ SocketOpens(k) \/ OnHandshake(k) \/ OnJoined(k)
          \/ JoinRefused(k) \/ RowArrives(k) \/ SentinelArrives(k) \/ StreamEnds(k)
          \/ ClosePacketArrives(k) \/ SocketDrops(k)
    \/ WsDeadline \/ ReconnectFeed
    \/ PageArrives \/ FetchFails \/ RestDeadline \/ CloseFeed

SocketFeedsSpec == SocketFeedsInit /\ [][SocketFeedsNext]_feedVars

-----------------------------------------------------------------------------
(* Properties.                                                              *)

FeedState == IF shape = "rest" THEN restState ELSE wsState
Quiet == page = <<>> /\ pages = {} /\ \A k \in SocketIds : wire[k] = <<>> /\ toCome[k] = {}

(* A live feed with nothing under way has told the hub the latest image of  *)
(* every row, except of rows that changed while nobody listened (before the *)
(* update socket of a REST feed was subscribed, in an outage of it, or      *)
(* after a stream had ended), whose older image a REST feed held back and   *)
(* replays over the page it fetched since, or that changed while a feed     *)
(* closed twice had two sockets.  A feed whose snapshot comes on the socket *)
(* and ends with a sentinel has no such row as long as it keeps the socket. *)
LiveFeedIsCurrent ==
    FeedState = "live" =>
        /\ Quiet => \A r \in FeedRows \ missed : delivered[r] = source[r]
        /\ shape \in {"sentinel", "socket.io"} /\ drops = 0 => missed = {}
=============================================================================
