------------------------------ MODULE MCAdapters ------------------------------
(* A datasource and what feeds it: the pipeline of a STOMP datasource, the  *)
(* other transports, and the frames of a STOMP connection.  They share no   *)
(* state: a behaviour is of one part, the others stay as they began.        *)
EXTENDS DatasourcePipeline, SocketFeeds, StompFrames

CONSTANTS Parts,                               \* the parts a run looks at
          r1, r2

VARIABLE part

MCRows == {r1, r2}

\* A third image tells a row held back from one fetched since; two sockets at
\* once leave no room for it.
MCMaxChanges == [s \in Shapes |-> IF s = "socket.io" THEN 2 ELSE 3]

\* A message with a counted body that holds the end of a frame, one with
\* escapes and a repeated header, and one whose headers are not escaped.
Header(n, v) == [name |-> n, value |-> v]
MCMessages ==
    {[command |-> "MESSAGE", headers |-> <<Header(Length, <<"3">>)>>, body |-> <<"x", NUL, LF>>],
     [command |-> "MESSAGE", headers |-> <<Header("id", <<"\\", "n", LF>>), Header("id", <<"x">>)>>, body |-> <<LF, LF>>],
     [command |-> "CONNECTED", headers |-> <<Header("id", <<"\\", ":">>)>>, body |-> <<>>]}
MCGarbled ==
    {<<"MESSAGE", LF, "id", ":", "\\", "x", LF, LF, NUL>>, <<"MESSAGE", LF, Length, ":", "x", LF, LF, NUL>>}

\* A step of part p.
Only(p) ==
    /\ part = p
    /\ UNCHANGED part
    /\ IF p = "pipeline" THEN TRUE ELSE UNCHANGED pipelineVars
    /\ IF p = "feeds"    THEN TRUE ELSE UNCHANGED feedVars
    /\ IF p = "frames"   THEN TRUE ELSE UNCHANGED stompVars

MCInit ==
    /\ part \in Parts
    /\ PipelineInit /\ StompInit
    /\ SocketFeedsInit /\ (part # "feeds" => shape = "rest")

MCNext ==
    \/ Only("pipeline") /\ Connect
    \/ Only("pipeline") /\ RetryFires
    \/ Only("pipeline") /\ OnConnected
    \/ Only("pipeline") /\ OnConnectedThrows
    \/ Only("pipeline") /\ ConnectFails
    \/ Only("pipeline") /\ Outage
    \/ Only("pipeline") /\ DeadlineFires
    \/ Only("pipeline") /\ ErrorFrame
    \/ Only("pipeline") /\ Close
    \/ Only("pipeline") /\ UpstreamActs
    \/ Only("pipeline") /\ FlushTimer
    \/ Only("pipeline") /\ WriteDone
    \/ Only("pipeline") /\ DiffDone

    \/ \E r \in FeedRows : Only("feeds") /\ RowChanges(r)
    \/ \E r \in FeedRows : Only("feeds") /\ PageRead(r)
    \/ \E k \in SocketIds, r \in FeedRows : Only("feeds") /\ UpstreamSends(k, r)
    \/ \E k \in SocketIds : Only("feeds") /\ UpstreamSubscribes(k)
    \/ \E k \in SocketIds : Only("feeds") /\ SocketOpens(k)
    \/ \E k \in SocketIds : Only("feeds") /\ OnHandshake(k)
    \/ \E k \in SocketIds : Only("feeds") /\ OnJoined(k)
    \/ \E k \in SocketIds : Only("feeds") /\ JoinRefused(k)
    \/ \E k \in SocketIds : Only("feeds") /\ RowArrives(k)
    \/ \E k \in SocketIds : Only("feeds") /\ SentinelArrives(k)
    \/ \E k \in SocketIds : Only("feeds") /\ StreamEnds(k)
    \/ \E k \in SocketIds : Only("feeds") /\ ClosePacketArrives(k)
    \/ \E k \in SocketIds : Only("feeds") /\ SocketDrops(k)
    \/ Only("feeds") /\ WsDeadline
    \/ Only("feeds") /\ ReconnectFeed
    \/ Only("feeds") /\ PageArrives
    \/ Only("feeds") /\ FetchFails
    \/ Only("feeds") /\ RestDeadline
    \/ Only("feeds") /\ CloseFeed

    \/ \E m \in Messages : Only("frames") /\ BrokerSends(m)
    \/ \E s \in Garbled : Only("frames") /\ BrokerGarbles(s)
    \/ \E s \in Beats : Only("frames") /\ BrokerBeats(s)
    \/ \E n \in 1 .. Len(text) : Only("frames") /\ DataArrives(n)
    \/ Only("frames") /\ ConnectionDrops
    \/ Only("frames") /\ OpenTransport

MCVars == <<part, pipelineVars, feedVars, stompVars>>

\* The fairness the pipeline states for itself.
MCSpec ==
    /\ MCInit /\ [][MCNext]_MCVars
    /\ WF_MCVars(Only("pipeline") /\ RetryFires)
    /\ WF_MCVars(Only("pipeline") /\ DeadlineFires)
    /\ WF_MCVars(Only("pipeline") /\ FlushTimer)
    /\ WF_MCVars(Only("pipeline") /\ WriteDone)
    /\ WF_MCVars(Only("pipeline") /\ DiffDone)
=============================================================================
