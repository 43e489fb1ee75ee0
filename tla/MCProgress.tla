------------------------------ MODULE MCProgress ------------------------------
(* The parts whose progress is checked too: the ladder of a session's flow, *)
(* the subscriptions of two sessions at a hub in a worker or in a sidecar,  *)
(* and the grid that mirrors a view.                                        *)
(* They share no state: a behaviour is of one part, the others stay as they *)
(* began.                                                                   *)
EXTENDS SubscriberFlow, HubSubscriptions, CsrmMirror

CONSTANTS Parts,                               \* the parts a run looks at
          positions, trades, tab1, tab2, whole, slice, blotter, k1, k2

VARIABLE part

MCFeeds == {positions, trades}
MCSessions == {tab1, tab2}
MCRowKeys == {k1, k2}

(* A book, the same book with params, and a blotter too large to be held    *)
(* beside either.                                                           *)
MCKeys == {whole, slice, blotter}
MCPrewarm == {blotter}
MCBareOf == [k \in MCKeys |-> IF k = slice THEN whole ELSE k]
MCBytes == [k \in MCKeys |-> IF k = blotter THEN 2 ELSE 1]

\* What the client of each tab asks for, of a hub in a worker or a sidecar.
Asks(s) ==
    IF s = tab2 THEN {whole}
    ELSE IF part = "worker" THEN {whole, blotter} ELSE {whole, slice}

\* The second tab's client unsubscribes from the worker at will, until it has
\* released what it did not hold.  The first one disconnects, and falls behind;
\* that and the reloads come before the stray release.
MCUnasked == {tab2}
MayStray(s, k) == k \in open[s] \/ (part = "worker" /\ overdrawn = {})

Hubs == {"worker", "sidecar"}

\* A step of part p.
Only(p) ==
    /\ part = p
    /\ UNCHANGED part
    /\ IF p = "flow"   THEN TRUE ELSE UNCHANGED vars
    /\ IF p \in Hubs   THEN TRUE ELSE UNCHANGED hubVars
    /\ IF p = "mirror" THEN TRUE ELSE UNCHANGED mirrorVars

OnHub == part \in Hubs /\ Only(part)

MCInit ==
    /\ part \in Parts
    /\ Init /\ HubInit /\ MirrorInit

MCNext ==
    \/ \E f \in Feeds : Only("flow") /\ Offer(f)
    \/ \E f \in Feeds : Only("flow") /\ Resubscribe(f)
    \/ \E f \in Feeds : Only("flow") /\ ResetFlow(f)
    \/ \E seq \in 0 .. MaxAcked : Only("flow") /\ OnAck(seq)
    \/ Only("flow") /\ Wedge
    \/ Only("flow") /\ Tick

    \/ \E s \in Sessions : \E k \in Asks(s) : OnHub /\ Subscribe(s, k)
    \/ \E s \in Sessions : \E k \in Asks(s) : OnHub /\ MayStray(s, k) /\ Unsubscribe(s, k)
    \/ \E s \in Sessions, k \in Keys : OnHub /\ ResubscribeTab(s, k)
    \/ \E s \in Sessions, k \in Keys : OnHub /\ ResubscribeRefused(s, k)
    \/ \E op \in ops : OnHub /\ EngineAnswers(op)
    \/ \E k \in Keys : OnHub /\ TimerFires(k)
    \/ \E t \in dying : OnHub /\ TeardownDone(t)
    \/ \E k \in Keys : Only("worker") /\ overdrawn = {} /\ DropSlow(tab1, k)
    \/ \E k \in Keys : Only("worker") /\ overdrawn = {} /\ Reload(k)
    \/ Only("worker") /\ ReleaseSession(tab1)
    \/ Only("sidecar") /\ SidecarClose(tab1)
    \/ Only("sidecar") /\ SocketCloses(tab1)

    \/ \E k \in MirrorKeys : Only("mirror") /\ BookChanges(k)
    \/ Only("mirror") /\ StartMirror
    \/ Only("mirror") /\ ViewCreated
    \/ Only("mirror") /\ EngineRegisters
    \/ Only("mirror") /\ EngineReads
    \/ Only("mirror") /\ SnapshotArrives
    \/ Only("mirror") /\ SnapshotFails
    \/ Only("mirror") /\ SnapshotArrivesStopped
    \/ Only("mirror") /\ DeltaArrives
    \/ Only("mirror") /\ StopMirror
    \/ Only("mirror") /\ GridApplies


MCVars == <<part, vars, hubVars, mirrorVars>>

\* The fairness each part states for itself.
MCSpec ==
    /\ MCInit /\ [][MCNext]_MCVars
    /\ WF_MCVars(Only("flow") /\ Tick)
    /\ \A f \in Feeds : WF_MCVars(Only("flow") /\ Offer(f))
    /\ \A s \in Sessions, k \in Keys :
           WF_MCVars(OnHub /\ \E op \in Pending(k) : op.session = s /\ EngineAnswers(op))
    /\ WF_MCVars(OnHub /\ \E t \in dying : TeardownDone(t))
    /\ \A k \in Keys :
           /\ WF_MCVars(OnHub /\ TimerFires(k))
           /\ WF_MCVars(OnHub /\ \E s \in Sessions : ResubscribeTab(s, k) \/ ResubscribeRefused(s, k))
    /\ WF_MCVars(Only("mirror") /\ DeltaArrives)
    /\ WF_MCVars(Only("mirror") /\ GridApplies)

\* Every part keeps the types of its variables.
ProgressTypesOK ==
    /\ part = "flow"   => TypeOK
    /\ part \in Hubs  => HubTypeOK
    /\ part = "mirror" => MirrorTypeOK
=============================================================================
