--------------------------- MODULE DeliveryProofs ----------------------------
(* Proofs about the way of a row from its source to a tab. The recovery of  *)
(* a datasource and the rows it takes, for any number of endpoints,         *)
(* attempts and rows, queues of any length, and either policy of the        *)
(* snapshot; with updates held back during the snapshot, the first live has *)
(* the whole of it. The backpressure ladder, for every set of feeds, limit  *)
(* and grace period: the lag bound and the type invariant hold together;    *)
(* that a drop is earned needs two more facts about the refresh rung, and   *)
(* that batches are paced one about the clock of the last flush. Last, the  *)
(* feeds beside STOMP: what a live one has told the hub, for any rows,      *)
(* sockets, drops and changes.                                              *)
EXTENDS SubscriberFlow, DatasourcePipeline, SocketFeeds, DataLemmas, TLAPS

------------------------------------------------------------------------------
(* The recovery of a datasource: a retry is armed while it is down.         *)

(* A retry that is armed outlives close(), and finds the adapter closed:    *)
(* what close() put there stays, whatever fires or arrives afterwards.      *)
ClosedStays == closed => socket = "closed" /\ astate # "recovering"

RecoveryInv == RecoveryIsArmed /\ ClosedStays

-----------------------------------------------------------------------------
LEMMA RecoveryStarts == PipelineInit => RecoveryInv
BY DEF PipelineInit, RecoveryInv, RecoveryIsArmed, ClosedStays

\* The connection is refused or lost.
LEMMA TransportClosedKeeps ==
    ASSUME RecoveryInv, TransportClosed, socket # "closed"
    PROVE  RecoveryInv'
<1>1. ~closed /\ ~retry /\ astate # "recovering"
    BY DEF RecoveryInv, RecoveryIsArmed, ClosedStays
<1>2. socket' = "closed" /\ UNCHANGED closed
    BY DEF TransportClosed
<1>3. CASE astate = "failed"
    BY <1>1, <1>2, <1>3 DEF TransportClosed, RecoveryInv, RecoveryIsArmed, ClosedStays
<1>4. CASE astate # "failed"
    <2>1. \/ retry' /\ astate' = "recovering"
          \/ astate' = "failed" /\ UNCHANGED retry
        BY <1>4 DEF TransportClosed
    <2> QED BY <2>1, <1>1, <1>2 DEF RecoveryInv, RecoveryIsArmed, ClosedStays
<1> QED BY <1>3, <1>4

\* The state of the adapter moves while a transport is there or wanted.
LEMMA ConnectedKeeps ==
    ASSUME RecoveryInv, UNCHANGED <<closed, retry>>, astate' # "recovering",
           \/ socket # "closed"
           \/ astate # "recovering" /\ ~closed
           \/ astate # "recovering" /\ UNCHANGED socket
    PROVE  RecoveryInv'
BY DEF RecoveryInv, RecoveryIsArmed, ClosedStays

\* Nothing that this is about moves.
LEMMA FramesKeep ==
    ASSUME RecoveryInv, UNCHANGED <<astate, socket, closed, retry>>
    PROVE  RecoveryInv'
BY DEF RecoveryInv, RecoveryIsArmed, ClosedStays

LEMMA UpstreamKeeps == ASSUME RecoveryInv, UpstreamActs PROVE RecoveryInv'
<1>1. ASSUME NEW r \in Rows, SnapshotRow(r) PROVE RecoveryInv'
    BY <1>1, FramesKeep DEF SnapshotRow, Deliver
<1>2. ASSUME NEW r \in Rows, UpdateRow(r) PROVE RecoveryInv'
    BY <1>2, FramesKeep DEF UpdateRow, Deliver, adapterVars
<1>3. CASE CountMismatch
    BY <1>3, ConnectedKeeps DEF CountMismatch, EndFrame, Fail
<1>4. CASE FinishSnapshot
    BY <1>4, ConnectedKeeps DEF FinishSnapshot, EndFrame
<1>5. CASE LateEndFrame
    BY <1>5, FramesKeep DEF LateEndFrame, EndFrame
<1> QED BY <1>1, <1>2, <1>3, <1>4, <1>5 DEF UpstreamActs

LEMMA RecoveryStep == RecoveryInv /\ [PipelineNext]_pipelineVars => RecoveryInv'
<1> SUFFICES ASSUME RecoveryInv, [PipelineNext]_pipelineVars PROVE RecoveryInv'
    OBVIOUS
<1>1. CASE Connect
    BY <1>1, ConnectedKeeps DEF Connect, ConnectTo
<1>2. CASE RetryFires
    <2>1. retry' = FALSE /\ UNCHANGED closed
        BY <1>2 DEF RetryFires
    <2>2. CASE closed
        BY <1>2, <2>1, <2>2 DEF RetryFires, RecoveryInv, RecoveryIsArmed, ClosedStays
    <2>3. CASE ~closed
        BY <1>2, <2>1, <2>3 DEF RetryFires, ConnectTo, RecoveryInv, RecoveryIsArmed, ClosedStays
    <2> QED BY <2>2, <2>3
<1>3. CASE OnConnected \/ OnConnectedThrows
    <2>1. Subscribed
        BY <1>3 DEF OnConnected, OnConnectedThrows
    <2> QED BY <2>1, ConnectedKeeps DEF Subscribed
<1>4. CASE ConnectFails \/ Outage
    BY <1>4, TransportClosedKeeps DEF ConnectFails, Outage
<1>5. CASE DeadlineFires
    <2>1. CASE astate = "snapshotting"
        BY <1>5, <2>1, ConnectedKeeps DEF DeadlineFires, Fail
    <2>2. CASE astate # "snapshotting"
        BY <1>5, <2>2, FramesKeep DEF DeadlineFires
    <2> QED BY <2>1, <2>2
<1>6. CASE ErrorFrame
    BY <1>6, ConnectedKeeps DEF ErrorFrame, Fail
<1>7. CASE Close
    BY <1>7 DEF Close, RecoveryInv, RecoveryIsArmed, ClosedStays
<1>8. CASE UpstreamActs
    BY <1>8, UpstreamKeeps
<1>9. CASE FlushTimer \/ WriteDone \/ DiffDone
    BY <1>9, FramesKeep DEF FlushTimer, WriteDone, DiffDone, adapterVars
<1>10. CASE UNCHANGED pipelineVars
    BY <1>10, FramesKeep DEF pipelineVars, adapterVars
<1> QED BY <1>1, <1>2, <1>3, <1>4, <1>5, <1>6, <1>7, <1>8, <1>9, <1>10 DEF PipelineNext

-----------------------------------------------------------------------------
(* scheduleReconnect and the retry it arms (adapters/base.mjs): a           *)
(* datasource that says it recovers does have a retry armed, and an armed   *)
(* retry finds the transport closed, through losses, refusals, errors,      *)
(* deadlines and a close in between.                                        *)
THEOREM RetryIsArmed == PipelineSpec => []RecoveryIsArmed
<1>1. RecoveryInv => RecoveryIsArmed
    BY DEF RecoveryInv
<1> QED BY <1>1, RecoveryStarts, RecoveryStep, PTL DEF PipelineSpec

(* adapter.close (adapters/base.mjs) is final: no timer, frame or callback  *)
(* that was already under way opens the transport of a closed datasource    *)
(* again or makes it recover.                                               *)
THEOREM CloseIsFinal == PipelineSpec => []ClosedStays
<1>1. RecoveryInv => ClosedStays
    BY DEF RecoveryInv
<1> QED BY <1>1, RecoveryStarts, RecoveryStep, PTL DEF PipelineSpec

-----------------------------------------------------------------------------
(* What the actor took is held: the images, batches and tables it works     *)
(* with, and what merging and applying them comes to.                       *)

Content == [Rows -> {Absent} \cup Versions]
Batch == UNION {[keys -> {Absent} \cup Versions] : keys \in SUBSET Rows}
Update == [batch : Batch, live : BOOLEAN]
Base == [ok : BOOLEAN, content : Content]

\* A batch over a table is a table.
LEMMA OverTypes ==
    ASSUME NEW b \in Batch, NEW c \in Content
    PROVE  Over(b, c) \in Content
BY DEF Batch, Content, Over

\* A row that was merged has a last image.
LEMMA LastOf ==
    ASSUME NEW images \in Seq(Image), NEW r, r \in DOMAIN Merge(images)
    PROVE  \E i \in DOMAIN images :
              /\ images[i].row = r
              /\ \A j \in DOMAIN images : images[j].row = r => j <= i
<1>. DEFINE n == Len(images)
            s == {i \in 1 .. n : images[i].row = r}
<1>1. n \in Nat /\ DOMAIN images = 1 .. n OBVIOUS
<1>2. s \in SUBSET (1 .. n) /\ s # {} BY <1>1 DEF Merge
<1>3. PICK m : m = Max(s) OBVIOUS
<1>4. m \in s /\ \A j \in s : j <= m
    <2>. HIDE DEF s, n
    <2>. QED BY <1>1, <1>2, <1>3, MaxIsLargest
<1>. QED BY <1>1, <1>4

\* What mergeBatch leaves of a row is its last image.
LEMMA MergeIs ==
    ASSUME NEW images \in Seq(Image)
    PROVE  /\ Merge(images) \in Batch
           /\ DOMAIN Merge(images) = {images[i].row : i \in DOMAIN images}
           /\ \A i \in DOMAIN images :
                 (\A j \in DOMAIN images : images[j].row = images[i].row => j <= i)
                    => Merge(images)[images[i].row] = images[i].version
<1>1. ASSUME NEW i \in DOMAIN images
      PROVE  images[i].row \in Rows /\ images[i].version \in {Absent} \cup Versions /\ i \in Nat
    <2>1. images[i] \in Image /\ i \in Nat OBVIOUS
    <2>. QED BY <2>1 DEF Image
<1>. DEFINE keys == {images[i].row : i \in DOMAIN images}
            LastAt(r) == CHOOSE i \in DOMAIN images :
                  /\ images[i].row = r
                  /\ \A j \in DOMAIN images : images[j].row = r => j <= i
<1>2. Merge(images) = [r \in keys |-> images[LastAt(r)].version] BY DEF Merge
<1>3. ASSUME NEW r \in keys
      PROVE  /\ LastAt(r) \in DOMAIN images /\ images[LastAt(r)].row = r
             /\ \A j \in DOMAIN images : images[j].row = r => j <= LastAt(r)
    <2>1. r \in DOMAIN Merge(images) BY <1>2
    <2>. QED BY <2>1, LastOf
<1>4. keys \in SUBSET Rows BY <1>1
<1>5. ASSUME NEW r \in keys PROVE images[LastAt(r)].version \in {Absent} \cup Versions
    <2>. HIDE DEF LastAt, keys
    <2>. QED BY <1>1, <1>3
<1>6. Merge(images) \in Batch
    <2>. HIDE DEF LastAt, keys
    <2>1. Merge(images) \in [keys -> {Absent} \cup Versions] BY <1>2, <1>5
    <2>. QED BY <1>4, <2>1 DEF Batch
<1>7. ASSUME NEW i \in DOMAIN images, \A j \in DOMAIN images : images[j].row = images[i].row => j <= i
      PROVE  Merge(images)[images[i].row] = images[i].version
    <2>1. images[i].row \in keys OBVIOUS
    <2>2. PICK m \in DOMAIN images : m = LastAt(images[i].row) BY <1>3, <2>1
    <2>3. images[m].row = images[i].row /\ i <= m BY <1>3, <2>1, <2>2
    <2>4. m = i BY <1>1, <1>7, <2>2, <2>3
    <2>. HIDE DEF LastAt, keys
    <2>. QED BY <1>2, <2>1, <2>2, <2>4
<1>. QED BY <1>2, <1>6, <1>7

\* The same, asked of a row.
LEMMA MergeAt ==
    ASSUME NEW images \in Seq(Image), NEW r, NEW i \in DOMAIN images, images[i].row = r,
           \A j \in DOMAIN images : images[j].row = r => j <= i
    PROVE  r \in DOMAIN Merge(images) /\ Merge(images)[r] = images[i].version
<1>1. \A j \in DOMAIN images : images[j].row = images[i].row => j <= i OBVIOUS
<1>. QED BY <1>1, MergeIs

\* The rows that were merged are those that have an image.
LEMMA MergeHas ==
    ASSUME NEW images, NEW r
    PROVE  r \in DOMAIN Merge(images) <=> \E i \in DOMAIN images : images[i].row = r
BY DEF Merge

\* Merged together, what came later is over what came before.
LEMMA MergeOver ==
    ASSUME NEW a \in Seq(Image), NEW b \in Seq(Image), NEW c \in Content
    PROVE  Over(Merge(a \o b), c) = Over(Merge(b), Over(Merge(a), c))
<1>. DEFINE ab == a \o b
<1>1. /\ ab \in Seq(Image)
      /\ DOMAIN ab = 1 .. (Len(a) + Len(b)) /\ DOMAIN a = 1 .. Len(a) /\ DOMAIN b = 1 .. Len(b)
      /\ Len(a) \in Nat /\ Len(b) \in Nat
      /\ \A i \in DOMAIN a : i \in DOMAIN ab /\ ab[i] = a[i]
      /\ \A i \in DOMAIN b : Len(a) + i \in DOMAIN ab /\ ab[Len(a) + i] = b[i]
      /\ \A j \in DOMAIN ab : j \in DOMAIN a \/ (j > Len(a) /\ j - Len(a) \in DOMAIN b /\ ab[j] = b[j - Len(a)])
    OBVIOUS
<1>. HIDE DEF ab
<1>2. ASSUME NEW r \in Rows
      PROVE  (IF r \in DOMAIN Merge(ab) THEN Merge(ab)[r] ELSE c[r])
             = IF r \in DOMAIN Merge(b) THEN Merge(b)[r]
               ELSE IF r \in DOMAIN Merge(a) THEN Merge(a)[r] ELSE c[r]
    <2>1. CASE r \in DOMAIN Merge(b)
        <3>1. PICK i \in DOMAIN b : b[i].row = r /\ \A j \in DOMAIN b : b[j].row = r => j <= i
            BY <2>1, LastOf
        <3>2. PICK k \in DOMAIN ab : k = Len(a) + i /\ ab[k] = b[i] BY <1>1
        <3>3. ASSUME NEW j \in DOMAIN ab, ab[j].row = r PROVE j <= k
            BY <1>1, <3>1, <3>2, <3>3
        <3>4. Merge(ab)[r] = b[i].version /\ r \in DOMAIN Merge(ab)
            <4>1. ab \in Seq(Image) /\ ab[k].row = r BY <1>1, <3>1, <3>2
            <4>. QED BY <4>1, <3>2, <3>3, MergeAt
        <3>5. Merge(b)[r] = b[i].version BY <3>1, MergeAt
        <3>. QED BY <2>1, <3>4, <3>5
    <2>2. CASE r \notin DOMAIN Merge(b) /\ r \in DOMAIN Merge(a)
        <3>7. r \in DOMAIN Merge(a) BY <2>2
        <3>1. PICK i \in DOMAIN a : a[i].row = r /\ \A j \in DOMAIN a : a[j].row = r => j <= i
            BY <3>7, LastOf
        <3>2. i \in DOMAIN ab /\ ab[i] = a[i] BY <1>1
        <3>0. \A j \in DOMAIN b : b[j].row # r BY <2>2, MergeHas
        <3>3. ASSUME NEW j \in DOMAIN ab, ab[j].row = r PROVE j <= i
            <4>1. j \in DOMAIN a BY <1>1, <3>0, <3>3
            <4>2. a[j].row = r BY <1>1, <3>3, <4>1
            <4>. QED BY <3>1, <4>1, <4>2
        <3>4. Merge(ab)[r] = a[i].version /\ r \in DOMAIN Merge(ab)
            <4>1. ab \in Seq(Image) /\ ab[i].row = r BY <1>1, <3>1, <3>2
            <4>. QED BY <4>1, <3>2, <3>3, MergeAt
        <3>5. Merge(a)[r] = a[i].version BY <3>1, MergeAt
        <3>. QED BY <2>2, <3>4, <3>5
    <2>3. CASE r \notin DOMAIN Merge(b) /\ r \notin DOMAIN Merge(a)
        <3>1. r \notin DOMAIN Merge(ab)
            <4>1. SUFFICES ASSUME NEW j \in DOMAIN ab, ab[j].row = r PROVE FALSE BY MergeHas
            <4>2. j \notin DOMAIN a BY <1>1, <2>3, <4>1, MergeHas
            <4>3. j - Len(a) \in DOMAIN b /\ b[j - Len(a)].row = r BY <1>1, <4>1, <4>2
            <4>. QED BY <2>3, <4>3, MergeHas
        <3>. QED BY <2>3, <3>1
    <2>. QED BY <2>1, <2>2, <2>3
<1>3. PICK ma, mb, mab : ma = Merge(a) /\ mb = Merge(b) /\ mab = Merge(ab) OBVIOUS
<1>4. ASSUME NEW r \in Rows
      PROVE  (IF r \in DOMAIN mab THEN mab[r] ELSE c[r])
             = IF r \in DOMAIN mb THEN mb[r]
               ELSE IF r \in DOMAIN ma THEN ma[r] ELSE c[r]
    BY <1>2, <1>3
<1>5. PICK f \in Content : f = Over(ma, c) BY <1>3, MergeIs, OverTypes
<1>6. \A r \in Rows : f[r] = IF r \in DOMAIN ma THEN ma[r] ELSE c[r] BY <1>5 DEF Over
<1>7. Over(mab, c) = Over(mb, f)
    BY <1>4, <1>6 DEF Over
<1>. QED BY <1>3, <1>5, <1>7 DEF ab

\* No image changes nothing.
LEMMA MergeNone ==
    ASSUME NEW c \in Content
    PROVE  Over(Merge(<<>>), c) = c
<1>1. Merge(<<>>) = [r \in {} |-> 0] 
    BY DEF Merge
<1>. QED BY <1>1 DEF Over, Content

(* v has the contents after each of the updates, one by one.                *)
IsTaken(v, c, us) ==
    /\ v[0] = c
    /\ \A m \in 1 .. Len(us) : v[m] = Over(us[m].batch, v[m - 1])

\* Taking the updates is taking them one by one.
LEMMA TakenSteps ==
    ASSUME NEW c \in Content, NEW us \in Seq(Update)
    PROVE  \E v \in [0 .. Len(us) -> Content] : IsTaken(v, c, us) /\ Taken(c, us) = v[Len(us)]
<1>. DEFINE n == Len(us)
            Is(it) == it = [s \in SUBSET (1 .. n) |-> IF s = {} THEN c ELSE Over(us[Max(s)].batch, it[s \ {Max(s)}])]
            iter == CHOOSE it : Is(it)
            G == [x \in Content \X (1 .. n) |-> Over(us[x[2]].batch, x[1])]
<1>1. n \in Nat /\ DOMAIN us = 1 .. n OBVIOUS
<1>2. Taken(c, us) = iter[1 .. n]
    BY <1>1 DEF Taken, FoldLeft, MapThenFoldSet
<1>3. ASSUME NEW a \in Content, NEW i \in 1 .. n PROVE Over(us[i].batch, a) \in Content
    <2>1. us[i] \in Update BY <1>1
    <2>2. us[i].batch \in Batch BY <2>1 DEF Update
    <2>. QED BY <2>2, OverTypes
<1>4. /\ G \in [Content \X (1 .. n) -> Content]
      /\ \A a \in Content, i \in 1 .. n : G[<<a, i>>] = Over(us[i].batch, a)
    <2>. HIDE DEF n
    <2>. QED BY <1>3
<1>5. ASSUME NEW s \in SUBSET (1 .. n), s # {} PROVE Max(s) \in 1 .. n
    BY <1>1, <1>5, MaxIsLargest
<1>6. PICK it \in [SUBSET (1 .. n) -> Content] : IsIteration(it, c, G, n)
    <2>. HIDE DEF n, G
    <2>. QED BY <1>1, <1>4, IterationExists
<1>. HIDE DEF G
<1>7. Is(it)
    <2>1. ASSUME NEW s \in SUBSET (1 .. n), s # {}
          PROVE  G[<<it[s \ {Max(s)}], Max(s)>>] = Over(us[Max(s)].batch, it[s \ {Max(s)}])
        <3>1. s \ {Max(s)} \in SUBSET (1 .. n) OBVIOUS
        <3>. HIDE DEF n
        <3>. QED BY <1>4, <1>5, <1>6, <2>1, <3>1
    <2>. HIDE DEF n
    <2>. QED BY <1>6, <2>1 DEF IsIteration
<1>8. Is(iter)
    <2>. HIDE DEF Is
    <2>. QED BY <1>7
<1>9. PICK v \in [0 .. n -> Content] : IsRun(v, c, G, n) /\ v[n] = iter[1 .. n]
    <2>1. iter[{}] = c BY <1>8
    <2>2. Follows(iter, Content, G, n)
        <3>. HIDE DEF n, iter
        <3>. QED BY <1>4, <1>5, <1>8 DEF Follows
    <2>3. n \in Nat /\ \A a \in Content, m \in 1 .. n : G[<<a, m>>] \in Content
        <3>. HIDE DEF n
        <3>. QED BY <1>1, <1>3, <1>4
    <2>4. RunsThrough(iter, Content, c, G, n)
        <3>. HIDE DEF n, iter, Is
        <3>. QED BY <2>1, <2>2, <2>3, IterationRuns
    <2>. HIDE DEF iter, Is, n
    <2>. QED BY <2>4 DEF RunsThrough
<1>10. IsTaken(v, c, us)
    <2>1. ASSUME NEW m \in 1 .. n PROVE v[m] = Over(us[m].batch, v[m - 1])
        <3>1. m - 1 \in 0 .. n BY <1>1
        <3>2. v[m - 1] \in Content BY <1>9, <3>1
        <3>3. v[m] = G[<<v[m - 1], m>>] BY <1>9 DEF IsRun
        <3>. HIDE DEF n
        <3>. QED BY <1>4, <3>2, <3>3
    <2>. QED BY <1>9, <2>1 DEF IsTaken, IsRun
<1>. HIDE DEF iter
<1>. QED BY <1>2, <1>9, <1>10

\* No update changes nothing.
LEMMA TakenNone == ASSUME NEW c \in Content PROVE Taken(c, <<>>) = c
<1>1. <<>> \in Seq(Update) /\ Len(<<>>) = 0 OBVIOUS
<1>2. PICK us \in Seq(Update) : us = <<>> BY <1>1
<1>3. Len(us) = 0 BY <1>2
<1>4. PICK v \in [0 .. Len(us) -> Content] : IsTaken(v, c, us) /\ Taken(c, us) = v[Len(us)] BY TakenSteps
<1>5. Taken(c, us) = c BY <1>3, <1>4 DEF IsTaken
<1>. QED BY <1>2, <1>5

\* A further update goes over what the others leave.
LEMMA TakenAppend ==
    ASSUME NEW c \in Content, NEW us \in Seq(Update), NEW u \in Update
    PROVE  Taken(c, us) \in Content /\ Taken(c, Append(us, u)) = Over(u.batch, Taken(c, us))
<1>. DEFINE n == Len(us)
<1>1. PICK more \in Seq(Update) : more = Append(us, u) BY AppendProperties
<1>2. n \in Nat /\ Len(more) = n + 1 /\ more[n + 1] = u /\ \A m \in 1 .. n : more[m] = us[m]
    BY <1>1
<1>3. PICK v \in [0 .. n -> Content] : IsTaken(v, c, us) /\ Taken(c, us) = v[n] BY TakenSteps
<1>4. PICK w \in [0 .. Len(more) -> Content] : IsTaken(w, c, more) /\ Taken(c, more) = w[Len(more)]
    BY TakenSteps
<1>. HIDE DEF n
<1>5. \A m \in 1 .. n : v[m] = Over(us[m].batch, v[m - 1]) BY <1>3 DEF IsTaken, n
<1>6. \A m \in 1 .. (n + 1) : w[m] = Over(more[m].batch, w[m - 1]) BY <1>2, <1>4 DEF IsTaken
<1>. DEFINE Good == {m \in Nat : m <= n => w[m] = v[m]}
<1>7. 0 \in Good BY <1>3, <1>4 DEF IsTaken
<1>8. ASSUME NEW m \in Nat, m \in Good PROVE m + 1 \in Good
    <2>1. SUFFICES ASSUME m + 1 <= n PROVE w[m + 1] = v[m + 1] OBVIOUS
    <2>2. w[m] = v[m] BY <1>2, <1>8, <2>1
    <2>3. m + 1 \in 1 .. n /\ m + 1 \in 1 .. (n + 1) /\ (m + 1) - 1 = m BY <1>2, <2>1
    <2>. HIDE DEF Good
    <2>. QED BY <1>2, <1>5, <1>6, <2>2, <2>3
<1>9. n \in Good
    <2>. HIDE DEF Good
    <2>. QED BY <1>2, <1>7, <1>8, Induction
<1>10. w[n] = v[n] /\ n + 1 \in 1 .. (n + 1) /\ (n + 1) - 1 = n BY <1>2, <1>9
<1>11. w[n + 1] = Over(u.batch, v[n]) BY <1>2, <1>6, <1>10
<1>12. v[n] \in Content BY <1>2, <1>3
<1>. QED BY <1>1, <1>2, <1>3, <1>4, <1>11, <1>12

\* The first update can be taken ahead.
LEMMA TakenHead ==
    ASSUME NEW c \in Content, NEW us \in Seq(Update), us # <<>>
    PROVE  /\ Tail(us) \in Seq(Update) /\ Over(Head(us).batch, c) \in Content
           /\ Taken(Over(Head(us).batch, c), Tail(us)) = Taken(c, us)
<1>. DEFINE n == Len(us)
<1>1. PICK rest \in Seq(Update) : rest = Tail(us) BY HeadTailProperties
<1>2. PICK first \in Update : first = Head(us) OBVIOUS
<1>3. /\ n \in Nat /\ 1 <= n /\ Len(rest) = n - 1 /\ us[1] = first
      /\ \A m \in 1 .. (n - 1) : rest[m] = us[m + 1]
    BY <1>1, <1>2
<1>4. PICK b \in Content : b = Over(first.batch, c)
    BY OverTypes DEF Update
<1>5. PICK v \in [0 .. n -> Content] : IsTaken(v, c, us) /\ Taken(c, us) = v[n] BY TakenSteps
<1>6. PICK w \in [0 .. Len(rest) -> Content] : IsTaken(w, b, rest) /\ Taken(b, rest) = w[Len(rest)]
    BY TakenSteps
<1>7. v[0] = c /\ w[0] = b BY <1>5, <1>6 DEF IsTaken
<1>8. \A m \in 1 .. n : v[m] = Over(us[m].batch, v[m - 1]) BY <1>5 DEF IsTaken
<1>. HIDE DEF n
<1>9. \A m \in 1 .. (n - 1) : w[m] = Over(rest[m].batch, w[m - 1]) BY <1>3, <1>6 DEF IsTaken
<1>. DEFINE Good == {m \in Nat : m <= n - 1 => w[m] = v[m + 1]}
<1>10. 0 \in Good
    <2>1. 1 \in 1 .. n /\ 1 - 1 = 0 /\ 0 + 1 = 1 BY <1>3
    <2>2. v[1] = b BY <1>3, <1>4, <1>7, <1>8, <2>1
    <2>. QED BY <1>7, <2>1, <2>2
<1>11. ASSUME NEW m \in Nat, m \in Good PROVE m + 1 \in Good
    <2>1. SUFFICES ASSUME m + 1 <= n - 1 PROVE w[m + 1] = v[(m + 1) + 1] OBVIOUS
    <2>2. w[m] = v[m + 1] BY <1>3, <1>11, <2>1
    <2>3. /\ m + 1 \in 1 .. (n - 1) /\ (m + 1) + 1 \in 1 .. n
          /\ (m + 1) - 1 = m /\ ((m + 1) + 1) - 1 = m + 1
        BY <1>3, <2>1
    <2>. HIDE DEF Good
    <2>4. w[m + 1] = Over(rest[m + 1].batch, w[m]) BY <1>9, <2>3
    <2>5. v[(m + 1) + 1] = Over(us[(m + 1) + 1].batch, v[m + 1]) BY <1>8, <2>3
    <2>6. rest[m + 1] = us[(m + 1) + 1] BY <1>3, <2>3
    <2>. QED BY <2>2, <2>4, <2>5, <2>6
<1>12. n - 1 \in Nat BY <1>3
<1>13. n - 1 \in Good
    <2>. HIDE DEF Good
    <2>. QED BY <1>10, <1>11, <1>12, Induction
<1>14. w[n - 1] = v[n] 
    <2>1. (n - 1) + 1 = n BY <1>3
    <2>. QED BY <1>12, <1>13, <2>1
<1>. QED BY <1>1, <1>2, <1>3, <1>4, <1>5, <1>6, <1>14

\* The removals are images, one for each row that is missing.
LEMMA RemovalsTyped == Removals \in Seq(Image)
<1>. DEFINE s == {[row |-> r, version |-> Absent] : r \in Missing}
<1>1. IsFiniteSet(Missing)
    <2>1. Missing \in SUBSET Rows BY DEF Missing
    <2>. QED BY <2>1, FS_Subset, PipelineAssumption
<1>2. IsFiniteSet(s)
    <2>. DEFINE f == [r \in Missing |-> [row |-> r, version |-> Absent]]
    <2>1. IsFiniteSet(Missing) /\ f \in Surjection(Missing, s)
        BY <1>1 DEF Surjection
    <2>. QED BY <2>1, FS_Surjection
<1>3. s \in SUBSET Image BY DEF Missing, Image
<1>. HIDE DEF s
<1>4. PICK n \in Nat : n = Cardinality(s) BY <1>2, FS_CardinalityType
<1>5. ExistsBijection(1 .. n, s) BY <1>2, <1>4, FS_CountingElements, FS_NatBijection
<1>6. PICK f \in [1 .. n -> s] : IsInjective(f)
    BY <1>5 DEF ExistsBijection, Bijection, Injection, IsInjective
<1>7. PICK g : g = SetToSeq(s) OBVIOUS
<1>8. g \in [1 .. n -> s]
    BY <1>4, <1>6, <1>7 DEF SetToSeq
<1>9. g \in Seq(Image) BY <1>3, <1>8
<1>. QED BY <1>7, <1>9 DEF Removals, s

-----------------------------------------------------------------------------
(* The invariant.  A buffer is kept only while the actor is buffering,      *)
(* without which a row would overtake those that wait in it.                *)

AdapterTyped ==
    /\ book \in [Rows -> Versions]
    /\ serving \in BOOLEAN
    /\ toSend \in SUBSET Rows
    /\ astate \in States
    /\ socket \in {"closed", "opening", "subscribed"}
    /\ closed \in BOOLEAN /\ deadline \in BOOLEAN /\ retry \in BOOLEAN
    /\ attempt \in 0..MaxAttempts \/ attempt = 1
    /\ url \in 1..Urls
    /\ received \in Nat
    /\ published \in States
    /\ seen \in SUBSET Rows

Differ == [active : BOOLEAN, rows : Seq(Image), base : Base, ending : BOOLEAN, against : Base]

ActorTyped ==
    /\ actor \in {"idle", "snapshotting", "live"}
    /\ buffering \in BOOLEAN /\ flushDue \in BOOLEAN /\ written \in BOOLEAN
    /\ buffer \in Seq(Image)
    /\ queue \in Seq(Image)
    /\ differ \in Differ
    /\ writes \in Seq(Update)
    /\ table \in Content /\ accepted \in Content /\ sealed \in Content

BufferIsOpen == ~buffering => buffer = <<>>

ActorInv == ActorTyped /\ BufferIsOpen /\ AcceptedIsHeld

\* What is assumed of the constants, as the steps use it.
LEMMA ConstantsTyped ==
    /\ MaxVersion \in Nat \ {0} /\ QueueLimit \in Nat /\ MaxRows \in Nat
    /\ MaxAttempts \in Nat /\ Urls \in Nat \ {0} /\ 1 \in Versions
    /\ Empty \in Content
<1>1. MaxVersion \in Nat \ {0} BY PipelineAssumption
<1>. QED BY <1>1, PipelineAssumption DEF Versions, Empty, Content

\* What a re-snapshot is compared with.
LEMMA BasesTyped == ASSUME ActorTyped PROVE Read(table) \in Base /\ Unread \in Base
<1>1. table \in Content /\ Empty \in Content BY ConstantsTyped DEF ActorTyped
<1>2. Read(table) \in Base BY <1>1 DEF Read, Base
<1>3. Unread \in Base BY <1>1 DEF Unread, Base
<1>. QED BY <1>2, <1>3

\* The engine will have a table.
LEMMA TakenTyped == ASSUME ActorTyped PROVE Taken(table, writes) \in Content
<1>1. table \in Content /\ writes \in Seq(Update) BY DEF ActorTyped
<1>2. PICK v \in [0 .. Len(writes) -> Content] : Taken(table, writes) = v[Len(writes)]
    BY <1>1, TakenSteps
<1>3. Len(writes) \in 0 .. Len(writes) BY <1>1
<1>. QED BY <1>2, <1>3

\* What is flushed goes to the engine, over what it has already.
LEMMA FlushTakes ==
    ASSUME ActorTyped, NEW images \in Seq(Image), NEW live \in BOOLEAN, Flush(images, live), table' = table
    PROVE  /\ queue' = <<>> /\ queue' \in Seq(Image) /\ flushDue' \in BOOLEAN /\ written' \in BOOLEAN
           /\ writes' \in Seq(Update)
           /\ Taken(table', writes') = Over(Merge(images), Taken(table, writes))
<1>1. table \in Content /\ writes \in Seq(Update) /\ written \in BOOLEAN BY DEF ActorTyped
<1>2. queue' = <<>> /\ flushDue' = FALSE /\ written' = (written \/ images # <<>>) BY DEF Flush
<1>3. CASE images = <<>>
    <2>1. writes' = writes BY <1>3 DEF Flush
    <2>2. Over(Merge(images), Taken(table, writes)) = Taken(table, writes)
        BY <1>3, TakenTyped, MergeNone
    <2>3. Taken(table', writes') = Taken(table, writes) BY <2>1
    <2>4. queue' \in Seq(Image) /\ writes' \in Seq(Update) /\ written' \in BOOLEAN BY <1>1, <1>2, <2>1
    <2>. QED BY <1>2, <2>2, <2>3, <2>4
<1>4. CASE images # <<>>
    <2>1. PICK u : u = [batch |-> Merge(images), live |-> live] OBVIOUS
    <2>2. u \in Update /\ u.batch = Merge(images) BY <2>1, MergeIs DEF Update
    <2>3. writes' = Append(writes, u) BY <1>4, <2>1 DEF Flush
    <2>4. writes' \in Seq(Update) BY <1>1, <2>2, <2>3, AppendProperties
    <2>5. Taken(table, Append(writes, u)) = Over(u.batch, Taken(table, writes)) BY <1>1, <2>2, TakenAppend
    <2>6. written' \in BOOLEAN BY <1>1, <1>2
    <2>7. Taken(table', writes') = Over(Merge(images), Taken(table, writes)) BY <2>2, <2>3, <2>5
    <2>8. queue' \in Seq(Image) BY <1>2
    <2>. QED BY <1>2, <2>4, <2>6, <2>7, <2>8
<1>. QED BY <1>3, <1>4

\* Nothing is left to hold back: what was accepted is with the engine.
LEMMA AllTaken ==
    ASSUME ActorTyped', buffer' = <<>>, queue' = <<>>, accepted' = Taken(table', writes')
    PROVE  AcceptedIsHeld'
<1>1. Taken(table', writes') \in Content BY DEF ActorTyped
<1>2. queue' \o buffer' = <<>> OBVIOUS
<1>. QED BY <1>1, <1>2, MergeNone DEF AcceptedIsHeld

\* A step that moves no row, or closes the actor.
LEMMA SameHeld ==
    ASSUME ActorInv, closed => closed', buffer' = buffer, queue' = queue, writes' = writes, table' = table,
           buffering' = buffering, accepted' = accepted
    PROVE  BufferIsOpen' /\ AcceptedIsHeld'
BY DEF ActorInv, BufferIsOpen, AcceptedIsHeld

\* A step of the adapter alone.
LEMMA SameActor ==
    ASSUME ActorInv, closed => closed', UNCHANGED <<actorVars, differ, engineVars, pipelineHistory>>
    PROVE  ActorInv'
BY SameHeld DEF ActorInv, ActorTyped, actorVars, engineVars, pipelineHistory

\* Refused, buffered, queued or flushed, the rows pushed come after the others.
LEMMA PushKeeps ==
    ASSUME ActorInv, NEW images \in Seq(Image), Push(images),
           closed' = closed, actor' = actor, buffering' = buffering, table' = table, sealed' = sealed,
           differ' = differ
    PROVE  ActorInv'
<1>. DEFINE T == Taken(table, writes)
<1>0. /\ ActorTyped /\ buffer \in Seq(Image) /\ queue \in Seq(Image) /\ T \in Content
      /\ accepted \in Content /\ Merge(images) \in Batch
    BY TakenTyped, MergeIs DEF ActorInv, ActorTyped
<1>1. CASE Len(queue) + Len(images) > QueueLimit
    <2>1. UNCHANGED <<buffer, queue, flushDue, written, writes, accepted>> BY <1>1 DEF Push
    <2>2. ActorTyped' BY <1>0, <2>1 DEF ActorTyped
    <2>. QED BY <2>1, <2>2, SameHeld DEF ActorInv
<1>2. CASE ~(Len(queue) + Len(images) > QueueLimit)
    <2>1. accepted' = Over(Merge(images), accepted) /\ accepted' \in Content
        BY <1>0, <1>2, OverTypes DEF Push
    <2>2. CASE buffering
        <3>1. buffer' = buffer \o images /\ UNCHANGED <<queue, flushDue, written, writes>>
            BY <1>2, <2>2 DEF Push
        <3>2. buffer' \in Seq(Image) BY <1>0, <3>1
        <3>3. ActorTyped' BY <1>0, <2>1, <3>1, <3>2 DEF ActorTyped
        <3>4. queue \o buffer \in Seq(Image) /\ queue \o (buffer \o images) = (queue \o buffer) \o images
            BY <1>0, ConcatProperties, ConcatAssociative
        <3>5. ASSUME ~closed PROVE accepted' = Over(Merge((queue \o buffer) \o images), T)
            <4>1. accepted = Over(Merge(queue \o buffer), T) BY <3>5 DEF ActorInv, AcceptedIsHeld
            <4>. QED BY <1>0, <2>1, <3>4, <4>1, MergeOver
        <3>6. AcceptedIsHeld' BY <3>1, <3>4, <3>5 DEF AcceptedIsHeld
        <3>7. BufferIsOpen' BY <2>2 DEF BufferIsOpen
        <3>. QED BY <3>3, <3>6, <3>7 DEF ActorInv
    <2>3. CASE ~buffering
        <3>0. buffer' = buffer /\ buffer = <<>> /\ Enqueue(images)
            BY <1>2, <2>3 DEF Push, ActorInv, BufferIsOpen
        <3>1. queue \o images \in Seq(Image) /\ queue \o buffer = queue BY <1>0, <3>0
        <3>2. ASSUME ~closed PROVE accepted' = Over(Merge(queue \o images), T)
            <4>1. accepted = Over(Merge(queue), T) BY <3>1, <3>2 DEF ActorInv, AcceptedIsHeld
            <4>. QED BY <1>0, <2>1, <4>1, MergeOver
        <3>3. CASE Len(queue \o images) >= MaxRows
            <4>1. Flush(queue \o images, FALSE) BY <3>0, <3>3 DEF Enqueue
            <4>2. /\ queue' = <<>> /\ queue' \in Seq(Image) /\ flushDue' \in BOOLEAN /\ written' \in BOOLEAN
                  /\ writes' \in Seq(Update)
                  /\ Taken(table', writes') = Over(Merge(queue \o images), T)
                BY <1>0, <3>1, <4>1, FlushTakes
            <4>3. ActorTyped' BY <1>0, <2>1, <3>0, <4>2 DEF ActorTyped
            <4>4. ~closed => AcceptedIsHeld' BY <3>0, <3>2, <4>2, <4>3, AllTaken
            <4>5. AcceptedIsHeld' BY <4>4 DEF AcceptedIsHeld
            <4>. QED BY <3>0, <4>3, <4>5 DEF ActorInv, BufferIsOpen
        <3>4. CASE ~(Len(queue \o images) >= MaxRows)
            <4>1. queue' = queue \o images /\ flushDue' = TRUE /\ UNCHANGED <<written, writes>>
                BY <3>0, <3>4 DEF Enqueue
            <4>2. ActorTyped' BY <1>0, <2>1, <3>0, <3>1, <4>1 DEF ActorTyped
            <4>3. queue' \o buffer' = queue \o images BY <3>0, <3>1, <4>1
            <4>4. AcceptedIsHeld' BY <3>2, <4>1, <4>3 DEF AcceptedIsHeld
            <4>. QED BY <3>0, <4>2, <4>4 DEF ActorInv, BufferIsOpen
        <3>. QED BY <3>3, <3>4
    <2>. QED BY <2>2, <2>3
<1>. QED BY <1>1, <1>2

\* A row goes to the differ or to the actor.
LEMMA DeliverKeeps ==
    ASSUME ActorInv, NEW image \in Image, Deliver(image)
    PROVE  ActorInv'
<1>1. /\ UNCHANGED <<closed, actor, buffering, table, sealed>>
      /\ IF differ.active
         THEN /\ differ' = [differ EXCEPT !.rows = Append(@, image)]
              /\ UNCHANGED <<buffer, queue, flushDue, written, writes, accepted>>
         ELSE Push(<<image>>) /\ UNCHANGED differ
    BY DEF Deliver
<1>2. CASE differ.active
    <2>0. differ \in Differ /\ differ.rows \in Seq(Image) BY DEF ActorInv, ActorTyped, Differ
    <2>1. Append(differ.rows, image) \in Seq(Image) BY <2>0, AppendProperties
    <2>2. differ' = [differ EXCEPT !.rows = Append(differ.rows, image)] BY <1>1, <1>2
    <2>3. differ' \in Differ BY <2>0, <2>1, <2>2 DEF Differ
    <2>4. ActorTyped' BY <1>1, <1>2, <2>3 DEF ActorInv, ActorTyped
    <2>. QED BY <1>1, <1>2, <2>4, SameHeld DEF ActorInv
<1>3. CASE ~differ.active
    <2>1. <<image>> \in Seq(Image) OBVIOUS
    <2>. QED BY <1>1, <1>3, <2>1, PushKeeps
<1>. QED BY <1>2, <1>3

\* The end of a snapshot flushes the queue, the buffer and the diff.
LEMMA EndSnapshotKeeps ==
    ASSUME ActorInv, NEW images \in Seq(Image), EndSnapshot(images), differ' \in Differ,
           closed' = closed, table' = table, sealed' \in Content,
           accepted' = Over(Merge(images), accepted)
    PROVE  ActorInv'
<1>. DEFINE T == Taken(table, writes)
            all == queue \o buffer \o images
<1>0. /\ ActorTyped /\ buffer \in Seq(Image) /\ queue \in Seq(Image) /\ T \in Content
      /\ accepted \in Content /\ accepted' \in Content
      /\ actor \in {"idle", "snapshotting", "live"}
    BY TakenTyped, MergeIs, OverTypes DEF ActorInv, ActorTyped
<1>1. queue \o buffer \in Seq(Image) /\ all \in Seq(Image) BY <1>0, ConcatProperties
<1>2. Flush(all, TRUE) /\ buffering' = FALSE /\ buffer' = <<>> /\ actor' \in {actor, "live"}
    BY DEF EndSnapshot
<1>. HIDE DEF all
<1>3. /\ queue' = <<>> /\ queue' \in Seq(Image) /\ flushDue' \in BOOLEAN /\ written' \in BOOLEAN
      /\ writes' \in Seq(Update) /\ Taken(table', writes') = Over(Merge(all), T)
    BY <1>0, <1>1, <1>2, FlushTakes
<1>9. buffer' = <<>> /\ buffering' = FALSE BY <1>2
<1>10. buffering' \in BOOLEAN BY <1>9
<1>4. buffer' \in Seq(Image) BY <1>9
<1>5. ActorTyped' BY <1>0, <1>2, <1>3, <1>4, <1>10 DEF ActorTyped
<1>6. ASSUME ~closed PROVE accepted' = Over(Merge(all), T)
    <2>1. accepted = Over(Merge(queue \o buffer), T) BY <1>6 DEF ActorInv, AcceptedIsHeld
    <2>. QED BY <1>0, <1>1, <2>1, MergeOver DEF all
<1>7. ~closed => AcceptedIsHeld' BY <1>2, <1>3, <1>5, <1>6, AllTaken
<1>8. AcceptedIsHeld' BY <1>7 DEF AcceptedIsHeld
<1>. QED BY <1>2, <1>5, <1>8 DEF ActorInv, BufferIsOpen

\* The snapshot has come in whole.
LEMMA FinishKeeps == ASSUME ActorInv, FinishSnapshot PROVE ActorInv'
<1>0. /\ ActorTyped /\ UNCHANGED <<closed, table, accepted>> /\ sealed' = accepted
      /\ accepted \in Content /\ sealed' \in Content /\ differ \in Differ
    BY DEF ActorInv, ActorTyped, FinishSnapshot, EndFrame
<1>1. CASE actor = "snapshotting" /\ ~differ.active
    <2>1. EndSnapshot(<<>>) /\ UNCHANGED differ BY <1>1 DEF FinishSnapshot
    <2>2. <<>> \in Seq(Image) OBVIOUS
    <2>3. accepted' = Over(Merge(<<>>), accepted) BY <1>0, MergeNone
    <2>. QED BY <1>0, <2>1, <2>2, <2>3, EndSnapshotKeeps
<1>2. CASE actor = "snapshotting" /\ differ.active
    <2>1. /\ differ' = [differ EXCEPT !.active = FALSE, !.ending = TRUE, !.against = differ.base]
          /\ UNCHANGED <<actorVars, writes>>
        BY <1>2 DEF FinishSnapshot
    <2>2. differ' \in Differ BY <1>0, <2>1 DEF Differ
    <2>3. ActorTyped' BY <1>0, <2>1, <2>2 DEF ActorTyped, actorVars
    <2>. QED BY <1>0, <2>1, <2>3, SameHeld DEF ActorInv, actorVars
<1>3. CASE actor = "live"
    <2>1. UNCHANGED <<actorVars, writes, differ>> BY <1>3 DEF FinishSnapshot
    <2>2. ActorTyped' BY <1>0, <2>1 DEF ActorTyped, actorVars
    <2>. QED BY <1>0, <2>1, <2>2, SameHeld DEF ActorInv, actorVars
<1>. QED BY <1>1, <1>2, <1>3 DEF FinishSnapshot

\* The diff of a re-snapshot is pushed and ends it.
LEMMA DiffDoneKeeps == ASSUME ActorInv, DiffDone PROVE ActorInv'
<1>. DEFINE diff == Upserts \o Removals
            rows == IF Len(queue) + Len(diff) > QueueLimit THEN <<>> ELSE diff
            T == Taken(table, writes)
<1>0. /\ ActorTyped /\ buffer \in Seq(Image) /\ queue \in Seq(Image) /\ T \in Content
      /\ accepted \in Content /\ differ \in Differ /\ sealed \in Content
      /\ actor \in {"idle", "snapshotting", "live"}
    BY TakenTyped DEF ActorInv, ActorTyped
<1>1. Upserts \in Seq(Image)
    <2>1. differ.rows \in Seq(Image) BY <1>0 DEF Differ
    <2>. QED BY <2>1, KeptIsPicked DEF Upserts
<1>2. rows \in Seq(Image)
    <2>1. diff \in Seq(Image) BY <1>1, RemovalsTyped, ConcatProperties
    <2>. QED BY <2>1
<1>3. /\ differ' = [differ EXCEPT !.ending = FALSE, !.rows = <<>>, !.base = Unread]
      /\ IF ~buffering /\ rows # <<>> /\ Len(queue \o rows) >= MaxRows
         THEN Flush(queue \o rows, FALSE) /\ actor' = "live" /\ UNCHANGED <<buffering, buffer>>
         ELSE EndSnapshot(rows)
      /\ accepted' = Over(Merge(rows), accepted)
      /\ UNCHANGED <<closed, table, sealed>>
    BY DEF DiffDone, adapterVars
<1>. HIDE DEF rows
<1>4. differ' \in Differ
    <2>1. Unread \in Base BY ConstantsTyped DEF Unread, Base
    <2>2. <<>> \in Seq(Image) OBVIOUS
    <2>. QED BY <1>0, <1>3, <2>1, <2>2 DEF Differ
<1>5. CASE ~buffering /\ rows # <<>> /\ Len(queue \o rows) >= MaxRows
    <2>1. /\ Flush(queue \o rows, FALSE) /\ actor' = "live" /\ UNCHANGED <<buffering, buffer>>
          /\ buffer = <<>>
        BY <1>3, <1>5 DEF ActorInv, BufferIsOpen
    <2>9. queue \o buffer = queue BY <1>0, <2>1
    <2>2. queue \o rows \in Seq(Image) BY <1>0, <1>2, ConcatProperties
    <2>3. /\ queue' = <<>> /\ queue' \in Seq(Image) /\ flushDue' \in BOOLEAN /\ written' \in BOOLEAN
          /\ writes' \in Seq(Update)
          /\ Taken(table', writes') = Over(Merge(queue \o rows), T)
        BY <1>0, <1>3, <2>1, <2>2, FlushTakes
    <2>4. accepted' \in Content BY <1>0, <1>2, <1>3, MergeIs, OverTypes
    <2>5. ActorTyped' BY <1>0, <1>3, <1>4, <2>1, <2>3, <2>4 DEF ActorTyped
    <2>6. ASSUME ~closed PROVE accepted' = Over(Merge(queue \o rows), T)
        <3>1. accepted = Over(Merge(queue), T) BY <2>9, <2>6 DEF ActorInv, AcceptedIsHeld
        <3>. QED BY <1>0, <1>2, <1>3, <3>1, MergeOver
    <2>7. ~closed => AcceptedIsHeld' BY <2>1, <2>3, <2>5, <2>6, AllTaken
    <2>8. AcceptedIsHeld' BY <1>3, <2>7 DEF AcceptedIsHeld
    <2>. QED BY <2>1, <2>5, <2>8 DEF ActorInv, BufferIsOpen
<1>6. CASE ~(~buffering /\ rows # <<>> /\ Len(queue \o rows) >= MaxRows)
    <2>1. EndSnapshot(rows) BY <1>3, <1>6
    <2>. QED BY <1>0, <1>2, <1>3, <1>4, <2>1, EndSnapshotKeeps
<1>. QED BY <1>5, <1>6

\* The queue goes out while the buffer, which came later, stays.
LEMMA FlushTimerKeeps == ASSUME ActorInv, FlushTimer PROVE ActorInv'
<1>. DEFINE T == Taken(table, writes)
<1>0. /\ ActorTyped /\ buffer \in Seq(Image) /\ queue \in Seq(Image) /\ T \in Content
    BY TakenTyped DEF ActorInv, ActorTyped
<1>1. /\ Flush(queue, FALSE)
      /\ UNCHANGED <<closed, actor, buffering, buffer, differ, table, accepted, sealed>>
    BY DEF FlushTimer, adapterVars, pipelineHistory
<1>2. /\ queue' = <<>> /\ queue' \in Seq(Image) /\ flushDue' \in BOOLEAN /\ written' \in BOOLEAN
      /\ writes' \in Seq(Update)
      /\ Taken(table', writes') = Over(Merge(queue), T)
    BY <1>0, <1>1, FlushTakes
<1>3. ActorTyped' BY <1>0, <1>1, <1>2 DEF ActorTyped
<1>4. Over(Merge(queue \o buffer), T) = Over(Merge(buffer), Over(Merge(queue), T))
    BY <1>0, MergeOver
<1>5. queue' \o buffer' = buffer BY <1>0, <1>1, <1>2
<1>6. AcceptedIsHeld' BY <1>1, <1>2, <1>4, <1>5 DEF ActorInv, AcceptedIsHeld
<1>. QED BY <1>1, <1>3, <1>6 DEF ActorInv, BufferIsOpen

\* The engine finishes its first update.
LEMMA WriteDoneKeeps == ASSUME ActorInv, WriteDone PROVE ActorInv'
<1>0. /\ ActorTyped /\ writes \in Seq(Update) /\ table \in Content
      /\ actor \in {"idle", "snapshotting", "live"}
    BY DEF ActorInv, ActorTyped
<1>1. /\ writes # <<>> /\ table' = Over(Head(writes).batch, table) /\ writes' = Tail(writes)
      /\ actor' \in {actor, "live"}
      /\ UNCHANGED <<closed, buffering, buffer, queue, flushDue, written, differ, accepted, sealed>>
    BY DEF WriteDone, adapterVars, pipelineHistory
<1>2. writes' \in Seq(Update) /\ table' \in Content /\ Taken(table', writes') = Taken(table, writes)
    BY <1>0, <1>1, TakenHead
<1>3. ActorTyped' BY <1>0, <1>1, <1>2 DEF ActorTyped
<1>4. AcceptedIsHeld' BY <1>1, <1>2 DEF ActorInv, AcceptedIsHeld
<1>. QED BY <1>1, <1>3, <1>4 DEF ActorInv, BufferIsOpen

\* A snapshot begins: the rows in an older buffer are given up.
LEMMA OnConnectedKeeps == ASSUME ActorInv, OnConnected PROVE ActorInv'
<1>. DEFINE T == Taken(table, writes)
<1>0. /\ ActorTyped /\ queue \in Seq(Image) /\ T \in Content /\ differ \in Differ /\ table \in Content
      /\ sealed \in Content /\ written \in BOOLEAN
    BY TakenTyped DEF ActorInv, ActorTyped
<1>1. /\ Subscribed /\ buffer' = <<>> /\ buffering' = (Policy = "buffer") /\ actor' = "snapshotting"
      /\ accepted' = Over(Merge(queue), T) /\ UNCHANGED sealed
    BY DEF OnConnected
<1>2. UNCHANGED <<closed, queue, flushDue, written, writes, table>>
    BY <1>1 DEF Subscribed, engineVars
<1>3. differ' \in Differ
    <2>1. CASE written
        <3>1. PICK base \in {Read(table), Unread} :
                  differ' = [differ EXCEPT !.active = TRUE, !.rows = <<>>, !.base = base]
            BY <1>1, <2>1 DEF Subscribed
        <3>2. base \in Base BY <1>0, <3>1, BasesTyped
        <3>3. <<>> \in Seq(Image) OBVIOUS
        <3>. QED BY <1>0, <3>1, <3>2, <3>3 DEF Differ
    <2>2. CASE ~written BY <1>0, <1>1, <2>2 DEF Subscribed
    <2>. QED BY <2>1, <2>2
<1>4. accepted' \in Content /\ buffer' \in Seq(Image) /\ buffering' \in BOOLEAN
    <2>1. accepted' \in Content BY <1>0, <1>1, MergeIs, OverTypes
    <2>2. buffer' \in Seq(Image) /\ buffering' \in BOOLEAN BY <1>1
    <2>. QED BY <2>1, <2>2
<1>5. ActorTyped' BY <1>0, <1>1, <1>2, <1>3, <1>4 DEF ActorTyped
<1>6. queue' \o buffer' = queue BY <1>0, <1>1, <1>2
<1>7. AcceptedIsHeld' BY <1>1, <1>2, <1>6 DEF AcceptedIsHeld
<1>. QED BY <1>1, <1>5, <1>7 DEF ActorInv, BufferIsOpen

\* A live actor refuses to begin one.
LEMMA OnConnectedThrowsKeeps == ASSUME ActorInv, OnConnectedThrows PROVE ActorInv'
<1>0. ActorTyped /\ differ \in Differ /\ table \in Content /\ written \in BOOLEAN
    BY DEF ActorInv, ActorTyped
<1>1. /\ Subscribed /\ UNCHANGED <<actor, buffering, buffer, accepted, sealed>>
    BY DEF OnConnectedThrows, pipelineHistory
<1>2. UNCHANGED <<closed, queue, flushDue, written, writes, table>>
    BY <1>1 DEF Subscribed, engineVars
<1>3. differ' \in Differ
    <2>1. CASE written
        <3>1. PICK base \in {Read(table), Unread} :
                  differ' = [differ EXCEPT !.active = TRUE, !.rows = <<>>, !.base = base]
            BY <1>1, <2>1 DEF Subscribed
        <3>2. base \in Base BY <1>0, <3>1, BasesTyped
        <3>3. <<>> \in Seq(Image) OBVIOUS
        <3>. QED BY <1>0, <3>1, <3>2, <3>3 DEF Differ
    <2>2. CASE ~written BY <1>0, <1>1, <2>2 DEF Subscribed
    <2>. QED BY <2>1, <2>2
<1>4. ActorTyped' BY <1>0, <1>1, <1>2, <1>3 DEF ActorTyped
<1>. QED BY <1>1, <1>2, <1>4, SameHeld DEF ActorInv

\* A closed actor holds nothing.
LEMMA CloseKeeps == ASSUME ActorInv, Close PROVE ActorInv'
<1>1. /\ closed' = TRUE /\ queue' = <<>> /\ buffering' = FALSE /\ buffer' = <<>> /\ flushDue' = FALSE
      /\ UNCHANGED <<actor, written, differ, writes, table, accepted, sealed>>
    BY DEF Close, engineVars, pipelineHistory
<1>2. queue' \in Seq(Image) /\ buffer' \in Seq(Image) BY <1>1
<1>3. ActorTyped' BY <1>1, <1>2 DEF ActorInv, ActorTyped
<1>. QED BY <1>1, <1>3 DEF ActorInv, BufferIsOpen, AcceptedIsHeld

\* A step that leaves the adapter alone.
LEMMA AdapterSame ==
    ASSUME AdapterTyped, UNCHANGED <<upstreamVars, adapterVars, seen>>, published' \in States
    PROVE  AdapterTyped'
BY DEF AdapterTyped, upstreamVars, adapterVars

\* The states there are.
LEMMA StatesAre ==
    {"idle", "connecting", "snapshotting", "live", "recovering", "failed"} \subseteq States
BY DEF States

\* Connecting, failing, closing and the timers.
LEMMA AdapterKeeps ==
    ASSUME AdapterTyped,
           \/ Connect \/ RetryFires \/ OnConnected \/ OnConnectedThrows \/ ConnectFails \/ Outage
           \/ DeadlineFires \/ ErrorFrame \/ Close
    PROVE  AdapterTyped'
<1>1. CASE Connect
    BY <1>1, StatesAre DEF Connect, ConnectTo, AdapterTyped, upstreamVars, pipelineHistory
<1>2. CASE RetryFires
    <2>1. CASE closed
        BY <1>2, <2>1 DEF RetryFires, AdapterTyped, upstreamVars, pipelineHistory
    <2>2. CASE ~closed
        <3>1. /\ ConnectTo /\ retry' = FALSE
              /\ UNCHANGED <<upstreamVars, closed, deadline, attempt, url, seen>>
            BY <1>2, <2>2 DEF RetryFires, pipelineHistory
        <3>. QED BY <3>1, StatesAre DEF ConnectTo, AdapterTyped, upstreamVars
    <2>. QED BY <2>1, <2>2
<1>3. CASE OnConnected
    <2>1. 0 \in 0 .. MaxAttempts BY ConstantsTyped
    <2>. QED BY <1>3, <2>1, StatesAre
         DEF OnConnected, Subscribed, ArmSnapshotTimeout, AdapterTyped
<1>4. CASE OnConnectedThrows
    <2>1. 0 \in 0 .. MaxAttempts BY ConstantsTyped
    <2>. QED BY <1>4, <2>1, StatesAre
         DEF OnConnectedThrows, Subscribed, AdapterTyped, pipelineHistory
<1>5. CASE ConnectFails \/ Outage
    <2>1. /\ socket' = "closed" /\ serving' = FALSE /\ toSend' = {}
          /\ UNCHANGED <<book, closed, deadline, received, seen>>
        BY <1>5 DEF ConnectFails, Outage, TransportClosed, pipelineHistory
    <2>2. /\ astate' \in States /\ published' \in States /\ retry' \in BOOLEAN
          /\ attempt' \in 0 .. MaxAttempts \/ attempt' = 1
          /\ url' \in 1 .. Urls
        <3>0. /\ astate \in States /\ published \in States /\ retry \in BOOLEAN
              /\ (attempt \in 0 .. MaxAttempts \/ attempt = 1) /\ url \in 1 .. Urls
              /\ MaxAttempts \in Nat /\ Urls \in Nat
            BY ConstantsTyped DEF AdapterTyped
        <3>1. \/ UNCHANGED <<astate, published, retry, attempt, url>>
              \/ /\ attempt < MaxAttempts /\ attempt' = attempt + 1 /\ retry' = TRUE
                 /\ astate' = "recovering" /\ published' = "recovering" /\ url' = url
              \/ /\ url < Urls /\ url' = url + 1 /\ attempt' = 1 /\ retry' = TRUE
                 /\ astate' = "recovering" /\ published' = "recovering"
              \/ astate' = "failed" /\ published' = "failed" /\ UNCHANGED <<retry, attempt, url>>
            BY <1>5 DEF ConnectFails, Outage, TransportClosed, NextAttempt, HasFailover
        <3>2. \/ attempt' = attempt
              \/ attempt < MaxAttempts /\ attempt' = attempt + 1
              \/ attempt' = 1
            BY <3>1
        <3>3. attempt' \in 0 .. MaxAttempts \/ attempt' = 1 BY <3>0, <3>2
        <3>4. url' = url \/ (url < Urls /\ url' = url + 1) BY <3>1
        <3>5. url' \in 1 .. Urls BY <3>0, <3>4
        <3>6. astate' \in States /\ published' \in States BY <3>0, <3>1, StatesAre
        <3>7. retry' \in BOOLEAN BY <3>0, <3>1
        <3>. QED BY <3>3, <3>5, <3>6, <3>7
    <2>. QED BY <2>1, <2>2 DEF AdapterTyped
<1>6. CASE DeadlineFires
    BY <1>6, StatesAre DEF DeadlineFires, Fail, AdapterTyped, upstreamVars, pipelineHistory
<1>7. CASE ErrorFrame
    BY <1>7, StatesAre DEF ErrorFrame, Fail, AdapterTyped, upstreamVars, pipelineHistory
<1>8. CASE Close
    BY <1>8, StatesAre DEF Close, AdapterTyped, pipelineHistory
<1>. QED BY <1>1, <1>2, <1>3, <1>4, <1>5, <1>6, <1>7, <1>8

\* Frames.
LEMMA AdapterReceives == ASSUME AdapterTyped, UpstreamActs PROVE AdapterTyped'
<1>1. ASSUME NEW r \in Rows, SnapshotRow(r) PROVE AdapterTyped'
    <2>1. /\ received' \in Nat /\ toSend' \in SUBSET Rows /\ seen' \in SUBSET Rows
        BY <1>1 DEF AdapterTyped, SnapshotRow, Deliver
    <2>. QED BY <1>1, <2>1 DEF AdapterTyped, SnapshotRow, Deliver
<1>2. ASSUME NEW r \in Rows, UpdateRow(r) PROVE AdapterTyped'
    <2>0. book \in [Rows -> Versions] /\ book[r] \in Versions /\ received \in Nat BY DEF AdapterTyped
    <2>1. book' = [book EXCEPT ![r] = @ + 1] /\ book[r] < MaxVersion BY <1>2 DEF UpdateRow
    <2>2. book[r] + 1 \in Versions BY <2>0, <2>1, ConstantsTyped DEF Versions
    <2>3. book' \in [Rows -> Versions]
        <3>. HIDE DEF Versions
        <3>. QED BY <2>0, <2>1, <2>2
    <2>4. /\ UNCHANGED <<serving, toSend, seen, astate, socket, closed, deadline, retry, attempt, url,
                         published>>
          /\ received' \in {received, received + 1}
        BY <1>2 DEF UpdateRow, Deliver, adapterVars
    <2>. QED BY <2>0, <2>3, <2>4 DEF AdapterTyped
<1>3. CASE CountMismatch
    BY <1>3, StatesAre DEF CountMismatch, EndFrame, Fail, AdapterTyped
<1>4. CASE FinishSnapshot
    BY <1>4, StatesAre DEF FinishSnapshot, EndFrame, EndSnapshot, AdapterTyped
<1>5. CASE LateEndFrame
    BY <1>5 DEF LateEndFrame, EndFrame, AdapterTyped
<1>. QED BY <1>1, <1>2, <1>3, <1>4, <1>5 DEF UpstreamActs

\* The invariant of the datasource.
PipelineInv == AdapterTyped /\ ActorInv

\* Nothing is there at first.
LEMMA PipelineStarts == PipelineInit => PipelineInv
<1>. SUFFICES ASSUME PipelineInit PROVE PipelineInv OBVIOUS
<1>0. Empty \in Content /\ Unread \in Base BY ConstantsTyped DEF Unread, Base
<1>1. AdapterTyped
    <2>1. book \in [Rows -> Versions] BY ConstantsTyped DEF PipelineInit
    <2>2. attempt \in 0 .. MaxAttempts /\ url \in 1 .. Urls /\ received \in Nat
        BY ConstantsTyped DEF PipelineInit
    <2>. QED BY <2>1, <2>2, StatesAre DEF PipelineInit, AdapterTyped
<1>2. buffer \in Seq(Image) /\ queue \in Seq(Image) /\ writes \in Seq(Update)
    BY DEF PipelineInit
<1>3. differ \in Differ
    <2>1. <<>> \in Seq(Image) OBVIOUS
    <2>. QED BY <1>0, <2>1 DEF PipelineInit, Differ
<1>4. ActorTyped BY <1>0, <1>2, <1>3 DEF PipelineInit, ActorTyped
<1>5. AcceptedIsHeld
    <2>1. /\ queue \o buffer = <<>> /\ writes = <<>> /\ table = Empty /\ accepted = Empty
        BY DEF PipelineInit
    <2>2. Taken(table, writes) = Empty BY <1>0, <2>1, TakenNone
    <2>. QED BY <1>0, <2>1, <2>2, MergeNone DEF AcceptedIsHeld
<1>. QED BY <1>1, <1>4, <1>5 DEF PipelineInit, PipelineInv, ActorInv, BufferIsOpen

\* An image that is sent is one of a row, as the upstream has it.
LEMMA UpstreamActsKeep == ASSUME PipelineInv, UpstreamActs PROVE ActorInv'
<1>0. ActorInv /\ book \in [Rows -> Versions] BY DEF PipelineInv, AdapterTyped
<1>1. ASSUME NEW r \in Rows, SnapshotRow(r) PROVE ActorInv'
    <2>1. PICK image : image = [row |-> r, version |-> book[r]] OBVIOUS
    <2>2. image \in Image /\ Deliver(image) BY <1>0, <1>1, <2>1 DEF Image, SnapshotRow
    <2>. QED BY <1>0, <2>2, DeliverKeeps
<1>2. ASSUME NEW r \in Rows, UpdateRow(r) PROVE ActorInv'
    <2>0. book' \in [Rows -> Versions]
        <3>1. AdapterTyped' BY <1>2, AdapterReceives DEF PipelineInv, UpstreamActs
        <3>. QED BY <3>1 DEF AdapterTyped
    <2>1. CASE socket = "subscribed"
        <3>1. PICK image : image = [row |-> r, version |-> book'[r]] OBVIOUS
        <3>2. Deliver(image) BY <1>2, <2>1, <3>1 DEF UpdateRow
        <3>3. image \in Image BY <2>0, <3>1 DEF Image
        <3>. QED BY <1>0, <3>2, <3>3, DeliverKeeps
    <2>2. CASE socket # "subscribed"
        BY <1>0, <1>2, <2>2, SameActor DEF UpdateRow, adapterVars, pipelineHistory
    <2>. QED BY <2>1, <2>2
<1>3. CASE CountMismatch
    BY <1>0, <1>3, SameActor DEF CountMismatch, EndFrame, engineVars, pipelineHistory
<1>4. CASE FinishSnapshot BY <1>0, <1>4, FinishKeeps
<1>5. CASE LateEndFrame
    BY <1>0, <1>5, SameActor DEF LateEndFrame, EndFrame, engineVars, pipelineHistory
<1>. QED BY <1>1, <1>2, <1>3, <1>4, <1>5 DEF UpstreamActs

\* Every step keeps the invariant.
LEMMA PipelineStep == PipelineInv /\ [PipelineNext]_pipelineVars => PipelineInv'
<1>. SUFFICES ASSUME PipelineInv, [PipelineNext]_pipelineVars PROVE PipelineInv' OBVIOUS
<1>0. AdapterTyped /\ ActorInv BY DEF PipelineInv
<1>1. CASE Connect \/ RetryFires \/ DeadlineFires \/ ErrorFrame
    <2>1. AdapterTyped' BY <1>0, <1>1, AdapterKeeps
    <2>2. ActorInv'
        BY <1>0, <1>1, SameActor DEF Connect, RetryFires, DeadlineFires, ErrorFrame
    <2>. QED BY <2>1, <2>2 DEF PipelineInv
<1>2. CASE OnConnected
    BY <1>0, <1>2, AdapterKeeps, OnConnectedKeeps DEF PipelineInv
<1>3. CASE OnConnectedThrows
    BY <1>0, <1>3, AdapterKeeps, OnConnectedThrowsKeeps DEF PipelineInv
<1>4. CASE ConnectFails \/ Outage
    <2>1. AdapterTyped' BY <1>0, <1>4, AdapterKeeps
    <2>2. ActorInv' BY <1>0, <1>4, SameActor DEF ConnectFails, Outage, TransportClosed
    <2>. QED BY <2>1, <2>2 DEF PipelineInv
<1>5. CASE Close BY <1>0, <1>5, AdapterKeeps, CloseKeeps DEF PipelineInv
<1>6. CASE UpstreamActs
    BY <1>0, <1>6, AdapterReceives, UpstreamActsKeep DEF PipelineInv
<1>7. CASE FlushTimer
    <2>1. AdapterTyped' BY <1>0, <1>7, AdapterSame DEF FlushTimer, pipelineHistory, AdapterTyped
    <2>. QED BY <1>0, <1>7, <2>1, FlushTimerKeeps DEF PipelineInv
<1>8. CASE WriteDone
    <2>1. AdapterTyped' BY <1>0, <1>8, AdapterSame, StatesAre DEF WriteDone, pipelineHistory, AdapterTyped
    <2>. QED BY <1>0, <1>8, <2>1, WriteDoneKeeps DEF PipelineInv
<1>9. CASE DiffDone
    <2>1. AdapterTyped' BY <1>0, <1>9, AdapterSame, StatesAre DEF DiffDone, AdapterTyped
    <2>. QED BY <1>0, <1>9, <2>1, DiffDoneKeeps DEF PipelineInv
<1>10. CASE UNCHANGED pipelineVars
    <2>1. AdapterTyped' BY <1>0, <1>10, AdapterSame DEF pipelineVars, pipelineHistory, AdapterTyped
    <2>2. ActorInv' BY <1>0, <1>10, SameActor DEF pipelineVars, adapterVars
    <2>. QED BY <2>1, <2>2 DEF PipelineInv
<1>. QED BY <1>1, <1>2, <1>3, <1>4, <1>5, <1>6, <1>7, <1>8, <1>9, <1>10 DEF PipelineNext

-----------------------------------------------------------------------------
\* The invariant holds of every datasource, for either policy.
THEOREM PipelineInvariance == PipelineSpec => []PipelineInv
BY PipelineStarts, PipelineStep, PTL DEF PipelineSpec

\* PipelineTypeOK: the adapter, the actor and the differ keep their types.
THEOREM PipelineTyped == PipelineSpec => []PipelineTypeOK
<1>1. PipelineInv => PipelineTypeOK
    BY DEF PipelineInv, ActorInv, AdapterTyped, ActorTyped, Differ, Content, PipelineTypeOK
<1>. QED BY <1>1, PipelineInvariance, PTL

(* AcceptedIsHeld: through the buffer of a snapshot, the queue, merged      *)
(* batches, re-snapshots and the engine's own queue (push, flush,           *)
(* beginSnapshot and endSnapshot of table_actor.mjs, the differ of          *)
(* reconnect.mjs), no row the actor took is lost or overtaken by an older   *)
(* one, however long the queues are.                                        *)
THEOREM AcceptedRowsAreHeld == PipelineSpec => []AcceptedIsHeld
<1>1. PipelineInv => AcceptedIsHeld BY DEF PipelineInv, ActorInv
<1>. QED BY <1>1, PipelineInvariance, PTL

-----------------------------------------------------------------------------
(* The first connection, and what "live" means on it.  Until the first      *)
(* outage the datasource is before its snapshot, in it or after it.         *)
Unwritten ==
    /\ ~written /\ queue = <<>> /\ writes = <<>> /\ table = Empty
    /\ ~differ.active /\ ~differ.ending

BeforeSnapshot ==
    /\ socket # "subscribed" /\ ~serving /\ toSend = {}
    /\ actor = "idle" /\ astate \notin {"snapshotting", "live"}
    /\ Unwritten

InSnapshot ==
    /\ socket = "subscribed" /\ astate \in {"snapshotting", "failed"}
    /\ actor = "snapshotting" /\ buffering
    /\ Unwritten

\* The snapshot is one write, the first, or it is in the table.
SnapshotIsFirst ==
    \/ actor = "live" /\ \A i \in DOMAIN writes : ~writes[i].live
    \/ /\ actor = "snapshotting"
       /\ writes # <<>> /\ writes[1].live
       /\ \A i \in DOMAIN writes : i # 1 => ~writes[i].live
       /\ Over(writes[1].batch, table) = sealed

AfterSnapshot ==
    /\ socket = "subscribed" /\ astate \in {"live", "failed"}
    /\ ~buffering /\ ~differ.active /\ ~differ.ending
    /\ SnapshotIsFirst

FirstConnection ==
    /\ outages \in Nat
    /\ closed => ~serving /\ socket = "closed"
    /\ retry /\ ~closed => socket = "closed"
    /\ outages = 0 /\ ~closed => BeforeSnapshot \/ InSnapshot \/ AfterSnapshot

FirstInv == PipelineInv /\ FirstConnection

LEMMA FirstStarts == PipelineInit => FirstConnection
BY DEF PipelineInit, FirstConnection, BeforeSnapshot, Unwritten

\* The retry timer and the socket, from the facts about recovery.
LEMMA FirstAdapter ==
    ASSUME FirstConnection, RecoveryInv,
           Connect \/ RetryFires \/ ConnectFails \/ Outage \/ DeadlineFires \/ ErrorFrame \/ Close
    PROVE  FirstConnection'
<1>1. CASE Connect
    BY <1>1 DEF Connect, ConnectTo, FirstConnection, BeforeSnapshot, InSnapshot, AfterSnapshot, Unwritten,
                upstreamVars, actorVars, engineVars, RecoveryInv, RecoveryIsArmed
<1>2. CASE RetryFires
    <2>1. CASE closed
        BY <1>2, <2>1 DEF RetryFires, FirstConnection, upstreamVars, RecoveryInv, ClosedStays
    <2>2. CASE ~closed
        BY <1>2, <2>2 DEF RetryFires, ConnectTo, FirstConnection, BeforeSnapshot, InSnapshot, AfterSnapshot,
                Unwritten, upstreamVars, actorVars, engineVars, RecoveryInv, RecoveryIsArmed
    <2>. QED BY <2>1, <2>2
<1>3. CASE ConnectFails
    <2>1. /\ socket = "opening" /\ socket' = "closed" /\ serving' = FALSE /\ toSend' = {}
          /\ astate' \in {"failed", "recovering"}
          /\ UNCHANGED <<outages, closed, actorVars, differ, engineVars>>
        BY <1>3 DEF ConnectFails, TransportClosed
    <2>. QED BY <2>1 DEF FirstConnection, BeforeSnapshot, InSnapshot, AfterSnapshot, Unwritten,
                actorVars, engineVars
<1>4. CASE Outage
    <2>1. /\ socket = "subscribed" /\ socket' = "closed" /\ serving' = FALSE
          /\ outages' = outages + 1 /\ UNCHANGED closed
        BY <1>4 DEF Outage, TransportClosed
    <2>. QED BY <2>1 DEF FirstConnection
<1>5. CASE DeadlineFires
    <2>1. /\ astate' = astate \/ (astate = "snapshotting" /\ astate' = "failed")
          /\ UNCHANGED <<upstreamVars, socket, closed, retry, actorVars, differ, engineVars,
                         pipelineHistory, outages>>
        BY <1>5 DEF DeadlineFires, Fail
    <2>. QED BY <2>1 DEF FirstConnection, BeforeSnapshot, InSnapshot, AfterSnapshot, Unwritten,
                SnapshotIsFirst, upstreamVars, actorVars, engineVars, pipelineHistory
<1>6. CASE ErrorFrame
    <2>1. /\ astate' = "failed"
          /\ UNCHANGED <<upstreamVars, socket, closed, retry, actorVars, differ, engineVars,
                         pipelineHistory, outages>>
        BY <1>6 DEF ErrorFrame, Fail
    <2>. QED BY <2>1 DEF FirstConnection, BeforeSnapshot, InSnapshot, AfterSnapshot, Unwritten,
                SnapshotIsFirst, upstreamVars, actorVars, engineVars, pipelineHistory
<1>7. CASE Close
    BY <1>7 DEF Close, FirstConnection
<1>. QED BY <1>1, <1>2, <1>3, <1>4, <1>5, <1>6, <1>7

\* The connection is there: with nothing written the actor begins to buffer.
LEMMA FirstConnects ==
    ASSUME Policy = "buffer", FirstConnection, RecoveryInv, OnConnected \/ OnConnectedThrows
    PROVE  FirstConnection'
<1>1. /\ socket = "opening" /\ socket' = "subscribed" /\ ~closed
      /\ UNCHANGED <<closed, retry, queue, written, writes, table, outages>>
      /\ ~written => UNCHANGED differ
      /\ astate' = "snapshotting"
    BY DEF OnConnected, OnConnectedThrows, Subscribed, engineVars, RecoveryInv, ClosedStays
<1>2. ~retry
    BY <1>1 DEF RecoveryInv, RecoveryIsArmed
<1>3. CASE OnConnected
    <2>1. actor' = "snapshotting" /\ buffering' = TRUE BY <1>3 DEF OnConnected
    <2>. QED BY <1>1, <1>2, <2>1 DEF FirstConnection, BeforeSnapshot, InSnapshot, AfterSnapshot, Unwritten
<1>4. CASE OnConnectedThrows
    <2>1. actor = "live" BY <1>4 DEF OnConnectedThrows
    <2>. QED BY <1>1, <1>2, <2>1 DEF FirstConnection, BeforeSnapshot, InSnapshot, AfterSnapshot, Unwritten
<1>. QED BY <1>3, <1>4

\* A write that does not seal the snapshot comes after the one that does.
LEMMA FirstWrites ==
    ASSUME PipelineInv, AfterSnapshot, NEW images \in Seq(Image), Flush(images, FALSE),
           UNCHANGED <<actor, table, sealed>>
    PROVE  SnapshotIsFirst'
<1>1. writes \in Seq(Update) BY DEF PipelineInv, ActorInv, ActorTyped
<1>2. CASE images = <<>>
    <2>1. writes' = writes BY <1>2 DEF Flush
    <2>. QED BY <2>1 DEF AfterSnapshot, SnapshotIsFirst
<1>3. CASE images # <<>>
    <2>1. PICK u : u = [batch |-> Merge(images), live |-> FALSE] OBVIOUS
    <2>2. u \in Update /\ ~u.live BY <2>1, MergeIs DEF Update
    <2>3. writes' = Append(writes, u) BY <1>3, <2>1 DEF Flush
    <2>4. /\ DOMAIN writes = 1 .. Len(writes) /\ DOMAIN writes' = 1 .. Len(writes) + 1
          /\ \A i \in DOMAIN writes : writes'[i] = writes[i]
          /\ writes'[Len(writes) + 1] = u
          /\ Len(writes) \in Nat /\ writes' # <<>>
        BY <1>1, <2>2, <2>3
    <2>5. \A i \in DOMAIN writes' : i \in DOMAIN writes \/ ~writes'[i].live
        BY <2>2, <2>4
    <2>6. writes # <<>> => 1 \in DOMAIN writes BY <1>1
    <2>. QED BY <2>4, <2>5, <2>6 DEF AfterSnapshot, SnapshotIsFirst
<1>. QED BY <1>2, <1>3

\* A row, in the snapshot and after it.
LEMMA FirstRows ==
    ASSUME PipelineInv, FirstConnection, NEW image \in Image, Deliver(image),
           outages = 0, ~closed, socket = "subscribed", UNCHANGED serving
    PROVE  FirstConnection'
<1>0. /\ queue \in Seq(Image) /\ <<image>> \in Seq(Image) /\ queue \o <<image>> \in Seq(Image)
    BY ConcatProperties DEF PipelineInv, ActorInv, ActorTyped
<1>1. /\ UNCHANGED <<astate, socket, closed, retry, actor, buffering, table, sealed, outages>>
      /\ ~differ.active => Push(<<image>>) /\ UNCHANGED differ
    BY DEF Deliver
<1>2. CASE InSnapshot
    <2>1. UNCHANGED <<queue, flushDue, written, writes, differ>>
        BY <1>1, <1>2 DEF Push, InSnapshot, Unwritten
    <2>. QED BY <1>1, <1>2, <2>1 DEF FirstConnection, InSnapshot, Unwritten
<1>3. CASE AfterSnapshot
    <2>1. Push(<<image>>) /\ UNCHANGED differ /\ ~buffering BY <1>1, <1>3 DEF AfterSnapshot
    <2>2. \/ UNCHANGED writes
          \/ Flush(queue \o <<image>>, FALSE)
        BY <2>1 DEF Push, Enqueue
    <2>3. SnapshotIsFirst'
        <3>1. CASE UNCHANGED writes BY <1>1, <1>3, <3>1 DEF AfterSnapshot, SnapshotIsFirst
        <3>2. CASE Flush(queue \o <<image>>, FALSE) BY <1>0, <1>1, <1>3, <3>2, FirstWrites
        <3>. QED BY <2>2, <3>1, <3>2
    <2>. QED BY <1>1, <1>3, <2>1, <2>3 DEF FirstConnection, AfterSnapshot
<1>. QED BY <1>2, <1>3 DEF FirstConnection, BeforeSnapshot

\* The snapshot ends: all of it is one write, or it was empty.
LEMMA FirstEnds ==
    ASSUME PipelineInv, FirstConnection, FinishSnapshot, outages = 0, ~closed
    PROVE  /\ FirstConnection'
           /\ published' = "live" => published = "live" \/ table' = sealed'
<1>1. /\ serving /\ serving' = FALSE /\ astate = "snapshotting" /\ astate' = "live" /\ sealed' = accepted
      /\ UNCHANGED <<socket, closed, retry, table, outages>>
    BY DEF FinishSnapshot, EndFrame
<1>2. InSnapshot BY <1>1 DEF FirstConnection, BeforeSnapshot, AfterSnapshot
<1>3. /\ EndSnapshot(<<>>) /\ UNCHANGED differ
      /\ published' = IF actor' = "live" THEN "live" ELSE published
    BY <1>2 DEF FinishSnapshot, InSnapshot, Unwritten
<1>4. buffer \in Seq(Image) /\ queue = <<>> /\ writes = <<>> /\ table = Empty /\ actor = "snapshotting"
    BY <1>2 DEF InSnapshot, Unwritten, PipelineInv, ActorInv, ActorTyped
<1>5. queue \o buffer \o <<>> = buffer /\ queue \o buffer = buffer BY <1>4
<1>6. /\ Flush(buffer, TRUE) /\ buffering' = FALSE
      /\ actor' = IF buffer = <<>> THEN "live" ELSE actor
    BY <1>3, <1>5 DEF EndSnapshot
<1>7. accepted = Over(Merge(buffer), table)
    <2>1. Empty \in Content BY ConstantsTyped
    <2>2. Taken(table, writes) = table BY <1>4, <2>1, TakenNone
    <2>. QED BY <1>5, <2>2 DEF PipelineInv, ActorInv, AcceptedIsHeld
<1>8. CASE buffer = <<>>
    <2>1. writes' = <<>> /\ actor' = "live" BY <1>4, <1>6, <1>8 DEF Flush
    <2>2. sealed' = table'
        <3>1. Empty \in Content BY ConstantsTyped
        <3>. QED BY <1>1, <1>4, <1>7, <1>8, <3>1, MergeNone
    <2>3. SnapshotIsFirst' BY <2>1 DEF SnapshotIsFirst
    <2>. QED BY <1>1, <1>2, <1>3, <1>6, <2>2, <2>3
        DEF FirstConnection, AfterSnapshot, InSnapshot, Unwritten
<1>9. CASE buffer # <<>>
    <2>1. PICK u : u = [batch |-> Merge(buffer), live |-> TRUE] OBVIOUS
    <2>7. writes' = Append(writes, u) BY <1>6, <1>9, <2>1 DEF Flush
    <2>8. Append(<<>>, u) = <<u>> OBVIOUS
    <2>2. writes' = <<u>> /\ u.live /\ u.batch = Merge(buffer) BY <1>4, <2>1, <2>7, <2>8
    <2>3. actor' = "snapshotting" BY <1>4, <1>6, <1>9
    <2>4. DOMAIN writes' = {1} /\ writes'[1] = u /\ writes' # <<>> BY <2>2
    <2>5. Over(writes'[1].batch, table') = sealed' BY <1>1, <1>7, <2>2, <2>4
    <2>6. SnapshotIsFirst' BY <2>2, <2>3, <2>4, <2>5 DEF SnapshotIsFirst
    <2>. QED BY <1>1, <1>2, <1>3, <1>6, <2>3, <2>6
        DEF FirstConnection, AfterSnapshot, InSnapshot, Unwritten
<1>. QED BY <1>8, <1>9

\* The first update of the engine is done: it is the snapshot, or the actor
\* was live already.
LEMMA FirstDone ==
    ASSUME PipelineInv, FirstConnection, WriteDone
    PROVE  /\ FirstConnection'
           /\ outages = 0 /\ ~closed /\ Head(writes).live => table' = sealed'
<1>1. /\ writes # <<>> /\ table' = Over(Head(writes).batch, table) /\ writes' = Tail(writes)
      /\ IF Head(writes).live THEN actor' = "live" ELSE UNCHANGED actor
      /\ UNCHANGED <<serving, socket, closed, retry, astate, buffering, differ, outages, sealed>>
      /\ writes \in Seq(Update)
    BY DEF WriteDone, upstreamVars, adapterVars, pipelineHistory, PipelineInv, ActorInv, ActorTyped
<1>2. SUFFICES ASSUME outages = 0, ~closed
               PROVE  /\ FirstConnection'
                      /\ Head(writes).live => table' = sealed'
    BY <1>1 DEF FirstConnection
<1>3. AfterSnapshot BY <1>1, <1>2 DEF FirstConnection, BeforeSnapshot, InSnapshot, Unwritten
<1>4. /\ 1 \in DOMAIN writes /\ Head(writes) = writes[1]
      /\ \A i \in DOMAIN writes' : i + 1 \in DOMAIN writes /\ i + 1 # 1 /\ writes'[i] = writes[i + 1]
    BY <1>1
<1>5. \A i \in DOMAIN writes : i # 1 => ~writes[i].live
    BY <1>3 DEF AfterSnapshot, SnapshotIsFirst
<1>6. \A i \in DOMAIN writes' : ~writes'[i].live BY <1>4, <1>5
<1>7. actor' = "live" BY <1>1, <1>3, <1>4 DEF AfterSnapshot, SnapshotIsFirst
<1>8. Head(writes).live => table' = sealed' BY <1>1, <1>3, <1>4 DEF AfterSnapshot, SnapshotIsFirst
<1>. QED BY <1>1, <1>3, <1>6, <1>7, <1>8 DEF FirstConnection, AfterSnapshot, SnapshotIsFirst

\* What the upstream sends.
LEMMA FirstUpstream ==
    ASSUME PipelineInv, FirstConnection, RecoveryInv, UpstreamActs
    PROVE  FirstConnection'
<1>1. UNCHANGED <<closed, outages, socket, retry>> /\ (serving' => serving)
    <2>1. CASE \E r \in Rows : SnapshotRow(r) BY <2>1 DEF SnapshotRow, Deliver
    <2>2. CASE \E r \in Rows : UpdateRow(r)
        <3>1. PICK r \in Rows : UpdateRow(r) BY <2>2
        <3>2. CASE socket = "subscribed" BY <3>1, <3>2 DEF UpdateRow, Deliver
        <3>3. CASE socket # "subscribed" BY <3>1, <3>3 DEF UpdateRow, adapterVars
        <3>. QED BY <3>2, <3>3
    <2>3. CASE CountMismatch \/ FinishSnapshot \/ LateEndFrame
        BY <2>3 DEF CountMismatch, FinishSnapshot, LateEndFrame, EndFrame
    <2>. QED BY <2>1, <2>2, <2>3 DEF UpstreamActs
<1>2. SUFFICES ASSUME outages = 0, ~closed PROVE FirstConnection'
    BY <1>1 DEF FirstConnection
<1>0. /\ \A r \in Rows : book[r] \in Versions /\ book[r] \in Nat
      /\ \A r \in Rows : [row |-> r, version |-> book[r]] \in Image
    BY ConstantsTyped DEF PipelineInv, AdapterTyped, Image, Versions
<1>3. ASSUME NEW r \in Rows, SnapshotRow(r) PROVE FirstConnection'
    <2>1. r \in toSend /\ Deliver([row |-> r, version |-> book[r]]) /\ UNCHANGED serving
        BY <1>3 DEF SnapshotRow
    <2>2. socket = "subscribed" BY <1>2, <2>1 DEF FirstConnection, BeforeSnapshot, InSnapshot, AfterSnapshot
    <2>. QED BY <1>0, <1>2, <2>1, <2>2, FirstRows
<1>4. ASSUME NEW r \in Rows, UpdateRow(r) PROVE FirstConnection'
    <2>1. CASE socket = "subscribed"
        <3>1. /\ book[r] < MaxVersion /\ book' = [book EXCEPT ![r] = @ + 1]
              /\ Deliver([row |-> r, version |-> book'[r]]) /\ UNCHANGED serving
            BY <1>4, <2>1 DEF UpdateRow
        <3>2. book'[r] = book[r] + 1 BY <3>1 DEF PipelineInv, AdapterTyped
        <3>3. [row |-> r, version |-> book'[r]] \in Image
            BY <1>0, <3>1, <3>2, ConstantsTyped DEF Image, Versions
        <3>. QED BY <1>2, <2>1, <3>1, <3>3, FirstRows
    <2>2. CASE socket # "subscribed"
        <3>1. UNCHANGED <<adapterVars, actorVars, differ, engineVars, serving, toSend, sealed, outages>>
            BY <1>4, <2>2 DEF UpdateRow
        <3>. QED BY <3>1 DEF FirstConnection, BeforeSnapshot, InSnapshot, AfterSnapshot, SnapshotIsFirst,
                 Unwritten, adapterVars, actorVars, engineVars
    <2>. QED BY <2>1, <2>2
<1>5. CASE CountMismatch
    <2>1. /\ serving /\ astate' = "failed" /\ serving' = FALSE
          /\ UNCHANGED <<actorVars, differ, writes, sealed, table>>
        BY <1>5 DEF CountMismatch, EndFrame, Fail
    <2>. QED BY <1>1, <1>2, <2>1 DEF FirstConnection, BeforeSnapshot, InSnapshot, AfterSnapshot,
             SnapshotIsFirst, Unwritten, actorVars
<1>6. CASE LateEndFrame
    <2>1. /\ serving /\ astate' = astate /\ serving' = FALSE
          /\ UNCHANGED <<actorVars, differ, writes, sealed, table>>
        BY <1>6 DEF LateEndFrame, EndFrame
    <2>. QED BY <1>1, <1>2, <2>1 DEF FirstConnection, BeforeSnapshot, InSnapshot, AfterSnapshot,
             SnapshotIsFirst, Unwritten, actorVars
<1>7. CASE FinishSnapshot BY <1>2, <1>7, FirstEnds
<1>. QED BY <1>3, <1>4, <1>5, <1>6, <1>7 DEF UpstreamActs

\* The flush timer.
LEMMA FirstFlushes ==
    ASSUME PipelineInv, FirstConnection, FlushTimer
    PROVE  FirstConnection'
<1>1. /\ Flush(queue, FALSE) /\ queue \in Seq(Image)
      /\ UNCHANGED <<serving, toSend, astate, socket, closed, retry, actor, buffering, differ, table, sealed, outages>>
    BY DEF FlushTimer, upstreamVars, adapterVars, pipelineHistory, PipelineInv, ActorInv, ActorTyped
<1>2. queue = <<>> => queue' = <<>> /\ UNCHANGED <<writes, written>>
    BY <1>1 DEF Flush, PipelineInv, ActorInv, ActorTyped
<1>3. AfterSnapshot => SnapshotIsFirst' BY <1>1, FirstWrites
<1>. QED BY <1>1, <1>2, <1>3 DEF FirstConnection, BeforeSnapshot, InSnapshot, AfterSnapshot, Unwritten

\* No re-snapshot is compared before there was an outage.
LEMMA FirstDiff ==
    ASSUME FirstConnection, DiffDone
    PROVE  FirstConnection' /\ (closed \/ outages # 0)
<1>1. differ.ending /\ UNCHANGED <<serving, socket, closed, retry, outages>>
    BY DEF DiffDone, upstreamVars, adapterVars
<1>. QED BY <1>1 DEF FirstConnection, BeforeSnapshot, InSnapshot, AfterSnapshot, Unwritten

LEMMA FirstStep ==
    ASSUME Policy = "buffer", PipelineInv, RecoveryInv, FirstConnection, [PipelineNext]_pipelineVars
    PROVE  FirstConnection'
<1>1. CASE Connect \/ RetryFires \/ ConnectFails \/ Outage \/ DeadlineFires \/ ErrorFrame \/ Close
    BY <1>1, FirstAdapter
<1>2. CASE OnConnected \/ OnConnectedThrows BY <1>2, FirstConnects
<1>3. CASE UpstreamActs BY <1>3, FirstUpstream
<1>4. CASE FlushTimer BY <1>4, FirstFlushes
<1>5. CASE WriteDone BY <1>5, FirstDone
<1>6. CASE DiffDone BY <1>6, FirstDiff
<1>7. CASE UNCHANGED pipelineVars
    BY <1>7 DEF pipelineVars, upstreamVars, adapterVars, actorVars, engineVars, pipelineHistory,
        FirstConnection, BeforeSnapshot, InSnapshot, AfterSnapshot, SnapshotIsFirst, Unwritten
<1>. QED BY <1>1, <1>2, <1>3, <1>4, <1>5, <1>6, <1>7 DEF PipelineNext

(* FirstLiveIsQueryable, of a datasource that holds updates back during the *)
(* snapshot, as it does unless it is configured otherwise: when the first   *)
(* connection publishes live, the table is the snapshot as it was sealed.   *)
THEOREM FirstLiveHasTheSnapshot ==
    ASSUME Policy = "buffer"
    PROVE  PipelineSpec => FirstLiveIsQueryable
<1>1. ASSUME PipelineInv, RecoveryInv, FirstConnection, [PipelineNext]_pipelineVars
      PROVE  [(published # "live" /\ published' = "live" /\ outages = 0)
                   => \A r \in Rows : table'[r] >= sealed'[r]]_pipelineVars
    <2>1. SUFFICES ASSUME PipelineNext, published # "live", published' = "live", outages = 0
                   PROVE  table' = sealed' /\ sealed' \in Content
        <3>1. \A c \in Content, r \in Rows : c[r] \in Nat
            BY ConstantsTyped DEF Content, Versions, Absent
        <3>. QED BY <1>1, <3>1
    <2>2. sealed' \in Content
        BY <1>1, PipelineStep DEF PipelineInv, ActorInv, ActorTyped
    <2>3. CASE FinishSnapshot
        <3>1. ~closed BY <1>1, <2>3 DEF FinishSnapshot, EndFrame, FirstConnection
        <3>. QED BY <1>1, <2>1, <2>2, <2>3, <3>1, FirstEnds
    <2>4. CASE WriteDone
        <3>1. Head(writes).live /\ ~closed BY <2>1, <2>4 DEF WriteDone
        <3>. QED BY <1>1, <2>1, <2>2, <2>4, <3>1, FirstDone
    <2>5. CASE DiffDone
        <3>1. ~closed BY <2>1, <2>5 DEF DiffDone
        <3>. QED BY <1>1, <2>1, <2>5, <3>1, FirstDiff
    <2>6. ASSUME ~FinishSnapshot, ~WriteDone, ~DiffDone PROVE FALSE
        <3>1. CASE UpstreamActs
            BY <2>1, <2>6, <3>1 DEF UpstreamActs, SnapshotRow, UpdateRow, Deliver, CountMismatch, Fail,
                LateEndFrame
        <3>2. CASE ~UpstreamActs
            BY <2>1, <2>6, <3>2 DEF PipelineNext, Connect, ConnectTo, RetryFires, OnConnected,
                OnConnectedThrows, ConnectFails, Outage, TransportClosed, DeadlineFires, Fail, ErrorFrame,
                Close, FlushTimer
        <3>. QED BY <3>1, <3>2
    <2>. QED BY <2>3, <2>4, <2>5, <2>6
<1>2. ASSUME Policy = "buffer", PipelineInv, RecoveryInv, FirstConnection, [PipelineNext]_pipelineVars
      PROVE  FirstConnection'
    BY <1>2, FirstStep
<1>3. Policy = "buffer" OBVIOUS
<1>4. PipelineInv /\ RecoveryInv /\ FirstConnection /\ [PipelineNext]_pipelineVars => FirstConnection'
    BY <1>2, <1>3
<1>5. PipelineSpec => []RecoveryInv BY RecoveryStarts, RecoveryStep, PTL DEF PipelineSpec
<1>6. PipelineSpec => []FirstConnection
    BY <1>4, <1>5, FirstStarts, PipelineInvariance, PTL DEF PipelineSpec
<1>. QED BY <1>1, <1>5, <1>6, PipelineInvariance, PTL DEF PipelineSpec, FirstLiveIsQueryable

------------------------------------------------------------------------------
(* The backpressure ladder.                                                 *)

(* While the lag is that of the refresh rung and its clock runs, the tab   *)
(* has been sent a refresh and has made no progress since the clock began. *)
(* An acknowledgement that is progress takes the lag below the rung, which *)
(* is why the clock may then run on until the next offer resets it.        *)
StuckSinceRefresh ==
    (atRefresh # NotEntered /\ 4 * Lag >= 3 * Limit) => refreshSent /\ atRefresh <= quiet

SentIsTold == refreshSent => told
PacedByFlush == paced = sinceFlush

IInv ==
    /\ TypeOK
    /\ LagStaysBelowLimit
    /\ StuckSinceRefresh
    /\ SentIsTold
    /\ PacedByFlush

-----------------------------------------------------------------------------
(* rungForLag is one of the rungs, and each rung is an interval of lags.   *)
LEMMA RungIntervals ==
    ASSUME NEW lag \in Int
    PROVE  /\ RungForLag(lag) \in Rungs
           /\ RungForLag(lag) = "disconnecting" <=> lag >= Limit
           /\ RungForLag(lag) = "snapshot-refresh" => 4 * lag >= 3 * Limit
           /\ lag < Limit /\ 4 * lag >= 3 * Limit => RungForLag(lag) = "snapshot-refresh"
           /\ RungForLag(lag) \in {"none", "conflating"} => 4 * lag < 3 * Limit
  BY FlowAssumption DEF FlowAssumption, RungForLag, Rungs

(* onAck moves ackedSeq forward and never past what was sent.              *)
LEMMA ClampedBounds ==
    ASSUME NEW seq \in Nat, TypeOK, LagStaysBelowLimit
    PROVE  /\ Clamped(seq) \in Nat
           /\ ackedSeq <= Clamped(seq)
           /\ Clamped(seq) <= sentSeq
  BY DEF TypeOK, LagStaysBelowLimit, Lag, Clamped

(* Below the last rung, an offer that reaches it was stuck on the refresh  *)
(* rung for the whole grace period.                                        *)
LEMMA EscalationIsStuck ==
    ASSUME TypeOK, LagStaysBelowLimit, NextRung = "disconnecting"
    PROVE  /\ RungForLag(Lag) = "snapshot-refresh"
           /\ atRefresh # NotEntered
           /\ atRefresh >= StuckMs
           /\ 4 * Lag >= 3 * Limit
  <1>1. Lag \in Int
    BY DEF TypeOK, Lag
  <1>2. RungForLag(Lag) # "disconnecting"
    BY <1>1, RungIntervals, FlowAssumption DEF FlowAssumption, LagStaysBelowLimit
  <1>3. RungForLag(Lag) = "snapshot-refresh" /\ RefreshAge >= StuckMs
    BY <1>2 DEF NextRung
  <1>4. atRefresh # NotEntered /\ atRefresh >= StuckMs
    BY <1>3, FlowAssumption DEF FlowAssumption, RefreshAge, NotEntered
  <1>5. QED
    BY <1>1, <1>3, <1>4, RungIntervals

(* What every offer does to the clock of the refresh rung.                 *)
LEMMA OfferKeepsClock ==
    ASSUME TypeOK, LagStaysBelowLimit
    PROVE  /\ NextAtRefresh \in {NotEntered} \cup 0..StuckMs
           /\ NextRung \in Rungs
           /\ 4 * Lag < 3 * Limit => NextAtRefresh = NotEntered
           /\ NextAtRefresh # NotEntered => NextAtRefresh = RefreshAge
  <1>1. Lag \in Int
    BY DEF TypeOK, Lag
  <1>2. RungForLag(Lag) # "disconnecting"
    BY <1>1, RungIntervals, FlowAssumption DEF FlowAssumption, LagStaysBelowLimit
  <1>3. RefreshAge \in 0..StuckMs
    BY FlowAssumption DEF FlowAssumption, TypeOK, RefreshAge, NotEntered
  <1>4. NextRung \in Rungs
    BY <1>1, RungIntervals DEF NextRung, Rungs
  <1>5. NextAtRefresh = IF RungForLag(Lag) = "snapshot-refresh" THEN RefreshAge ELSE NotEntered
    BY <1>2 DEF NextAtRefresh
  <1>6. QED
    BY <1>1, <1>3, <1>4, <1>5, RungIntervals, FlowAssumption DEF FlowAssumption

-----------------------------------------------------------------------------
LEMMA InitInv == Init => IInv
  <1> SUFFICES ASSUME Init PROVE IInv
    OBVIOUS
  <1>1. TypeOK
    <2>1. refreshSent \in BOOLEAN /\ wedged \in BOOLEAN /\ told \in BOOLEAN
      BY DEF Init, FlowInit
    <2>2. /\ sentSeq \in Nat
          /\ ackedSeq \in Nat
          /\ resets \in 0..MaxResets
          /\ quiet \in 0..StuckMs
          /\ sinceFlush \in 0..ConflateMs
          /\ paced \in 0..ConflateMs
      BY FlowAssumption DEF FlowAssumption, Init, FlowInit
    <2>3. /\ subscribed \subseteq Feeds
          /\ rung \in Rungs
          /\ atRefresh \in {NotEntered} \cup 0..StuckMs
      BY DEF Init, FlowInit, Rungs
    <2>4. QED
      BY <2>1, <2>2, <2>3 DEF TypeOK
  <1>2. LagStaysBelowLimit
    BY FlowAssumption DEF FlowAssumption, Init, FlowInit, LagStaysBelowLimit, Lag
  <1>3. StuckSinceRefresh /\ SentIsTold /\ PacedByFlush
    BY DEF Init, FlowInit, StuckSinceRefresh, SentIsTold, PacedByFlush
  <1>4. QED
    BY <1>1, <1>2, <1>3 DEF IInv

(* The two offers that post a delta leave the refresh rung behind.         *)
LEMMA PostKeepsInv ==
    ASSUME IInv, NEW f \in Feeds, SendDelta(f) \/ FlushBatch(f)
    PROVE  IInv'
  <1> USE DEF IInv
  <1>1. Lag \in Int
    BY DEF TypeOK, Lag
  <1>2. NextRung \in {"none", "conflating"} /\ atRefresh' = NextAtRefresh /\ rung' = NextRung
    BY DEF SendDelta, FlushBatch, OfferTo
  <1>3. RungForLag(Lag) \in {"none", "conflating"}
    BY <1>2 DEF NextRung
  <1>4. 4 * Lag < 3 * Limit
    BY <1>1, <1>3, RungIntervals
  <1>5. sentSeq' = sentSeq + 1 /\ ackedSeq' = ackedSeq
    BY DEF SendDelta, FlushBatch, OfferTo
  <1>6. atRefresh' = NotEntered
    BY <1>2, <1>4, OfferKeepsClock
  <1>7. TypeOK'
    <2>1. refreshSent' \in BOOLEAN /\ wedged' \in BOOLEAN /\ told' \in BOOLEAN
      BY DEF SendDelta, FlushBatch, OfferTo, TypeOK
    <2>2. /\ sentSeq' \in Nat
          /\ ackedSeq' \in Nat
          /\ sinceFlush' \in 0..ConflateMs
          /\ paced' \in 0..ConflateMs
      BY <1>5, FlowAssumption DEF FlowAssumption, SendDelta, FlushBatch, TypeOK
    <2>3. /\ subscribed' \subseteq Feeds
          /\ rung' \in Rungs
          /\ resets' \in 0..MaxResets
          /\ quiet' \in 0..StuckMs
      BY <1>2 DEF SendDelta, FlushBatch, OfferTo, TypeOK, Rungs
    <2>4. QED
      BY <1>6, <2>1, <2>2, <2>3 DEF TypeOK
  <1>8. LagStaysBelowLimit'
    <2>1. Lag' = Lag + 1
      BY <1>5 DEF TypeOK, Lag
    <2>2. QED
      BY <1>1, <1>4, <2>1, FlowAssumption DEF FlowAssumption, LagStaysBelowLimit
  <1>9. StuckSinceRefresh'
    BY <1>6 DEF StuckSinceRefresh
  <1>10. SentIsTold' /\ PacedByFlush'
    BY DEF SendDelta, FlushBatch, OfferTo, SentIsTold, PacedByFlush
  <1>11. QED
    BY <1>7, <1>8, <1>9, <1>10

(* The offers that post nothing.                                           *)
LEMMA WithholdKeepsInv ==
    ASSUME IInv, NEW f \in Feeds,
           HoldDelta(f) \/ SendRefresh(f) \/ DiscardDelta(f) \/ DropSlowSubscriber(f)
    PROVE  IInv'
  <1> USE DEF IInv
  <1>1. Lag \in Int
    BY DEF TypeOK, Lag
  <1>2. /\ atRefresh' = NextAtRefresh
        /\ rung' = NextRung
        /\ UNCHANGED <<sentSeq, ackedSeq, wedged, resets, quiet, sinceFlush, paced>>
    BY DEF HoldDelta, SendRefresh, DiscardDelta, DropSlowSubscriber, OfferTo
  <1>3. Lag' = Lag
    BY <1>2 DEF Lag
  <1>4. TypeOK'
    BY <1>2, OfferKeepsClock
       DEF HoldDelta, SendRefresh, DiscardDelta, DropSlowSubscriber, OfferTo, TypeOK
  <1>5. LagStaysBelowLimit'
    BY <1>3 DEF LagStaysBelowLimit
  <1>6. StuckSinceRefresh'
    <2> SUFFICES ASSUME atRefresh' # NotEntered, 4 * Lag >= 3 * Limit
                 PROVE  refreshSent' /\ atRefresh' <= quiet
      BY <1>2, <1>3 DEF StuckSinceRefresh
    <2>1. atRefresh' = RefreshAge
      BY <1>2, OfferKeepsClock
    <2>2. atRefresh' <= quiet
      BY <2>1 DEF RefreshAge, StuckSinceRefresh, TypeOK, NotEntered
    <2>3. RungForLag(Lag) = "snapshot-refresh"
      BY <1>1, RungIntervals DEF LagStaysBelowLimit
    <2>4. CASE SendRefresh(f) \/ DiscardDelta(f)
      BY <2>2, <2>4 DEF SendRefresh, DiscardDelta
    <2>5. CASE HoldDelta(f)
      BY <2>3, <2>5 DEF HoldDelta, OfferTo, NextRung
    <2>6. CASE DropSlowSubscriber(f)
      <3>1. atRefresh # NotEntered
        BY <2>6, EscalationIsStuck DEF DropSlowSubscriber, OfferTo
      <3>2. refreshSent
        BY <3>1 DEF StuckSinceRefresh
      <3>3. QED
        BY <2>2, <2>6, <3>2 DEF DropSlowSubscriber
    <2>7. QED
      BY <2>4, <2>5, <2>6
  <1>7. SentIsTold' /\ PacedByFlush'
    BY <1>2 DEF HoldDelta, SendRefresh, DiscardDelta, DropSlowSubscriber, SentIsTold, PacedByFlush
  <1>8. QED
    BY <1>4, <1>5, <1>6, <1>7

LEMMA AckKeepsInv ==
    ASSUME IInv, NEW seq \in 0..MaxAcked, OnAck(seq)
    PROVE  IInv'
  <1> USE DEF IInv
  <1>1. seq \in Nat
    BY FlowAssumption DEF FlowAssumption
  <1>2. /\ Clamped(seq) \in Nat
        /\ ackedSeq <= Clamped(seq)
        /\ Clamped(seq) <= sentSeq
    BY <1>1, ClampedBounds
  <1>3. /\ sentSeq' = sentSeq
        /\ ackedSeq' = Clamped(seq)
        /\ quiet' = IF Clamped(seq) > ackedSeq THEN 0 ELSE quiet
        /\ UNCHANGED <<subscribed, rung, sinceFlush, wedged, resets, paced>>
    BY DEF OnAck
  <1>4. \/ refreshSent' = FALSE /\ atRefresh' = NotEntered /\ told' = FALSE
        \/ UNCHANGED <<refreshSent, atRefresh, told>>
    BY DEF OnAck
  <1>5. TypeOK'
    <2>1. refreshSent' \in BOOLEAN /\ wedged' \in BOOLEAN /\ told' \in BOOLEAN
      BY <1>3, <1>4 DEF TypeOK
    <2>2. quiet' \in 0..StuckMs
      BY <1>2, <1>3, FlowAssumption DEF FlowAssumption, TypeOK
    <2>3. atRefresh' \in {NotEntered} \cup 0..StuckMs
      BY <1>4 DEF TypeOK
    <2>4. /\ sentSeq' \in Nat
          /\ ackedSeq' \in Nat
      BY <1>2, <1>3 DEF TypeOK
    <2>5. /\ subscribed' \subseteq Feeds
          /\ rung' \in Rungs
          /\ sinceFlush' \in 0..ConflateMs
          /\ resets' \in 0..MaxResets
          /\ paced' \in 0..ConflateMs
      BY <1>3 DEF TypeOK
    <2>6. QED
      BY <2>1, <2>2, <2>3, <2>4, <2>5 DEF TypeOK
  <1>6. LagStaysBelowLimit'
    BY <1>2, <1>3, FlowAssumption DEF FlowAssumption, TypeOK, LagStaysBelowLimit, Lag
  <1>7. StuckSinceRefresh'
    <2>1. CASE atRefresh' = NotEntered
      BY <2>1 DEF StuckSinceRefresh
    <2>2. CASE UNCHANGED <<refreshSent, atRefresh, told>> /\ Clamped(seq) = ackedSeq
      <3>1. UNCHANGED <<sentSeq, ackedSeq, quiet>>
        BY <1>2, <1>3, <2>2
      <3>2. QED
        BY <2>2, <3>1 DEF StuckSinceRefresh, Lag
    <2>3. CASE Clamped(seq) > ackedSeq
      <3>1. ~(4 * Lag' >= 3 * Limit)
        BY <1>2, <1>3, <2>3, FlowAssumption DEF FlowAssumption, TypeOK, LagStaysBelowLimit, Lag
      <3>2. QED
        BY <3>1 DEF StuckSinceRefresh
    <2>4. Clamped(seq) = ackedSeq \/ Clamped(seq) > ackedSeq
      BY <1>2 DEF TypeOK
    <2>5. QED
      BY <1>4, <2>1, <2>2, <2>3, <2>4
  <1>8. SentIsTold' /\ PacedByFlush'
    BY <1>3, <1>4 DEF SentIsTold, PacedByFlush
  <1>9. QED
    BY <1>5, <1>6, <1>7, <1>8

LEMMA TickKeepsInv ==
    ASSUME IInv, Tick
    PROVE  IInv'
  <1> USE DEF IInv
  <1>1. TypeOK'
    BY FlowAssumption DEF FlowAssumption, Tick, TypeOK, Older, NotEntered
  <1>2. LagStaysBelowLimit'
    BY DEF Tick, LagStaysBelowLimit, Lag
  <1>3. StuckSinceRefresh'
    BY FlowAssumption DEF FlowAssumption, Tick, TypeOK, StuckSinceRefresh, Lag, Older, NotEntered
  <1>4. SentIsTold' /\ PacedByFlush'
    BY DEF Tick, SentIsTold, PacedByFlush
  <1>5. QED
    BY <1>1, <1>2, <1>3, <1>4

(* Resubscribing and wedging leave the flow alone; a reset starts it anew. *)
LEMMA OthersKeepInv ==
    ASSUME IInv, (\E f \in Feeds : Resubscribe(f) \/ ResetFlow(f)) \/ Wedge \/ UNCHANGED vars
    PROVE  IInv'
  <1> USE DEF IInv
  <1>1. CASE \E f \in Feeds : Resubscribe(f)
    BY <1>1 DEF Resubscribe, flow, history, TypeOK, LagStaysBelowLimit, Lag,
                StuckSinceRefresh, SentIsTold, PacedByFlush
  <1>2. CASE \E f \in Feeds : ResetFlow(f)
    <2>1. PICK f \in Feeds : ResetFlow(f)
      BY <1>2
    <2>2. TypeOK'
      <3>1. refreshSent' \in BOOLEAN /\ wedged' \in BOOLEAN /\ told' \in BOOLEAN
        BY <2>1 DEF ResetFlow, TypeOK
      <3>2. /\ sentSeq' \in Nat
            /\ ackedSeq' \in Nat
            /\ resets' \in 0..MaxResets
            /\ quiet' \in 0..StuckMs
            /\ sinceFlush' \in 0..ConflateMs
            /\ paced' \in 0..ConflateMs
        BY <2>1, FlowAssumption DEF FlowAssumption, ResetFlow, TypeOK
      <3>3. /\ subscribed' \subseteq Feeds
            /\ rung' \in Rungs
            /\ atRefresh' \in {NotEntered} \cup 0..StuckMs
        BY <2>1 DEF ResetFlow, TypeOK, Rungs
      <3>4. QED
        BY <3>1, <3>2, <3>3 DEF TypeOK
    <2>3. LagStaysBelowLimit'
      BY <2>1, FlowAssumption DEF FlowAssumption, ResetFlow, LagStaysBelowLimit, Lag
    <2>4. StuckSinceRefresh' /\ SentIsTold' /\ PacedByFlush'
      BY <2>1 DEF ResetFlow, StuckSinceRefresh, SentIsTold, PacedByFlush
    <2>5. QED
      BY <2>2, <2>3, <2>4
  <1>3. CASE Wedge
    BY <1>3 DEF Wedge, flow, history, TypeOK, LagStaysBelowLimit, Lag,
                StuckSinceRefresh, SentIsTold, PacedByFlush
  <1>4. CASE UNCHANGED vars
    BY <1>4 DEF vars, flow, history, TypeOK, LagStaysBelowLimit, Lag,
                StuckSinceRefresh, SentIsTold, PacedByFlush
  <1>5. QED
    BY <1>1, <1>2, <1>3, <1>4

LEMMA StepInv == IInv /\ [Next]_vars => IInv'
  <1> SUFFICES ASSUME IInv, [Next]_vars PROVE IInv'
    OBVIOUS
  <1>1. CASE \E f \in Feeds : SendDelta(f) \/ FlushBatch(f)
    BY <1>1, PostKeepsInv
  <1>2. CASE \E f \in Feeds : HoldDelta(f) \/ SendRefresh(f) \/ DiscardDelta(f)
                               \/ DropSlowSubscriber(f)
    BY <1>2, WithholdKeepsInv
  <1>3. CASE \E seq \in 0..MaxAcked : OnAck(seq)
    BY <1>3, AckKeepsInv
  <1>4. CASE Tick
    BY <1>4, TickKeepsInv
  <1>5. CASE (\E f \in Feeds : Resubscribe(f) \/ ResetFlow(f)) \/ Wedge \/ UNCHANGED vars
    BY <1>5, OthersKeepInv
  <1>6. QED
    BY <1>1, <1>2, <1>3, <1>4, <1>5 DEF Next, Offer

-----------------------------------------------------------------------------
THEOREM Invariance == Spec => []IInv
  BY InitInv, StepInv, PTL DEF Spec

(* Every state of the ladder is well typed.                                *)
THEOREM TypeCorrect == Spec => []TypeOK
  <1>1. IInv => TypeOK
    BY DEF IInv
  <1>2. QED
    BY <1>1, Invariance, PTL

(* Whatever the tab acknowledges, the lag stays below the limit: the hub   *)
(* never has more than three quarters of it, and one delta, outstanding.   *)
THEOREM LagBounded == Spec => []LagStaysBelowLimit
  <1>1. IInv => LagStaysBelowLimit
    BY DEF IInv
  <1>2. QED
    BY <1>1, Invariance, PTL

(* A feed is taken only from a tab that was told to re-read and then made  *)
(* no progress for the whole grace period.                                 *)
THEOREM DropsAreEarned == Spec => DropIsEarned
  <1>1. ASSUME IInv, [Next]_vars
        PROVE  [\A f \in Feeds :
                  (f \in subscribed /\ f \notin subscribed') => (told /\ quiet >= StuckMs)]_vars
    <2> SUFFICES ASSUME Next, NEW f \in Feeds, f \in subscribed, f \notin subscribed'
                 PROVE  told /\ quiet >= StuckMs
      BY <1>1
    <2>1. PICK g \in Feeds : DropSlowSubscriber(g)
      BY DEF Next, Offer, SendDelta, HoldDelta, FlushBatch, SendRefresh, DiscardDelta,
             OnAck, Resubscribe, ResetFlow, Wedge, Tick
    <2>2. /\ atRefresh # NotEntered
          /\ atRefresh >= StuckMs
          /\ 4 * Lag >= 3 * Limit
      BY <1>1, <2>1, EscalationIsStuck DEF IInv, DropSlowSubscriber, OfferTo
    <2>3. refreshSent /\ atRefresh <= quiet
      BY <1>1, <2>2 DEF IInv, StuckSinceRefresh
    <2>4. told
      BY <1>1, <2>3 DEF IInv, SentIsTold
    <2>5. quiet >= StuckMs
      BY <1>1, <2>2, <2>3, FlowAssumption DEF FlowAssumption, IInv, TypeOK
    <2>6. QED
      BY <2>4, <2>5
  <1>2. QED
    BY <1>1, Invariance, PTL DEF Spec, DropIsEarned

(* Two merged batches of the conflating rung are an interval apart.        *)
THEOREM BatchesArePaced == Spec => ConflationIsPaced
  <1>1. ASSUME IInv, [Next]_vars
        PROVE  [(rung' = "conflating" /\ sentSeq' = sentSeq + 1) => paced >= ConflateMs]_vars
    <2> SUFFICES ASSUME Next, rung' = "conflating", sentSeq' = sentSeq + 1
                 PROVE  paced >= ConflateMs
      BY <1>1
    <2>1. sentSeq \in Nat
      BY <1>1 DEF IInv, TypeOK
    <2>2. PICK f \in Feeds : FlushBatch(f)
      BY <2>1 DEF Next, Offer, SendDelta, HoldDelta, SendRefresh, DiscardDelta,
                  DropSlowSubscriber, OfferTo, OnAck, Resubscribe, flow, ResetFlow, Wedge, Tick
    <2>3. QED
      BY <1>1, <2>2 DEF IInv, PacedByFlush, FlushBatch, ConflationDue
  <1>2. QED
    BY <1>1, Invariance, PTL DEF Spec, ConflationIsPaced

------------------------------------------------------------------------------
(* The feeds beside STOMP: a live one is current.                           *)

(* An image of r is among the messages, the sentinel is; the last image of  *)
(* r, if there is one, has version v.                                       *)
HasRow(s, r) == \E i \in 1 .. Len(s) : s[i] # End /\ s[i].row = r
HasEnd(s) == \E i \in 1 .. Len(s) : s[i] = End
EndsWith(s, r, v) ==
    \A i \in 1 .. Len(s) :
        s[i] # End /\ s[i].row = r /\ (\A j \in i + 1 .. Len(s) : s[j] = End \/ s[j].row # r)
            => s[i].version = v

(* Messages come on the socket that is subscribed, and a socket not opened  *)
(* yet is the one that is opened next.                                      *)
SocketInv ==
    /\ \A k \in SocketIds : link[k] # "subscribed" => wire[k] = <<>> /\ toCome[k] = {}
    /\ \A k \in SocketIds : k > sockets => link[k] = "none"

(* How far a REST feed is with its snapshot.                                *)
FetchInv ==
    /\ shape # "rest" \/ closedByUs => ~fetching
    /\ ~fetching => page = <<>> /\ pages = {}
    /\ shape # "rest" \/ (~fetching /\ ~closedByUs) => heldBack = <<>>
    /\ restState = "live" => ~fetching /\ ~closedByUs

(* Whoever is subscribed hears of every change: the last image of a row on  *)
(* a wire is its last.                                                      *)
WireInv == \A k \in SocketIds, r \in FeedRows : EndsWith(wire[k], r, source[r])

(* A REST feed that was closed, or whose fetch has failed, never goes live. *)
GaveUp == shape = "rest" /\ (closedByUs \/ (fetching /\ page = <<>> /\ pages = {}))

(* With no image of it on a wire the last word on a row is said by those    *)
(* held back, else by the page on its way, else in the table.               *)
Says(held, answer, known, r, v) ==
    IF HasRow(held, r) THEN EndsWith(held, r, v)
    ELSE IF answer # <<>> /\ answer[1].row = r THEN answer[1].version = v
    ELSE known[r] = v
LastWord(r) == Says(heldBack, page, delivered, r, source[r])
WordInv ==
    ~GaveUp => \A r \in FeedRows \ missed : (\A k \in SocketIds : ~HasRow(wire[k], r)) => LastWord(r)

(* A feed with a sentinel that has lost no socket has one, and what is      *)
(* missing of its rows is still to come.                                    *)
WithSentinel == shape \in {"sentinel", "socket.io"} /\ drops = 0
Kept ==
    /\ sockets = 1 /\ retryTimers = 0 /\ link[1] # "leaving"
    /\ link[1] = "subscribed" => missed \subseteq toCome[1]
    /\ wsState = "live" \/ HasEnd(wire[1]) => link[1] = "subscribed" /\ toCome[1] = {}
KeptInv == WithSentinel => Kept

FeedInv == SocketFeedsTypeOK /\ SocketInv /\ FetchInv /\ WireInv /\ WordInv /\ KeptInv

USE FeedAssumption

-----------------------------------------------------------------------------
\* What a message can be.
LEMMA MessageFacts ==
    /\ End \in FeedMessage /\ FeedImage \subseteq FeedMessage /\ End \notin FeedImage
    /\ \A m \in FeedMessage : m # End => m \in FeedImage
    /\ \A m \in FeedImage : m.row \in FeedRows /\ m.version \in Nat
    /\ \A r \in FeedRows, v \in Nat \ {NeverSeen} :
          LET m == [row |-> r, version |-> v] IN m \in FeedImage /\ m.row = r /\ m.version = v
BY DEF End, FeedMessage, FeedImage, NeverSeen

\* What is left of messages when the first is taken, and what is there when one
\* more is sent, are messages.
LEMMA TypesOfWires ==
    /\ \A s \in Seq(FeedMessage) :
          /\ s # <<>> => Head(s) \in FeedMessage /\ Tail(s) \in Seq(FeedMessage)
          /\ \A m \in FeedMessage : Append(s, m) \in Seq(FeedMessage)
    /\ \A s \in Seq(FeedImage) :
          /\ s # <<>> => s[1] \in FeedImage
          /\ \A m \in FeedImage : Append(s, m) \in Seq(FeedImage)
    /\ <<>> \in Seq(FeedMessage) /\ <<>> \in Seq(FeedImage)
BY HeadTailProperties, AppendProperties, EmptySeq

\* The cases of a socket that closes, of a reconnect and of a row.
LEMMA ClosedCases ==
    ASSUME SocketClosed
    PROVE  \/ UNCHANGED <<wsState, restState, restDeadline, retryTimers, tries>>
           \/ WsBecomes("failed") /\ UNCHANGED <<retryTimers, tries>>
           \/ WsBecomes("recovering") /\ retryTimers' = retryTimers + 1 /\ tries' = tries + 1
BY Zenon DEF SocketClosed

LEMMA ReconnectCases ==
    ASSUME ReconnectFeed
    PROVE  \/ UNCHANGED <<wsState, sockets, link>>
           \/ /\ sockets < MaxSockets /\ sockets' = sockets + 1 /\ wsState' = "connecting"
              /\ link' = [link EXCEPT ![sockets + 1] = "opening"]
BY Zenon DEF ReconnectFeed

LEMMA RowCases ==
    ASSUME NEW k, RowArrives(k)
    PROVE  \/ shape = "rest" /\ fetching /\ heldBack' = Append(heldBack, Head(wire[k])) /\ delivered' = delivered
           \/ ~(shape = "rest" /\ fetching) /\ delivered' = Told(delivered, Head(wire[k])) /\ heldBack' = heldBack
BY Zenon DEF RowArrives

\* What a closed socket does to the state of the feed.
LEMMA TypesOfClosing ==
    ASSUME SocketFeedsTypeOK, OnSocketClose \/ (SocketClosed /\ UNCHANGED wsDeadline)
    PROVE  /\ wsState' \in FeedStates /\ restState' \in FeedStates
           /\ wsDeadline' \in BOOLEAN /\ restDeadline' \in BOOLEAN
           /\ retryTimers' \in Nat /\ tries' \in Nat
<1>1. /\ wsState \in FeedStates /\ restState \in FeedStates /\ restDeadline \in BOOLEAN
      /\ wsDeadline \in BOOLEAN /\ retryTimers \in Nat /\ tries \in Nat
    BY DEF SocketFeedsTypeOK
<1>2. ASSUME SocketClosed
      PROVE  /\ wsState' \in FeedStates /\ restState' \in FeedStates /\ restDeadline' \in BOOLEAN
             /\ retryTimers' \in Nat /\ tries' \in Nat
    <2>1. CASE UNCHANGED <<wsState, restState, restDeadline, retryTimers, tries>>
        BY <1>1, <2>1
    <2>2. CASE WsBecomes("failed") /\ UNCHANGED <<retryTimers, tries>>
        BY <1>1, <2>2 DEF WsBecomes, FeedStates
    <2>3. CASE WsBecomes("recovering") /\ retryTimers' = retryTimers + 1 /\ tries' = tries + 1
        BY <1>1, <2>3 DEF WsBecomes, FeedStates
    <2>. QED BY <1>2, <2>1, <2>2, <2>3, ClosedCases
<1>. QED BY <1>1, <1>2 DEF OnSocketClose, FeedStates

------------------------------------------------------------------------------
(* What is delivered after a sequence of images has been.                   *)

Tables == [FeedRows -> Nat]
LEMMA ToldTypes ==
    ASSUME NEW t \in Tables, NEW m \in FeedImage
    PROVE  Told(t, m) \in Tables
BY MessageFacts DEF Told, Tables

(* v has the table after each of the images.                                *)
IsReplayed(v, t, s) ==
    v[0] = t /\ \A m \in 1 .. Len(s) : v[m] = Told(v[m - 1], s[m])

\* Delivering images is delivering them one by one.
LEMMA ReplayedSteps ==
    ASSUME NEW c \in Tables, NEW us \in Seq(FeedImage)
    PROVE  \E v \in [0 .. Len(us) -> Tables] : IsReplayed(v, c, us) /\ Replayed(c, us) = v[Len(us)]
<1>. DEFINE n == Len(us)
            Is(it) == it = [s \in SUBSET (1 .. n) |-> IF s = {} THEN c ELSE Told(it[s \ {Max(s)}], us[Max(s)])]
            iter == CHOOSE it : Is(it)
            G == [x \in Tables \X (1 .. n) |-> Told(x[1], us[x[2]])]
<1>1. n \in Nat /\ DOMAIN us = 1 .. n OBVIOUS
<1>2. Replayed(c, us) = iter[1 .. n]
    BY <1>1 DEF Replayed, FoldLeft, MapThenFoldSet
<1>3. ASSUME NEW a \in Tables, NEW i \in 1 .. n PROVE Told(a, us[i]) \in Tables
    <2>1. us[i] \in FeedImage BY <1>1
    <2>. QED BY <2>1, ToldTypes
<1>4. /\ G \in [Tables \X (1 .. n) -> Tables]
      /\ \A a \in Tables, i \in 1 .. n : G[<<a, i>>] = Told(a, us[i])
    <2>. HIDE DEF n
    <2>. QED BY <1>3
<1>5. ASSUME NEW s \in SUBSET (1 .. n), s # {} PROVE Max(s) \in 1 .. n
    BY <1>1, <1>5, MaxIsLargest
<1>6. PICK it \in [SUBSET (1 .. n) -> Tables] : IsIteration(it, c, G, n)
    <2>. HIDE DEF n, G
    <2>. QED BY <1>1, <1>4, IterationExists
<1>. HIDE DEF G
<1>7. Is(it)
    <2>1. ASSUME NEW s \in SUBSET (1 .. n), s # {}
          PROVE  G[<<it[s \ {Max(s)}], Max(s)>>] = Told(it[s \ {Max(s)}], us[Max(s)])
        <3>1. s \ {Max(s)} \in SUBSET (1 .. n) OBVIOUS
        <3>. HIDE DEF n
        <3>. QED BY <1>4, <1>5, <1>6, <2>1, <3>1
    <2>. HIDE DEF n
    <2>. QED BY <1>6, <2>1 DEF IsIteration
<1>8. Is(iter)
    <2>. HIDE DEF Is
    <2>. QED BY <1>7
<1>9. PICK v \in [0 .. n -> Tables] : IsRun(v, c, G, n) /\ v[n] = iter[1 .. n]
    <2>1. iter[{}] = c BY <1>8
    <2>2. Follows(iter, Tables, G, n)
        <3>. HIDE DEF n, iter
        <3>. QED BY <1>4, <1>5, <1>8 DEF Follows
    <2>3. n \in Nat /\ \A a \in Tables, m \in 1 .. n : G[<<a, m>>] \in Tables
        <3>. HIDE DEF n
        <3>. QED BY <1>1, <1>3, <1>4
    <2>4. RunsThrough(iter, Tables, c, G, n)
        <3>. HIDE DEF n, iter, Is
        <3>. QED BY <2>1, <2>2, <2>3, IterationRuns
    <2>. HIDE DEF iter, Is, n
    <2>. QED BY <2>4 DEF RunsThrough
<1>10. IsReplayed(v, c, us)
    <2>1. ASSUME NEW m \in 1 .. n PROVE v[m] = Told(v[m - 1], us[m])
        <3>1. m - 1 \in 0 .. n BY <1>1
        <3>2. v[m - 1] \in Tables BY <1>9, <3>1
        <3>3. v[m] = G[<<v[m - 1], m>>] BY <1>9 DEF IsRun
        <3>. HIDE DEF n
        <3>. QED BY <1>4, <3>2, <3>3
    <2>. QED BY <1>9, <2>1 DEF IsReplayed, IsRun
<1>. HIDE DEF iter
<1>. QED BY <1>2, <1>9, <1>10

\* The last image of a row is the one that stays.
LEMMA ReplayedIs ==
    ASSUME NEW t \in Tables, NEW s \in Seq(FeedImage), NEW r \in FeedRows
    PROVE  /\ Replayed(t, s) \in Tables
           /\ ~HasRow(s, r) => Replayed(t, s)[r] = t[r]
           /\ \A v : HasRow(s, r) /\ EndsWith(s, r, v) => Replayed(t, s)[r] = v
<1>. DEFINE n == Len(s)
<1>1. PICK v \in [0 .. n -> Tables] : IsReplayed(v, t, s) /\ Replayed(t, s) = v[n] BY ReplayedSteps
<1>2. n \in Nat /\ \A i \in 1 .. n : s[i] \in FeedImage OBVIOUS
<1>3. v[0] = t /\ \A m \in 1 .. n : v[m] = Told(v[m - 1], s[m]) BY <1>1 DEF IsReplayed
<1>. HIDE DEF n
<1>. DEFINE IsLast(i, m) == s[i].row = r /\ \A j \in i + 1 .. m : s[j].row # r
            Tells(m) == \/ v[m][r] = t[r] /\ \A i \in 1 .. m : s[i].row # r
                        \/ \E i \in 1 .. m : IsLast(i, m) /\ v[m][r] = s[i].version
            Good == {m \in Nat : m <= n => Tells(m)}
<1>4. 0 \in Good BY <1>3
<1>5. ASSUME NEW m \in Nat, m \in Good PROVE m + 1 \in Good
    <2>1. SUFFICES ASSUME m + 1 <= n PROVE Tells(m + 1)
        <3>. HIDE DEF Tells
        <3>. QED OBVIOUS
    <2>2. m + 1 \in 1 .. n /\ (m + 1) - 1 = m /\ m <= n /\ m \in 0 .. n BY <1>2, <2>1
    <2>3. v[m] \in Tables /\ s[m + 1] \in FeedImage BY <1>1, <1>2, <2>2
    <2>4. v[m + 1] = Told(v[m], s[m + 1]) BY <1>3, <2>2
    <2>5. v[m + 1][r] = IF s[m + 1].row = r THEN s[m + 1].version ELSE v[m][r]
        BY <2>3, <2>4 DEF Told, Tables
    <2>6. CASE s[m + 1].row = r
        <3>1. m + 1 \in 1 .. (m + 1) /\ IsLast(m + 1, m + 1) BY <2>6
        <3>. HIDE DEF IsLast
        <3>. QED BY <2>5, <2>6, <3>1
    <2>7. CASE s[m + 1].row # r
        <3>1. v[m + 1][r] = v[m][r] BY <2>5, <2>7
        <3>2. ASSUME NEW i \in 1 .. m, IsLast(i, m) PROVE i \in 1 .. (m + 1) /\ IsLast(i, m + 1)
            <4>1. \A j \in i + 1 .. (m + 1) : j = m + 1 \/ j \in i + 1 .. m OBVIOUS
            <4>. QED BY <2>7, <3>2, <4>1
        <3>3. \A i \in 1 .. (m + 1) : i = m + 1 \/ i \in 1 .. m OBVIOUS
        <3>4. \/ v[m][r] = t[r] /\ \A i \in 1 .. m : s[i].row # r
              \/ \E i \in 1 .. m : IsLast(i, m) /\ v[m][r] = s[i].version
            BY <1>5, <2>2
        <3>. HIDE DEF IsLast
        <3>. QED BY <2>7, <3>1, <3>2, <3>3, <3>4
    <2>. QED BY <2>6, <2>7
<1>6. n \in Good
    <2>. HIDE DEF Good
    <2>. QED BY <1>2, <1>4, <1>5, Induction
<1>7. \A i \in 1 .. n : s[i] # End BY <1>2, MessageFacts
<1>8. v[n] \in Tables BY <1>1, <1>2
<1>9. \/ v[n][r] = t[r] /\ \A i \in 1 .. n : s[i].row # r
      \/ \E i \in 1 .. n : IsLast(i, n) /\ v[n][r] = s[i].version
    BY <1>2, <1>6
<1>. QED BY <1>1, <1>7, <1>8, <1>9 DEF HasRow, EndsWith, n

------------------------------------------------------------------------------
(* The steps of a feed keep the types of its variables.                     *)

LEMMA FeedTypes ==
    ASSUME SocketFeedsTypeOK, SocketFeedsNext
    PROVE  SocketFeedsTypeOK'
<1>1. ASSUME NEW r \in FeedRows, RowChanges(r) PROVE SocketFeedsTypeOK'
    BY <1>1, MessageFacts, TypesOfWires DEF RowChanges, SocketFeedsTypeOK,
           NeverSeen, SocketIds, Links, FeedStates, restOnly, upstreamOnly
<1>2. ASSUME NEW r \in FeedRows, PageRead(r) PROVE SocketFeedsTypeOK'
    BY <1>2, MessageFacts, TypesOfWires DEF PageRead, RowImage, SocketFeedsTypeOK,
           NeverSeen, SocketIds, Links, FeedStates, restOnly, upstreamOnly
<1>3. ASSUME NEW k \in SocketIds, NEW r \in FeedRows, UpstreamSends(k, r) PROVE SocketFeedsTypeOK'
    BY <1>3, MessageFacts, TypesOfWires DEF UpstreamSends, RowImage,
           SocketFeedsTypeOK, NeverSeen, SocketIds, Links, FeedStates, restOnly,
           upstreamOnly
<1>4. ASSUME NEW k \in SocketIds, UpstreamSubscribes(k) PROVE SocketFeedsTypeOK'
    BY <1>4 DEF UpstreamSubscribes, SocketFeedsTypeOK, NeverSeen, SocketIds,
           Links, FeedStates, restOnly, upstreamOnly
<1>5. ASSUME NEW k \in SocketIds, SocketOpens(k) PROVE SocketFeedsTypeOK'
    BY <1>5 DEF SocketOpens, Subscribing, WsBecomes, SocketFeedsTypeOK, NeverSeen,
           SocketIds, Links, FeedStates, restOnly, upstreamOnly
<1>6. ASSUME NEW k \in SocketIds, OnHandshake(k) PROVE SocketFeedsTypeOK'
    BY <1>6 DEF OnHandshake, SocketFeedsTypeOK, NeverSeen, SocketIds, Links,
           FeedStates, restOnly, upstreamOnly
<1>7. ASSUME NEW k \in SocketIds, OnJoined(k) PROVE SocketFeedsTypeOK'
    BY <1>7 DEF OnJoined, Subscribing, WsBecomes, SocketFeedsTypeOK, NeverSeen,
           SocketIds, Links, FeedStates, restOnly, upstreamOnly
<1>8. ASSUME NEW k \in SocketIds, JoinRefused(k) PROVE SocketFeedsTypeOK'
    BY <1>8 DEF JoinRefused, WsBecomes, SocketFeedsTypeOK, NeverSeen, SocketIds,
           Links, FeedStates, restOnly, upstreamOnly
<1>9. ASSUME NEW k \in SocketIds, RowArrives(k) PROVE SocketFeedsTypeOK'
    <2>1. Head(wire[k]) \in FeedImage /\ Tail(wire[k]) \in Seq(FeedMessage)
        BY <1>9, MessageFacts, TypesOfWires DEF RowArrives, SocketFeedsTypeOK
    <2>2. Told(delivered, Head(wire[k])) \in [FeedRows -> Nat]
        BY <2>1, ToldTypes DEF SocketFeedsTypeOK, Tables
    <2>3. Append(heldBack, Head(wire[k])) \in Seq(FeedImage)
        BY <2>1, TypesOfWires DEF SocketFeedsTypeOK
    <2>4. heldBack' \in Seq(FeedImage) /\ delivered' \in [FeedRows -> Nat]
        <3>1. heldBack \in Seq(FeedImage) /\ delivered \in [FeedRows -> Nat] BY DEF SocketFeedsTypeOK
        <3>2. CASE heldBack' = Append(heldBack, Head(wire[k])) /\ delivered' = delivered BY <2>3, <3>1, <3>2
        <3>3. CASE delivered' = Told(delivered, Head(wire[k])) /\ heldBack' = heldBack BY <2>2, <3>1, <3>3
        <3>. QED BY <1>9, <3>2, <3>3, RowCases
    <2>. QED BY <1>9, <2>1, <2>4 DEF RowArrives, SocketFeedsTypeOK, upstreamOnly
<1>10. ASSUME NEW k \in SocketIds, SentinelArrives(k) PROVE SocketFeedsTypeOK'
    BY <1>10, MessageFacts, TypesOfWires DEF SentinelArrives, SocketFeedsTypeOK,
           NeverSeen, SocketIds, Links, FeedStates, restOnly, upstreamOnly
<1>11. ASSUME NEW k \in SocketIds, StreamEnds(k) PROVE SocketFeedsTypeOK'
    <2>1. link' \in [SocketIds -> Links] BY <1>11 DEF StreamEnds, upstreamOnly, SocketFeedsTypeOK, Links
    <2>2. wire' \in [SocketIds -> Seq(FeedMessage)] BY <1>11, TypesOfWires DEF StreamEnds, upstreamOnly, SocketFeedsTypeOK
    <2>3. toCome' \in [SocketIds -> SUBSET FeedRows] BY <1>11 DEF StreamEnds, upstreamOnly, SocketFeedsTypeOK
    <2>4. missed' \subseteq FeedRows /\ drops' \in Nat
        <3>1. SentRows(wire[k]) \subseteq FeedRows BY MessageFacts DEF SocketFeedsTypeOK, SentRows
        <3>. QED BY <1>11, <3>1 DEF StreamEnds, upstreamOnly, SocketFeedsTypeOK
    <2>5. /\ wsState' \in FeedStates /\ restState' \in FeedStates
          /\ wsDeadline' \in BOOLEAN /\ restDeadline' \in BOOLEAN
          /\ retryTimers' \in Nat /\ tries' \in Nat
        BY <1>11, TypesOfClosing DEF StreamEnds, upstreamOnly
    <2>. QED BY <1>11, <2>1, <2>2, <2>3, <2>4, <2>5 DEF StreamEnds, upstreamOnly, SocketFeedsTypeOK
<1>12. ASSUME NEW k \in SocketIds, ClosePacketArrives(k) PROVE SocketFeedsTypeOK'
    <2>1. link' \in [SocketIds -> Links] BY <1>12 DEF ClosePacketArrives, SocketFeedsTypeOK, Links
    <2>2. wire' \in [SocketIds -> Seq(FeedMessage)] BY <1>12, TypesOfWires DEF ClosePacketArrives, SocketFeedsTypeOK
    <2>3. toCome' \in [SocketIds -> SUBSET FeedRows] BY <1>12 DEF ClosePacketArrives, SocketFeedsTypeOK
    <2>4. missed' \subseteq FeedRows /\ drops' \in Nat
        <3>1. SentRows(wire[k]) \subseteq FeedRows BY MessageFacts DEF SocketFeedsTypeOK, SentRows
        <3>. QED BY <1>12, <3>1 DEF ClosePacketArrives, SocketFeedsTypeOK
    <2>5. /\ wsState' \in FeedStates /\ restState' \in FeedStates
          /\ wsDeadline' \in BOOLEAN /\ restDeadline' \in BOOLEAN
          /\ retryTimers' \in Nat /\ tries' \in Nat
        BY <1>12, TypesOfClosing DEF ClosePacketArrives
    <2>. QED BY <1>12, <2>1, <2>2, <2>3, <2>4, <2>5 DEF ClosePacketArrives, SocketFeedsTypeOK
<1>13. ASSUME NEW k \in SocketIds, SocketDrops(k) PROVE SocketFeedsTypeOK'
    <2>1. link' \in [SocketIds -> Links] BY <1>13 DEF SocketDrops, SocketFeedsTypeOK, Links
    <2>2. wire' \in [SocketIds -> Seq(FeedMessage)] BY <1>13, TypesOfWires DEF SocketDrops, SocketFeedsTypeOK
    <2>3. toCome' \in [SocketIds -> SUBSET FeedRows] BY <1>13 DEF SocketDrops, SocketFeedsTypeOK
    <2>4. missed' \subseteq FeedRows /\ drops' \in Nat
        <3>1. SentRows(wire[k]) \subseteq FeedRows BY MessageFacts DEF SocketFeedsTypeOK, SentRows
        <3>. QED BY <1>13, <3>1 DEF SocketDrops, SocketFeedsTypeOK
    <2>5. /\ wsState' \in FeedStates /\ restState' \in FeedStates
          /\ wsDeadline' \in BOOLEAN /\ restDeadline' \in BOOLEAN
          /\ retryTimers' \in Nat /\ tries' \in Nat
        BY <1>13, TypesOfClosing DEF SocketDrops
    <2>. QED BY <1>13, <2>1, <2>2, <2>3, <2>4, <2>5 DEF SocketDrops, SocketFeedsTypeOK
<1>14. ASSUME WsDeadline PROVE SocketFeedsTypeOK'
    BY <1>14 DEF WsDeadline, WsBecomes, SocketFeedsTypeOK, NeverSeen, SocketIds,
           Links, FeedStates, restOnly, upstreamOnly
<1>15. ASSUME ReconnectFeed PROVE SocketFeedsTypeOK'
    <2>1. sockets \in SocketIds /\ link \in [SocketIds -> Links] /\ wsState \in FeedStates
        BY DEF SocketFeedsTypeOK
    <2>2. CASE UNCHANGED <<wsState, sockets, link>>
        BY <1>15, <2>2 DEF ReconnectFeed, SocketFeedsTypeOK, restOnly, upstreamOnly
    <2>3. CASE /\ sockets < MaxSockets /\ sockets' = sockets + 1 /\ wsState' = "connecting"
               /\ link' = [link EXCEPT ![sockets + 1] = "opening"]
        <3>1. sockets' \in SocketIds BY <2>1, <2>3 DEF SocketIds
        <3>2. link' \in [SocketIds -> Links] /\ wsState' \in FeedStates
            BY <2>1, <2>3 DEF Links, FeedStates
        <3>. QED BY <1>15, <3>1, <3>2 DEF ReconnectFeed, SocketFeedsTypeOK, restOnly, upstreamOnly
    <2>. QED BY <1>15, <2>2, <2>3, ReconnectCases
<1>16. ASSUME PageArrives PROVE SocketFeedsTypeOK'
    <2>1. Told(delivered, page[1]) \in Tables
        BY <1>16, TypesOfWires, ToldTypes DEF PageArrives, SocketFeedsTypeOK, Tables
    <2>2. Replayed(Told(delivered, page[1]), heldBack) \in Tables
        <3>1. PICK v \in [0 .. Len(heldBack) -> Tables] :
                  Replayed(Told(delivered, page[1]), heldBack) = v[Len(heldBack)]
            BY <2>1, ReplayedSteps DEF SocketFeedsTypeOK
        <3>. QED BY <3>1 DEF SocketFeedsTypeOK
    <2>. QED BY <1>16, <2>1, <2>2, TypesOfWires DEF PageArrives, SocketFeedsTypeOK, Tables, FeedStates, upstreamOnly
<1>17. ASSUME FetchFails PROVE SocketFeedsTypeOK'
    BY <1>17, MessageFacts, TypesOfWires DEF FetchFails, SocketFeedsTypeOK,
           NeverSeen, SocketIds, Links, FeedStates, restOnly, upstreamOnly
<1>18. ASSUME RestDeadline PROVE SocketFeedsTypeOK'
    BY <1>18 DEF RestDeadline, SocketFeedsTypeOK, NeverSeen, SocketIds, Links,
           FeedStates, restOnly, upstreamOnly
<1>19. ASSUME CloseFeed PROVE SocketFeedsTypeOK'
    <2>1. sockets \in SocketIds /\ SentRows(wire[sockets]) \subseteq FeedRows
        BY MessageFacts DEF SocketFeedsTypeOK, SentRows
    <2>2. link' \in [SocketIds -> Links] BY <1>19, <2>1 DEF CloseFeed, Current, SocketFeedsTypeOK, Links
    <2>3. wire' \in [SocketIds -> Seq(FeedMessage)]
        BY <1>19, <2>1, TypesOfWires DEF CloseFeed, Current, SocketFeedsTypeOK
    <2>4. toCome' \in [SocketIds -> SUBSET FeedRows] BY <1>19, <2>1 DEF CloseFeed, Current, SocketFeedsTypeOK
    <2>. QED BY <1>19, <2>1, <2>2, <2>3, <2>4, TypesOfWires
             DEF CloseFeed, Current, SocketFeedsTypeOK, FeedStates
<1>. QED BY <1>1, <1>2, <1>3, <1>4, <1>5, <1>6, <1>7, <1>8, <1>9, <1>10, <1>11,
       <1>12, <1>13, <1>14, <1>15, <1>16, <1>17, <1>18, <1>19 DEF SocketFeedsNext

LEMMA FeedSockets ==
    ASSUME SocketFeedsTypeOK, SocketInv, SocketFeedsNext
    PROVE  SocketInv'
<1>1. ASSUME NEW r \in FeedRows, RowChanges(r) PROVE SocketInv'
    BY <1>1 DEF RowChanges, SocketInv, SocketFeedsTypeOK, NeverSeen, SocketIds,
           Links, FeedStates, restOnly, upstreamOnly, Listening
<1>2. ASSUME NEW r \in FeedRows, PageRead(r) PROVE SocketInv'
    BY <1>2 DEF PageRead, RowImage, SocketInv, SocketFeedsTypeOK, NeverSeen,
           SocketIds, Links, FeedStates, restOnly, upstreamOnly, Listening
<1>3. ASSUME NEW k \in SocketIds, NEW r \in FeedRows, UpstreamSends(k, r) PROVE SocketInv'
    BY <1>3 DEF UpstreamSends, RowImage, SocketInv, SocketFeedsTypeOK, NeverSeen,
           SocketIds, Links, FeedStates, restOnly, upstreamOnly, Listening
<1>4. ASSUME NEW k \in SocketIds, UpstreamSubscribes(k) PROVE SocketInv'
    BY <1>4 DEF UpstreamSubscribes, SocketInv, SocketFeedsTypeOK, NeverSeen,
           SocketIds, Links, FeedStates, restOnly, upstreamOnly, Listening
<1>5. ASSUME NEW k \in SocketIds, SocketOpens(k) PROVE SocketInv'
    BY <1>5 DEF SocketOpens, Subscribing, WsBecomes, SocketInv, SocketFeedsTypeOK,
           NeverSeen, SocketIds, Links, FeedStates, restOnly, upstreamOnly,
           Listening
<1>6. ASSUME NEW k \in SocketIds, OnHandshake(k) PROVE SocketInv'
    BY <1>6 DEF OnHandshake, SocketInv, SocketFeedsTypeOK, NeverSeen, SocketIds,
           Links, FeedStates, restOnly, upstreamOnly, Listening
<1>7. ASSUME NEW k \in SocketIds, OnJoined(k) PROVE SocketInv'
    BY <1>7 DEF OnJoined, Subscribing, WsBecomes, SocketInv, SocketFeedsTypeOK,
           NeverSeen, SocketIds, Links, FeedStates, restOnly, upstreamOnly,
           Listening
<1>8. ASSUME NEW k \in SocketIds, JoinRefused(k) PROVE SocketInv'
    BY <1>8 DEF JoinRefused, WsBecomes, SocketInv, SocketFeedsTypeOK, NeverSeen,
           SocketIds, Links, FeedStates, restOnly, upstreamOnly, Listening
<1>9. ASSUME NEW k \in SocketIds, RowArrives(k) PROVE SocketInv'
    BY <1>9 DEF RowArrives, Told, SocketInv, SocketFeedsTypeOK, NeverSeen,
           SocketIds, Links, FeedStates, restOnly, upstreamOnly, Listening
<1>10. ASSUME NEW k \in SocketIds, SentinelArrives(k) PROVE SocketInv'
    BY <1>10 DEF SentinelArrives, SocketInv, SocketFeedsTypeOK, NeverSeen,
           SocketIds, Links, FeedStates, restOnly, upstreamOnly, Listening
<1>11. ASSUME NEW k \in SocketIds, StreamEnds(k) PROVE SocketInv'
    BY <1>11 DEF StreamEnds, OnSocketClose, EndsTheStream, SocketClosed,
           WsBecomes, SocketInv, SocketFeedsTypeOK, NeverSeen, SocketIds, Links,
           FeedStates, restOnly, upstreamOnly, Listening
<1>12. ASSUME NEW k \in SocketIds, ClosePacketArrives(k) PROVE SocketInv'
    BY <1>12 DEF ClosePacketArrives, SocketClosed, WsBecomes, SocketInv,
           SocketFeedsTypeOK, NeverSeen, SocketIds, Links, FeedStates, restOnly,
           upstreamOnly, Listening
<1>13. ASSUME NEW k \in SocketIds, SocketDrops(k) PROVE SocketInv'
    BY <1>13 DEF SocketDrops, OnSocketClose, EndsTheStream, SocketClosed,
           WsBecomes, SocketInv, SocketFeedsTypeOK, NeverSeen, SocketIds, Links,
           FeedStates, restOnly, upstreamOnly, Listening
<1>14. ASSUME WsDeadline PROVE SocketInv'
    BY <1>14 DEF WsDeadline, WsBecomes, SocketInv, SocketFeedsTypeOK, NeverSeen,
           SocketIds, Links, FeedStates, restOnly, upstreamOnly, Listening
<1>15. ASSUME ReconnectFeed PROVE SocketInv'
    <2>1. sockets \in SocketIds /\ link \in [SocketIds -> Links] BY DEF SocketFeedsTypeOK
    <2>2. CASE UNCHANGED <<wsState, sockets, link>>
        BY <1>15, <2>2 DEF ReconnectFeed, SocketInv, upstreamOnly
    <2>3. CASE /\ sockets < MaxSockets /\ sockets' = sockets + 1 /\ wsState' = "connecting"
               /\ link' = [link EXCEPT ![sockets + 1] = "opening"]
        <3>1. sockets + 1 \in SocketIds /\ link[sockets + 1] = "none" /\ wire' = wire /\ toCome' = toCome
            BY <1>15, <2>1, <2>3 DEF ReconnectFeed, SocketInv, SocketIds, upstreamOnly
        <3>. QED BY <2>1, <2>3, <3>1 DEF SocketInv, SocketIds
    <2>. QED BY <1>15, <2>2, <2>3, ReconnectCases
<1>16. ASSUME PageArrives PROVE SocketInv'
    BY <1>16 DEF PageArrives, Told, SocketInv, SocketFeedsTypeOK, NeverSeen,
           SocketIds, Links, FeedStates, restOnly, upstreamOnly, Listening
<1>17. ASSUME FetchFails PROVE SocketInv'
    BY <1>17 DEF FetchFails, SocketInv, SocketFeedsTypeOK, NeverSeen, SocketIds,
           Links, FeedStates, restOnly, upstreamOnly, Listening
<1>18. ASSUME RestDeadline PROVE SocketInv'
    BY <1>18 DEF RestDeadline, SocketInv, SocketFeedsTypeOK, NeverSeen, SocketIds,
           Links, FeedStates, restOnly, upstreamOnly, Listening
<1>19. ASSUME CloseFeed PROVE SocketInv'
    BY <1>19 DEF CloseFeed, Current, SocketInv, SocketFeedsTypeOK, NeverSeen,
           SocketIds, Links, FeedStates, restOnly, upstreamOnly, Listening
<1>. QED BY <1>1, <1>2, <1>3, <1>4, <1>5, <1>6, <1>7, <1>8, <1>9, <1>10, <1>11,
       <1>12, <1>13, <1>14, <1>15, <1>16, <1>17, <1>18, <1>19 DEF SocketFeedsNext

LEMMA FeedFetch ==
    ASSUME SocketFeedsTypeOK, FetchInv, SocketFeedsNext
    PROVE  FetchInv'
<1>1. ASSUME NEW r \in FeedRows, RowChanges(r) PROVE FetchInv'
    BY <1>1 DEF RowChanges, FetchInv, SocketFeedsTypeOK, restOnly, upstreamOnly
<1>2. ASSUME NEW r \in FeedRows, PageRead(r) PROVE FetchInv'
    BY <1>2 DEF PageRead, RowImage, FetchInv, SocketFeedsTypeOK, restOnly,
           upstreamOnly
<1>3. ASSUME NEW k \in SocketIds, NEW r \in FeedRows, UpstreamSends(k, r) PROVE FetchInv'
    BY <1>3 DEF UpstreamSends, RowImage, FetchInv, SocketFeedsTypeOK, restOnly,
           upstreamOnly
<1>4. ASSUME NEW k \in SocketIds, UpstreamSubscribes(k) PROVE FetchInv'
    BY <1>4 DEF UpstreamSubscribes, FetchInv, SocketFeedsTypeOK, restOnly,
           upstreamOnly
<1>5. ASSUME NEW k \in SocketIds, SocketOpens(k) PROVE FetchInv'
    BY <1>5 DEF SocketOpens, Subscribing, WsBecomes, FetchInv, SocketFeedsTypeOK,
           restOnly, upstreamOnly
<1>6. ASSUME NEW k \in SocketIds, OnHandshake(k) PROVE FetchInv'
    BY <1>6 DEF OnHandshake, FetchInv, SocketFeedsTypeOK, restOnly, upstreamOnly
<1>7. ASSUME NEW k \in SocketIds, OnJoined(k) PROVE FetchInv'
    BY <1>7 DEF OnJoined, Subscribing, WsBecomes, FetchInv, SocketFeedsTypeOK,
           restOnly, upstreamOnly
<1>8. ASSUME NEW k \in SocketIds, JoinRefused(k) PROVE FetchInv'
    BY <1>8 DEF JoinRefused, WsBecomes, FetchInv, SocketFeedsTypeOK, restOnly,
           upstreamOnly
<1>9. ASSUME NEW k \in SocketIds, RowArrives(k) PROVE FetchInv'
    BY <1>9 DEF RowArrives, Told, FetchInv, SocketFeedsTypeOK, restOnly,
           upstreamOnly
<1>10. ASSUME NEW k \in SocketIds, SentinelArrives(k) PROVE FetchInv'
    BY <1>10 DEF SentinelArrives, FetchInv, SocketFeedsTypeOK, restOnly,
           upstreamOnly
<1>11. ASSUME NEW k \in SocketIds, StreamEnds(k) PROVE FetchInv'
    BY <1>11 DEF StreamEnds, OnSocketClose, EndsTheStream, SocketClosed,
           WsBecomes, FetchInv, SocketFeedsTypeOK, restOnly, upstreamOnly
<1>12. ASSUME NEW k \in SocketIds, ClosePacketArrives(k) PROVE FetchInv'
    BY <1>12 DEF ClosePacketArrives, SocketClosed, WsBecomes, FetchInv,
           SocketFeedsTypeOK, restOnly, upstreamOnly
<1>13. ASSUME NEW k \in SocketIds, SocketDrops(k) PROVE FetchInv'
    BY <1>13 DEF SocketDrops, OnSocketClose, EndsTheStream, SocketClosed,
           WsBecomes, FetchInv, SocketFeedsTypeOK, restOnly, upstreamOnly
<1>14. ASSUME WsDeadline PROVE FetchInv'
    BY <1>14 DEF WsDeadline, WsBecomes, FetchInv, SocketFeedsTypeOK, restOnly,
           upstreamOnly
<1>15. ASSUME ReconnectFeed PROVE FetchInv'
    BY <1>15 DEF ReconnectFeed, FetchInv, SocketFeedsTypeOK, restOnly,
           upstreamOnly
<1>16. ASSUME PageArrives PROVE FetchInv'
    BY <1>16 DEF PageArrives, Told, FetchInv, SocketFeedsTypeOK, restOnly,
           upstreamOnly
<1>17. ASSUME FetchFails PROVE FetchInv'
    BY <1>17 DEF FetchFails, FetchInv, SocketFeedsTypeOK, restOnly, upstreamOnly
<1>18. ASSUME RestDeadline PROVE FetchInv'
    BY <1>18 DEF RestDeadline, FetchInv, SocketFeedsTypeOK, restOnly, upstreamOnly
<1>19. ASSUME CloseFeed PROVE FetchInv'
    BY <1>19 DEF CloseFeed, Current, FetchInv, SocketFeedsTypeOK, restOnly,
           upstreamOnly
<1>. QED BY <1>1, <1>2, <1>3, <1>4, <1>5, <1>6, <1>7, <1>8, <1>9, <1>10, <1>11,
       <1>12, <1>13, <1>14, <1>15, <1>16, <1>17, <1>18, <1>19 DEF SocketFeedsNext

------------------------------------------------------------------------------
(* What sequences of messages say of a row.                                 *)

LEMMA NothingSaid == \A r, v : ~HasRow(<<>>, r) /\ EndsWith(<<>>, r, v)
BY DEF HasRow, EndsWith

LEMMA SentIsThere ==
    ASSUME NEW s \in Seq(FeedMessage), NEW r
    PROVE  r \in SentRows(s) <=> HasRow(s, r)
BY DEF SentRows, HasRow

\* One more message.
LEMMA OneMoreSaid ==
    ASSUME NEW s \in Seq(FeedMessage), NEW m \in FeedMessage, NEW r
    PROVE  /\ HasRow(Append(s, m), r) <=> HasRow(s, r) \/ (m # End /\ m.row = r)
           /\ m # End /\ m.row = r => EndsWith(Append(s, m), r, m.version)
           /\ m = End \/ m.row # r => \A v : EndsWith(s, r, v) => EndsWith(Append(s, m), r, v)
<1>. DEFINE n == Len(s)
<1>1. PICK t : t = Append(s, m) OBVIOUS
<1>2. n \in Nat /\ Len(t) = n + 1 /\ t[n + 1] = m /\ \A i \in 1 .. n : t[i] = s[i]
    BY <1>1, AppendProperties
<1>3. \A i \in 1 .. (n + 1) : i = n + 1 \/ i \in 1 .. n BY <1>2
<1>4. n + 1 \in 1 .. (n + 1) /\ \A i \in 1 .. n : i \in 1 .. (n + 1) BY <1>2
<1>5. HasRow(t, r) <=> HasRow(s, r) \/ (m # End /\ m.row = r)
    <2>. HIDE DEF n
    <2>1. HasRow(t, r) <=> \E i \in 1 .. (n + 1) : t[i] # End /\ t[i].row = r BY <1>2 DEF HasRow
    <2>2. HasRow(s, r) <=> \E i \in 1 .. n : s[i] # End /\ s[i].row = r BY DEF HasRow, n
    <2>. QED BY <1>2, <1>3, <1>4, <2>1, <2>2
<1>6. ASSUME m # End, m.row = r PROVE EndsWith(t, r, m.version)
    <2>1. SUFFICES ASSUME NEW i \in 1 .. (n + 1), \A j \in i + 1 .. (n + 1) : t[j] = End \/ t[j].row # r
                   PROVE  t[i].version = m.version
        BY <1>2 DEF EndsWith
    <2>2. i = n + 1
        <3>1. SUFFICES ASSUME i \in 1 .. n PROVE FALSE BY <1>3
        <3>2. n + 1 \in i + 1 .. (n + 1) BY <1>2, <3>1
        <3>. QED BY <1>2, <1>6, <2>1, <3>2
    <2>. QED BY <1>2, <2>2
<1>7. ASSUME m = End \/ m.row # r, NEW v, EndsWith(s, r, v) PROVE EndsWith(t, r, v)
    <2>1. SUFFICES ASSUME NEW i \in 1 .. (n + 1), t[i] # End, t[i].row = r,
                          \A j \in i + 1 .. (n + 1) : t[j] = End \/ t[j].row # r
                   PROVE  t[i].version = v
        BY <1>2 DEF EndsWith
    <2>2. i \in 1 .. n BY <1>2, <1>3, <1>7, <2>1
    <2>3. \A j \in i + 1 .. n : j \in i + 1 .. (n + 1) /\ j \in 1 .. n BY <1>2, <2>2
    <2>4. \A j \in i + 1 .. n : s[j] = End \/ s[j].row # r BY <1>2, <2>1, <2>3
    <2>. QED BY <1>2, <1>7, <2>1, <2>2, <2>4 DEF EndsWith
<1>. QED BY <1>1, <1>5, <1>6, <1>7

\* One message taken.
LEMMA OneLessSaid ==
    ASSUME NEW s \in Seq(FeedMessage), s # <<>>, NEW r
    PROVE  /\ HasRow(s, r) <=> HasRow(Tail(s), r) \/ (Head(s) # End /\ Head(s).row = r)
           /\ \A v : EndsWith(s, r, v) =>
                 /\ EndsWith(Tail(s), r, v)
                 /\ HasRow(s, r) /\ ~HasRow(Tail(s), r) => Head(s).version = v
<1>. DEFINE n == Len(s)
<1>1. PICK t : t = Tail(s) OBVIOUS
<1>2. n \in Nat /\ n >= 1 /\ Len(t) = n - 1 /\ Head(s) = s[1] /\ \A i \in 1 .. (n - 1) : t[i] = s[i + 1]
    BY <1>1, HeadTailProperties
<1>3. /\ \A i \in 1 .. n : i = 1 \/ (i - 1 \in 1 .. (n - 1) /\ (i - 1) + 1 = i)
      /\ \A i \in 1 .. (n - 1) : i + 1 \in 1 .. n
      /\ 1 \in 1 .. n
    BY <1>2
<1>4. HasRow(s, r) <=> HasRow(t, r) \/ (s[1] # End /\ s[1].row = r)
    <2>. HIDE DEF n
    <2>1. HasRow(t, r) <=> \E i \in 1 .. (n - 1) : t[i] # End /\ t[i].row = r BY <1>2 DEF HasRow
    <2>2. HasRow(s, r) <=> \E i \in 1 .. n : s[i] # End /\ s[i].row = r BY DEF HasRow, n
    <2>3. ASSUME NEW i \in 1 .. n, s[i] # End, s[i].row = r PROVE HasRow(t, r) \/ (s[1] # End /\ s[1].row = r)
        <3>1. i = 1 \/ (i - 1 \in 1 .. (n - 1) /\ t[i - 1] = s[i]) BY <1>2, <1>3
        <3>. QED BY <2>1, <2>3, <3>1
    <2>4. ASSUME NEW i \in 1 .. (n - 1), t[i] # End, t[i].row = r PROVE HasRow(s, r)
        BY <1>2, <1>3, <2>2, <2>4
    <2>. QED BY <1>3, <2>1, <2>2, <2>3, <2>4
<1>5. ASSUME NEW v, EndsWith(s, r, v) PROVE EndsWith(t, r, v)
    <2>1. SUFFICES ASSUME NEW i \in 1 .. (n - 1), t[i] # End, t[i].row = r,
                          \A j \in i + 1 .. (n - 1) : t[j] = End \/ t[j].row # r
                   PROVE  t[i].version = v
        BY <1>2 DEF EndsWith
    <2>2. i + 1 \in 1 .. n /\ t[i] = s[i + 1] BY <1>2, <1>3
    <2>3. ASSUME NEW j \in (i + 1) + 1 .. n PROVE s[j] = End \/ s[j].row # r
        <3>1. j - 1 \in i + 1 .. (n - 1) /\ j - 1 \in 1 .. (n - 1) /\ (j - 1) + 1 = j BY <1>2
        <3>2. t[j - 1] = s[j] BY <1>2, <3>1
        <3>. QED BY <2>1, <3>1, <3>2
    <2>. QED BY <1>5, <2>1, <2>2, <2>3 DEF EndsWith
<1>6. ASSUME NEW v, EndsWith(s, r, v), HasRow(s, r), ~HasRow(t, r) PROVE s[1].version = v
    <2>1. s[1] # End /\ s[1].row = r BY <1>4, <1>6
    <2>2. ASSUME NEW j \in 1 + 1 .. n PROVE s[j] = End \/ s[j].row # r
        <3>1. j - 1 \in 1 .. (n - 1) /\ (j - 1) + 1 = j BY <1>2
        <3>2. t[j - 1] = s[j] BY <1>2, <3>1
        <3>. QED BY <1>2, <1>6, <3>1, <3>2 DEF HasRow
    <2>. QED BY <1>3, <1>6, <2>1, <2>2 DEF EndsWith
<1>. QED BY <1>1, <1>2, <1>4, <1>5, <1>6

------------------------------------------------------------------------------
(* Whoever is subscribed hears of every change.                             *)

(* What the wires and the last words depend on.                             *)
wordVars == <<shape, source, wire, pages, page, fetching, heldBack, closedByUs, delivered, missed>>

LEMMA WordsStay ==
    ASSUME WireInv, WordInv, UNCHANGED wordVars
    PROVE  WireInv' /\ WordInv'
BY DEF wordVars, WireInv, WordInv, GaveUp, LastWord, HasRow, EndsWith

\* A row is changed by one more image of it on the wires of those who listen.
LEMMA ChangeIsHeard ==
    ASSUME SocketFeedsTypeOK, SocketInv, WireInv, NEW r \in FeedRows, RowChanges(r)
    PROVE  /\ WireInv'
           /\ \A x \in FeedRows, k \in SocketIds :
                 HasRow(wire[k], x)' <=> HasRow(wire[k], x) \/ (x = r /\ k \in Listening)
<1>. DEFINE m == [row |-> r, version |-> source[r] + 1]
<1>1. m \in FeedMessage /\ m # End /\ m.row = r /\ m.version = source[r] + 1
    <2>1. source[r] + 1 \in Nat \ {NeverSeen} BY DEF SocketFeedsTypeOK, NeverSeen
    <2>. QED BY <2>1, MessageFacts
<1>2. \A x \in FeedRows : source'[x] = IF x = r THEN m.version ELSE source[x]
    BY <1>1 DEF RowChanges, SocketFeedsTypeOK
<1>3. \A k \in SocketIds : wire[k] \in Seq(FeedMessage) BY DEF SocketFeedsTypeOK
<1>. HIDE DEF m
<1>4. ASSUME NEW k \in SocketIds, NEW x \in FeedRows
      PROVE  /\ EndsWith(wire'[k], x, source'[x])
             /\ HasRow(wire'[k], x) <=> HasRow(wire[k], x) \/ (x = r /\ k \in Listening)
    <2>1. EndsWith(wire[k], x, source[x]) BY DEF WireInv
    <2>2. CASE k \in Listening
        <3>1. wire'[k] = Append(wire[k], m) BY <2>2 DEF RowChanges, m
        <3>. QED BY <1>1, <1>2, <1>3, <2>1, <2>2, <3>1, OneMoreSaid
    <2>3. CASE k \notin Listening
        <3>1. wire'[k] = <<>> /\ wire[k] = <<>> BY <2>3 DEF RowChanges, SocketInv, Listening
        <3>. QED BY <2>3, <3>1, NothingSaid
    <2>. QED BY <2>2, <2>3
<1>. QED BY <1>4 DEF WireInv

\* A row of a snapshot is sent, and the sentinel after the last.
LEMMA SnapshotIsHeard ==
    ASSUME SocketFeedsTypeOK, WireInv, NEW k \in SocketIds, NEW r \in FeedRows, UpstreamSends(k, r)
    PROVE  /\ WireInv'
           /\ \A x \in FeedRows, j \in SocketIds :
                 HasRow(wire[j], x)' <=> HasRow(wire[j], x) \/ (x = r /\ j = k)
<1>. DEFINE m == RowImage(r)
            s == Append(wire[k], m)
<1>1. m \in FeedImage /\ m \in FeedMessage /\ m # End /\ m.row = r /\ m.version = source[r]
    BY MessageFacts DEF SocketFeedsTypeOK, RowImage
<1>2. wire[k] \in Seq(FeedMessage) /\ s \in Seq(FeedMessage) /\ End \in FeedMessage
    BY <1>1, MessageFacts, TypesOfWires DEF SocketFeedsTypeOK
<1>3. source' = source BY DEF UpstreamSends
<1>4. \A j \in SocketIds \ {k} : wire'[j] = wire[j] BY DEF UpstreamSends, SocketFeedsTypeOK
<1>5. wire'[k] = s \/ wire'[k] = Append(s, End) BY DEF UpstreamSends, SocketFeedsTypeOK
<1>. HIDE DEF m
<1>6. ASSUME NEW x \in FeedRows
      PROVE  EndsWith(s, x, source[x]) /\ (HasRow(s, x) <=> HasRow(wire[k], x) \/ x = r)
    <2>1. EndsWith(wire[k], x, source[x]) BY DEF WireInv
    <2>. QED BY <1>1, <1>2, <2>1, OneMoreSaid
<1>. HIDE DEF s
<1>7. ASSUME NEW x \in FeedRows
      PROVE  EndsWith(wire'[k], x, source[x]) /\ (HasRow(wire'[k], x) <=> HasRow(wire[k], x) \/ x = r)
    <2>1. CASE wire'[k] = s BY <1>6, <2>1
    <2>2. CASE wire'[k] = Append(s, End) BY <1>2, <1>6, <2>2, OneMoreSaid
    <2>. QED BY <1>5, <2>1, <2>2
<1>. QED BY <1>3, <1>4, <1>7 DEF WireInv

\* Taking a message leaves the others.
LEMMA TakenIsHeard ==
    ASSUME SocketFeedsTypeOK, WireInv, NEW k \in SocketIds, wire[k] # <<>>,
           wire' = [wire EXCEPT ![k] = Tail(@)], source' = source
    PROVE  /\ WireInv'
           /\ \A x \in FeedRows, j \in SocketIds :
                 HasRow(wire[j], x) <=> HasRow(wire'[j], x) \/ (j = k /\ Head(wire[k]) # End /\ Head(wire[k]).row = x)
           /\ \A x \in FeedRows :
                 HasRow(wire[k], x) /\ ~HasRow(wire'[k], x) => Head(wire[k]).version = source[x]
<1>1. wire[k] \in Seq(FeedMessage) /\ wire'[k] = Tail(wire[k]) /\ \A j \in SocketIds \ {k} : wire'[j] = wire[j]
    BY DEF SocketFeedsTypeOK
<1>2. ASSUME NEW x \in FeedRows
      PROVE  /\ EndsWith(wire'[k], x, source[x])
             /\ HasRow(wire[k], x) <=> HasRow(wire'[k], x) \/ (Head(wire[k]) # End /\ Head(wire[k]).row = x)
             /\ HasRow(wire[k], x) /\ ~HasRow(wire'[k], x) => Head(wire[k]).version = source[x]
    <2>1. EndsWith(wire[k], x, source[x]) BY DEF WireInv
    <2>2. PICK s \in Seq(FeedMessage) : s = wire[k] BY <1>1
    <2>3. /\ EndsWith(Tail(s), x, source[x])
          /\ HasRow(s, x) <=> HasRow(Tail(s), x) \/ (Head(s) # End /\ Head(s).row = x)
          /\ HasRow(s, x) /\ ~HasRow(Tail(s), x) => Head(s).version = source[x]
        BY <2>1, <2>2, OneLessSaid
    <2>. QED BY <1>1, <2>2, <2>3
<1>. QED BY <1>1, <1>2 DEF WireInv

\* A socket that goes takes its messages with it: they are missed.
LEMMA LossIsMissed ==
    ASSUME SocketFeedsTypeOK, WireInv, NEW k \in SocketIds,
           wire' = [wire EXCEPT ![k] = <<>>], source' = source, missed' = missed \cup SentRows(wire[k])
    PROVE  /\ WireInv'
           /\ \A x \in FeedRows \ missed', j \in SocketIds : HasRow(wire[j], x) => HasRow(wire'[j], x)
<1>1. wire[k] \in Seq(FeedMessage) /\ wire'[k] = <<>> /\ \A j \in SocketIds \ {k} : wire'[j] = wire[j]
    BY DEF SocketFeedsTypeOK
<1>2. \A x : x \in SentRows(wire[k]) <=> HasRow(wire[k], x) BY <1>1, SentIsThere
<1>. QED BY <1>1, <1>2, NothingSaid DEF WireInv

LEMMA FeedWires ==
    ASSUME SocketFeedsTypeOK, SocketInv, WireInv, WordInv, SocketFeedsNext
    PROVE  WireInv'
<1>1. ASSUME NEW r \in FeedRows, RowChanges(r) PROVE WireInv'
    BY <1>1, ChangeIsHeard
<1>2. ASSUME NEW r \in FeedRows, PageRead(r) PROVE WireInv'
    <2>1. wire' = wire /\ source' = source BY <1>2 DEF PageRead, upstreamOnly
    <2>. QED BY <2>1 DEF WireInv, HasRow, EndsWith
<1>3. ASSUME NEW k \in SocketIds, NEW r \in FeedRows, UpstreamSends(k, r) PROVE WireInv'
    BY <1>3, SnapshotIsHeard
<1>4. ASSUME NEW k \in SocketIds, UpstreamSubscribes(k) PROVE WireInv'
    <2>. UNCHANGED wordVars BY <1>4 DEF UpstreamSubscribes, wordVars, restOnly, upstreamOnly
    <2>. QED BY WordsStay
<1>5. ASSUME NEW k \in SocketIds, SocketOpens(k) PROVE WireInv'
    <2>. UNCHANGED wordVars BY <1>5 DEF SocketOpens, wordVars, restOnly, upstreamOnly
    <2>. QED BY WordsStay
<1>6. ASSUME NEW k \in SocketIds, OnHandshake(k) PROVE WireInv'
    <2>. UNCHANGED wordVars BY <1>6 DEF OnHandshake, wordVars, restOnly, upstreamOnly
    <2>. QED BY WordsStay
<1>7. ASSUME NEW k \in SocketIds, OnJoined(k) PROVE WireInv'
    <2>. UNCHANGED wordVars BY <1>7 DEF OnJoined, wordVars, restOnly, upstreamOnly
    <2>. QED BY WordsStay
<1>8. ASSUME NEW k \in SocketIds, JoinRefused(k) PROVE WireInv'
    <2>. UNCHANGED wordVars BY <1>8 DEF JoinRefused, wordVars, restOnly, upstreamOnly
    <2>. QED BY WordsStay
<1>9. ASSUME NEW k \in SocketIds, RowArrives(k) PROVE WireInv'
    BY <1>9, TakenIsHeard DEF RowArrives, upstreamOnly
<1>10. ASSUME NEW k \in SocketIds, SentinelArrives(k) PROVE WireInv'
    BY <1>10, TakenIsHeard DEF SentinelArrives, upstreamOnly
<1>11. ASSUME NEW k \in SocketIds, StreamEnds(k) PROVE WireInv'
    <2>. UNCHANGED wordVars BY <1>11 DEF StreamEnds, wordVars, restOnly, upstreamOnly
    <2>. QED BY WordsStay
<1>12. ASSUME NEW k \in SocketIds, ClosePacketArrives(k) PROVE WireInv'
    <2>. UNCHANGED wordVars BY <1>12 DEF ClosePacketArrives, wordVars, restOnly, upstreamOnly
    <2>. QED BY WordsStay
<1>13. ASSUME NEW k \in SocketIds, SocketDrops(k) PROVE WireInv'
    BY <1>13, LossIsMissed DEF SocketDrops
<1>14. ASSUME WsDeadline PROVE WireInv'
    <2>. UNCHANGED wordVars BY <1>14 DEF WsDeadline, wordVars, restOnly, upstreamOnly
    <2>. QED BY WordsStay
<1>15. ASSUME ReconnectFeed PROVE WireInv'
    <2>. UNCHANGED wordVars BY <1>15 DEF ReconnectFeed, wordVars, restOnly, upstreamOnly
    <2>. QED BY WordsStay
<1>16. ASSUME PageArrives PROVE WireInv'
    <2>1. wire' = wire /\ source' = source BY <1>16 DEF PageArrives, upstreamOnly
    <2>. QED BY <2>1 DEF WireInv, HasRow, EndsWith
<1>17. ASSUME FetchFails PROVE WireInv'
    <2>1. wire' = wire /\ source' = source BY <1>17 DEF FetchFails, upstreamOnly
    <2>. QED BY <2>1 DEF WireInv, HasRow, EndsWith
<1>18. ASSUME RestDeadline PROVE WireInv'
    <2>. UNCHANGED wordVars BY <1>18 DEF RestDeadline, wordVars, restOnly, upstreamOnly
    <2>. QED BY WordsStay
<1>19. ASSUME CloseFeed PROVE WireInv'
    <2>1. sockets \in SocketIds BY DEF SocketFeedsTypeOK
    <2>. QED BY <1>19, <2>1, LossIsMissed DEF CloseFeed, Current
<1>. QED BY <1>1, <1>2, <1>3, <1>4, <1>5, <1>6, <1>7, <1>8, <1>9, <1>10, <1>11,
       <1>12, <1>13, <1>14, <1>15, <1>16, <1>17, <1>18, <1>19 DEF SocketFeedsNext

------------------------------------------------------------------------------
(* The last word on a row is its last image.                                *)

\* What is to be shown of a step.
Spoken(x) == \A k \in SocketIds : ~HasRow(wire[k], x)

LEMMA WordsFollow ==
    ASSUME \A x \in FeedRows : ~GaveUp' /\ x \notin missed' /\ Spoken(x)' => LastWord(x)'
    PROVE  WordInv'
BY DEF WordInv, Spoken

LEMMA WordsKnown ==
    ASSUME WordInv, ~GaveUp, NEW x \in FeedRows, x \notin missed, Spoken(x)
    PROVE  LastWord(x)
BY DEF WordInv, Spoken

LEMMA FeedWords ==
    ASSUME SocketFeedsTypeOK, SocketInv, FetchInv, WireInv, WordInv, SocketFeedsNext
    PROVE  WordInv'
<1>1. ASSUME NEW r \in FeedRows, RowChanges(r) PROVE WordInv'
    <2>0. SUFFICES ASSUME NEW x \in FeedRows, ~GaveUp', x \notin missed', Spoken(x)' PROVE LastWord(x)'
        BY WordsFollow
    <2>1. x # r
        <3>1. SUFFICES ASSUME x = r PROVE FALSE OBVIOUS
        <3>2. Listening = {} BY <1>1, <2>0, <3>1, ChangeIsHeard DEF Spoken, Listening
        <3>3. Cardinality(Listening) # 1 BY <3>2, FS_EmptySet
        <3>. QED BY <1>1, <2>0, <3>1, <3>3 DEF RowChanges
    <2>2. x \notin missed BY <1>1, <2>0, <2>1 DEF RowChanges
    <2>3. Spoken(x) BY <1>1, <2>0, <2>1, ChangeIsHeard DEF Spoken
    <2>4. ~GaveUp BY <1>1, <2>0 DEF GaveUp, RowChanges, restOnly
    <2>5. LastWord(x) BY <2>2, <2>3, <2>4, WordsKnown
    <2>6. heldBack' = heldBack /\ page' = page /\ delivered' = delivered /\ source'[x] = source[x]
        BY <1>1, <2>1 DEF RowChanges, restOnly, SocketFeedsTypeOK
    <2>. QED BY <2>5, <2>6 DEF LastWord
<1>2. ASSUME NEW r \in FeedRows, PageRead(r) PROVE WordInv'
    <2>0. SUFFICES ASSUME NEW x \in FeedRows, ~GaveUp', x \notin missed', Spoken(x)' PROVE LastWord(x)'
        BY WordsFollow
    <2>1. /\ wire' = wire /\ source' = source /\ heldBack' = heldBack /\ delivered' = delivered
          /\ page = <<>> /\ page' = <<RowImage(r)>> /\ missed' = missed \ ({r} \ SentRows(heldBack))
        BY <1>2 DEF PageRead
    <2>2. ~GaveUp BY <1>2 DEF PageRead, GaveUp, FetchInv
    <2>3. Spoken(x) BY <2>0, <2>1 DEF Spoken
    <2>4. heldBack \in Seq(FeedMessage)
        BY MessageFacts, SeqMonotonic DEF SocketFeedsTypeOK
    <2>5. RowImage(r).row = r /\ RowImage(r).version = source[r] BY DEF RowImage
    <2>6. CASE x \notin missed
        <3>1. LastWord(x) BY <2>2, <2>3, <2>6, WordsKnown
        <3>2. CASE x = r BY <2>1, <2>5, <3>1, <3>2 DEF LastWord, Says
        <3>3. CASE x # r BY <2>1, <2>5, <3>1, <3>3 DEF LastWord, Says
        <3>. QED BY <3>2, <3>3
    <2>7. CASE x \in missed
        <3>1. x = r /\ ~HasRow(heldBack, r) BY <2>0, <2>1, <2>4, <2>7, SentIsThere
        <3>. QED BY <2>1, <2>5, <3>1 DEF LastWord, Says
    <2>. QED BY <2>6, <2>7
<1>3. ASSUME NEW k \in SocketIds, NEW r \in FeedRows, UpstreamSends(k, r) PROVE WordInv'
    <2>0. SUFFICES ASSUME NEW x \in FeedRows, ~GaveUp', x \notin missed', Spoken(x)' PROVE LastWord(x)'
        BY WordsFollow
    <2>1. x # r /\ Spoken(x) BY <1>3, <2>0, SnapshotIsHeard DEF Spoken
    <2>2. x \notin missed BY <1>3, <2>0, <2>1 DEF UpstreamSends
    <2>3. ~GaveUp BY <1>3, <2>0 DEF GaveUp, UpstreamSends, restOnly
    <2>4. LastWord(x) BY <2>1, <2>2, <2>3, WordsKnown
    <2>. QED BY <1>3, <2>4 DEF LastWord, UpstreamSends, restOnly
<1>4. ASSUME NEW k \in SocketIds, UpstreamSubscribes(k) PROVE WordInv'
    <2>. UNCHANGED wordVars BY <1>4 DEF UpstreamSubscribes, wordVars, restOnly, upstreamOnly
    <2>. QED BY WordsStay
<1>5. ASSUME NEW k \in SocketIds, SocketOpens(k) PROVE WordInv'
    <2>. UNCHANGED wordVars BY <1>5 DEF SocketOpens, wordVars, restOnly, upstreamOnly
    <2>. QED BY WordsStay
<1>6. ASSUME NEW k \in SocketIds, OnHandshake(k) PROVE WordInv'
    <2>. UNCHANGED wordVars BY <1>6 DEF OnHandshake, wordVars, restOnly, upstreamOnly
    <2>. QED BY WordsStay
<1>7. ASSUME NEW k \in SocketIds, OnJoined(k) PROVE WordInv'
    <2>. UNCHANGED wordVars BY <1>7 DEF OnJoined, wordVars, restOnly, upstreamOnly
    <2>. QED BY WordsStay
<1>8. ASSUME NEW k \in SocketIds, JoinRefused(k) PROVE WordInv'
    <2>. UNCHANGED wordVars BY <1>8 DEF JoinRefused, wordVars, restOnly, upstreamOnly
    <2>. QED BY WordsStay
<1>9. ASSUME NEW k \in SocketIds, RowArrives(k) PROVE WordInv'
    <2>0. SUFFICES ASSUME NEW x \in FeedRows, ~GaveUp', x \notin missed', Spoken(x)' PROVE LastWord(x)'
        BY WordsFollow
    <2>. DEFINE m == Head(wire[k])
    <2>1. /\ wire[k] # <<>> /\ m # End /\ wire' = [wire EXCEPT ![k] = Tail(@)]
          /\ source' = source /\ missed' = missed /\ page' = page
        BY <1>9 DEF RowArrives, upstreamOnly
    <2>2. m \in FeedImage /\ m \in FeedMessage BY <2>1, MessageFacts, TypesOfWires DEF SocketFeedsTypeOK
    <2>3. ~GaveUp BY <1>9, <2>0 DEF GaveUp, RowArrives
    <2>. HIDE DEF m
    <2>4. m.row = x => m.version = source[x]
        BY <1>9, <2>0, <2>1, TakenIsHeard DEF Spoken, m
    <2>5. m.row # x => Spoken(x)
        BY <1>9, <2>0, <2>1, TakenIsHeard DEF Spoken, m
    <2>6. m.row # x => LastWord(x) BY <2>0, <2>1, <2>3, <2>5, WordsKnown
    <2>7. CASE heldBack' = Append(heldBack, m) /\ delivered' = delivered
        <3>1. heldBack \in Seq(FeedMessage) BY MessageFacts, SeqMonotonic DEF SocketFeedsTypeOK
        <3>2. CASE m.row = x
            <4>1. HasRow(heldBack', x) /\ EndsWith(heldBack', x, source[x])
                BY <2>1, <2>2, <2>4, <2>7, <3>1, <3>2, OneMoreSaid
            <4>. QED BY <2>1, <4>1 DEF LastWord, Says
        <3>3. CASE m.row # x
            <4>1. /\ HasRow(heldBack', x) <=> HasRow(heldBack, x)
                  /\ EndsWith(heldBack, x, source[x]) => EndsWith(heldBack', x, source[x])
                BY <2>2, <2>7, <3>1, <3>3, OneMoreSaid
            <4>. QED BY <2>1, <2>6, <2>7, <3>3, <4>1 DEF LastWord, Says
        <3>. QED BY <3>2, <3>3
    <2>8. CASE ~(shape = "rest" /\ fetching) /\ delivered' = Told(delivered, m) /\ heldBack' = heldBack
        <3>1. heldBack = <<>> /\ page = <<>>
            BY <2>3, <2>8 DEF GaveUp, FetchInv
        <3>2. delivered'[x] = IF m.row = x THEN m.version ELSE delivered[x]
            BY <2>2, <2>8 DEF Told, SocketFeedsTypeOK
        <3>. QED BY <2>1, <2>4, <2>6, <2>8, <3>1, <3>2, NothingSaid DEF LastWord, Says
    <2>. QED BY <1>9, <2>7, <2>8, RowCases DEF m
<1>10. ASSUME NEW k \in SocketIds, SentinelArrives(k) PROVE WordInv'
    <2>0. SUFFICES ASSUME NEW x \in FeedRows, ~GaveUp', x \notin missed', Spoken(x)' PROVE LastWord(x)'
        BY WordsFollow
    <2>1. /\ wire[k] # <<>> /\ Head(wire[k]) = End /\ wire' = [wire EXCEPT ![k] = Tail(@)]
          /\ source' = source /\ missed' = missed
          /\ UNCHANGED <<shape, closedByUs, fetching, pages, page, heldBack, delivered>>
        BY <1>10 DEF SentinelArrives, restOnly, upstreamOnly
    <2>2. ~GaveUp BY <2>0, <2>1 DEF GaveUp
    <2>3. Spoken(x) BY <2>0, <2>1, TakenIsHeard DEF Spoken
    <2>4. LastWord(x) BY <2>0, <2>1, <2>2, <2>3, WordsKnown
    <2>. QED BY <2>1, <2>4 DEF LastWord
<1>11. ASSUME NEW k \in SocketIds, StreamEnds(k) PROVE WordInv'
    <2>. UNCHANGED wordVars BY <1>11 DEF StreamEnds, wordVars, restOnly, upstreamOnly
    <2>. QED BY WordsStay
<1>12. ASSUME NEW k \in SocketIds, ClosePacketArrives(k) PROVE WordInv'
    <2>. UNCHANGED wordVars BY <1>12 DEF ClosePacketArrives, wordVars, restOnly, upstreamOnly
    <2>. QED BY WordsStay
<1>13. ASSUME NEW k \in SocketIds, SocketDrops(k) PROVE WordInv'
    <2>0. SUFFICES ASSUME NEW x \in FeedRows, ~GaveUp', x \notin missed', Spoken(x)' PROVE LastWord(x)'
        BY WordsFollow
    <2>1. /\ wire' = [wire EXCEPT ![k] = <<>>] /\ missed' = missed \cup SentRows(wire[k])
          /\ UNCHANGED <<shape, source, closedByUs, fetching, pages, page, heldBack, delivered>>
        BY <1>13 DEF SocketDrops
    <2>2. ~GaveUp BY <2>0, <2>1 DEF GaveUp
    <2>3. Spoken(x) BY <2>0, <2>1, LossIsMissed DEF Spoken
    <2>4. LastWord(x) BY <2>0, <2>1, <2>2, <2>3, WordsKnown
    <2>. QED BY <2>1, <2>4 DEF LastWord
<1>14. ASSUME WsDeadline PROVE WordInv'
    <2>. UNCHANGED wordVars BY <1>14 DEF WsDeadline, wordVars, restOnly, upstreamOnly
    <2>. QED BY WordsStay
<1>15. ASSUME ReconnectFeed PROVE WordInv'
    <2>. UNCHANGED wordVars BY <1>15 DEF ReconnectFeed, wordVars, restOnly, upstreamOnly
    <2>. QED BY WordsStay
<1>16. ASSUME PageArrives PROVE WordInv'
    <2>0. SUFFICES ASSUME NEW x \in FeedRows, ~GaveUp', x \notin missed', Spoken(x)' PROVE LastWord(x)'
        BY WordsFollow
    <2>. DEFINE m == page[1]
            now == Told(delivered, m)
    <2>1. /\ page # <<>> /\ fetching /\ page' = <<>>
          /\ wire' = wire /\ source' = source /\ missed' = missed
        BY <1>16 DEF PageArrives, upstreamOnly
    <2>2. m \in FeedImage BY <2>1, TypesOfWires DEF SocketFeedsTypeOK
    <2>3. ~GaveUp BY <2>1 DEF GaveUp, FetchInv
    <2>4. LastWord(x) BY <2>0, <2>1, <2>3, WordsKnown DEF Spoken
    <2>5. now \in Tables /\ now[x] = IF m.row = x THEN m.version ELSE delivered[x]
        BY <2>2, ToldTypes DEF Told, SocketFeedsTypeOK, Tables
    <2>6. CASE pages # {}
        <3>1. delivered' = now /\ heldBack' = heldBack BY <1>16, <2>6 DEF PageArrives
        <3>. QED BY <2>1, <2>4, <2>5, <3>1 DEF LastWord, Says
    <2>7. CASE pages = {}
        <3>1. delivered' = Replayed(now, heldBack) /\ heldBack' = <<>> BY <1>16, <2>7 DEF PageArrives
        <3>. HIDE DEF now, m
        <3>2. /\ ~HasRow(heldBack, x) => delivered'[x] = now[x]
              /\ HasRow(heldBack, x) /\ EndsWith(heldBack, x, source[x]) => delivered'[x] = source[x]
            BY <2>5, <3>1, ReplayedIs DEF SocketFeedsTypeOK
        <3>. QED BY <2>1, <2>4, <2>5, <3>1, <3>2, NothingSaid DEF LastWord, Says, m
    <2>. QED BY <2>6, <2>7
<1>17. ASSUME FetchFails PROVE WordInv'
    <2>1. GaveUp' BY <1>17 DEF FetchFails, GaveUp, FetchInv
    <2>. QED BY <2>1 DEF WordInv
<1>18. ASSUME RestDeadline PROVE WordInv'
    <2>. UNCHANGED wordVars BY <1>18 DEF RestDeadline, wordVars, restOnly, upstreamOnly
    <2>. QED BY WordsStay
<1>19. ASSUME CloseFeed PROVE WordInv'
    <2>1. CASE shape = "rest"
        <3>1. GaveUp' BY <1>19, <2>1 DEF CloseFeed, GaveUp
        <3>. QED BY <3>1 DEF WordInv
    <2>2. CASE shape # "rest"
        <3>0. SUFFICES ASSUME NEW x \in FeedRows, ~GaveUp', x \notin missed', Spoken(x)' PROVE LastWord(x)'
            BY WordsFollow
        <3>1. /\ wire' = [wire EXCEPT ![sockets] = <<>>] /\ missed' = missed \cup SentRows(wire[sockets])
              /\ source' = source /\ heldBack' = heldBack /\ delivered' = delivered /\ page' = <<>> /\ page = <<>>
            BY <1>19, <2>2 DEF CloseFeed, Current, FetchInv
        <3>2. ~GaveUp BY <2>2 DEF GaveUp
        <3>3. Spoken(x) BY <3>0, <3>1, LossIsMissed DEF Spoken, SocketFeedsTypeOK
        <3>4. LastWord(x) BY <3>0, <3>1, <3>2, <3>3, WordsKnown
        <3>. QED BY <3>1, <3>4 DEF LastWord
    <2>. QED BY <2>1, <2>2
<1>. QED BY <1>1, <1>2, <1>3, <1>4, <1>5, <1>6, <1>7, <1>8, <1>9, <1>10, <1>11,
       <1>12, <1>13, <1>14, <1>15, <1>16, <1>17, <1>18, <1>19 DEF SocketFeedsNext

------------------------------------------------------------------------------
(* A feed with a sentinel that keeps its socket.                            *)

LEMMA Sentinels ==
    /\ ~HasEnd(<<>>)
    /\ \A s \in Seq(FeedMessage), m \in FeedMessage : HasEnd(Append(s, m)) <=> HasEnd(s) \/ m = End
    /\ \A s \in Seq(FeedMessage) :
          s # <<>> => (HasEnd(Tail(s)) => HasEnd(s)) /\ (Head(s) = End => HasEnd(s))
<1>1. ~HasEnd(<<>>) BY DEF HasEnd
<1>2. ASSUME NEW s \in Seq(FeedMessage), NEW m \in FeedMessage
      PROVE  HasEnd(Append(s, m)) <=> HasEnd(s) \/ m = End
    <2>. DEFINE n == Len(s)
    <2>1. PICK t : t = Append(s, m) OBVIOUS
    <2>2. n \in Nat /\ Len(t) = n + 1 /\ t[n + 1] = m /\ \A i \in 1 .. n : t[i] = s[i]
        BY <2>1, AppendProperties
    <2>3. \A i \in 1 .. (n + 1) : i = n + 1 \/ i \in 1 .. n BY <2>2
    <2>4. n + 1 \in 1 .. (n + 1) /\ \A i \in 1 .. n : i \in 1 .. (n + 1) BY <2>2
    <2>. HIDE DEF n
    <2>5. HasEnd(t) <=> \E i \in 1 .. (n + 1) : t[i] = End BY <2>2 DEF HasEnd
    <2>6. HasEnd(s) <=> \E i \in 1 .. n : s[i] = End BY DEF HasEnd, n
    <2>. QED BY <2>1, <2>2, <2>3, <2>4, <2>5, <2>6
<1>3. ASSUME NEW s \in Seq(FeedMessage), s # <<>>
      PROVE  (HasEnd(Tail(s)) => HasEnd(s)) /\ (Head(s) = End => HasEnd(s))
    <2>1. PICK t : t = Tail(s) OBVIOUS
    <2>2. /\ Len(s) \in Nat /\ Len(s) >= 1 /\ Len(t) = Len(s) - 1 /\ Head(s) = s[1]
          /\ \A i \in 1 .. (Len(s) - 1) : t[i] = s[i + 1]
        BY <1>3, <2>1, HeadTailProperties
    <2>3. HasEnd(t) => HasEnd(s)
        <3>1. SUFFICES ASSUME NEW i \in 1 .. (Len(s) - 1), t[i] = End PROVE HasEnd(s)
            BY <2>2 DEF HasEnd
        <3>2. i + 1 \in 1 .. Len(s) /\ s[i + 1] = End BY <2>2, <3>1
        <3>. QED BY <3>2 DEF HasEnd
    <2>. QED BY <2>1, <2>2, <2>3 DEF HasEnd
<1>. QED BY <1>1, <1>2, <1>3

\* It is the only one.
LEMMA OneSocket ==
    ASSUME SocketFeedsTypeOK, SocketInv, sockets = 1
    PROVE  /\ 1 \in SocketIds
           /\ \A k \in SocketIds : link[k] # "none" \/ wire[k] # <<>> \/ toCome[k] # {} => k = 1
           /\ link[1] = "subscribed" => Listening = {1}
<1>1. 1 \in SocketIds BY DEF FeedAssumption, SocketIds
<1>2. \A k \in SocketIds : k = 1 \/ k > 1 BY DEF SocketIds
<1>3. \A k \in SocketIds : link[k] # "none" \/ wire[k] # <<>> \/ toCome[k] # {} => k = 1
    BY <1>2 DEF SocketInv
<1>. QED BY <1>1, <1>3 DEF Listening

LEMMA FeedKept ==
    ASSUME SocketFeedsTypeOK, SocketInv, KeptInv, SocketFeedsNext
    PROVE  KeptInv'
<1>1. ASSUME NEW r \in FeedRows, RowChanges(r) PROVE KeptInv'
    <2>0. SUFFICES ASSUME WithSentinel' PROVE Kept' BY DEF KeptInv
    <2>1. WithSentinel /\ Kept BY <1>1, <2>0 DEF KeptInv, WithSentinel, RowChanges
    <2>. DEFINE m == [row |-> r, version |-> source[r] + 1]
    <2>2. m \in FeedMessage /\ m # End
        <3>1. source[r] + 1 \in Nat \ {NeverSeen} BY DEF SocketFeedsTypeOK, NeverSeen
        <3>. QED BY <3>1, MessageFacts
    <2>3. 1 \in SocketIds /\ (link[1] = "subscribed" => Listening = {1})
        BY <2>1, OneSocket DEF Kept
    <2>4. wire'[1] = wire[1] \/ wire'[1] = Append(wire[1], m) BY <1>1, <2>3 DEF RowChanges
    <2>. HIDE DEF m
    <2>5. HasEnd(wire'[1]) => HasEnd(wire[1]) BY <2>2, <2>3, <2>4, Sentinels DEF SocketFeedsTypeOK
    <2>6. link[1] = "subscribed" => missed' \subseteq missed
        <3>1. SUFFICES ASSUME link[1] = "subscribed" PROVE missed' \subseteq missed OBVIOUS
        <3>2. Cardinality(Listening) = 1 BY <2>3, <3>1, FS_Singleton
        <3>. QED BY <1>1, <3>2 DEF RowChanges
    <2>. QED BY <1>1, <2>1, <2>5, <2>6 DEF Kept, RowChanges
<1>2. ASSUME NEW r \in FeedRows, PageRead(r) PROVE KeptInv'
    BY <1>2 DEF PageRead, RowImage, KeptInv, WithSentinel, Kept, HasEnd,
           SocketInv, SocketFeedsTypeOK, restOnly, upstreamOnly
<1>3. ASSUME NEW k \in SocketIds, NEW r \in FeedRows, UpstreamSends(k, r) PROVE KeptInv'
    <2>0. SUFFICES ASSUME WithSentinel' PROVE Kept' BY DEF KeptInv
    <2>1. WithSentinel /\ Kept BY <1>3, <2>0 DEF KeptInv, WithSentinel, UpstreamSends
    <2>2. r \in toCome[k] BY <1>3 DEF UpstreamSends
    <2>3. k = 1 /\ link[1] = "subscribed" /\ Listening = {1}
        BY <2>1, <2>2, OneSocket DEF Kept, SocketInv
    <2>4. /\ toCome'[1] = toCome[1] \ {r} /\ missed' = missed \ {r} /\ link' = link
          /\ sockets' = sockets /\ retryTimers' = retryTimers /\ wsState' = wsState
        BY <1>3, <2>3 DEF UpstreamSends, SocketFeedsTypeOK
    <2>5. wsState # "live" /\ ~HasEnd(wire[1]) BY <2>1, <2>2, <2>3 DEF Kept
    <2>6. ASSUME toCome[1] # {r} PROVE ~HasEnd(wire'[1])
        <3>. DEFINE m == RowImage(r)
        <3>1. m \in FeedMessage /\ m # End BY MessageFacts DEF SocketFeedsTypeOK, RowImage
        <3>2. wire'[1] = Append(wire[1], m) BY <1>3, <2>3, <2>6 DEF UpstreamSends, SocketFeedsTypeOK
        <3>. HIDE DEF m
        <3>. QED BY <2>3, <2>5, <3>1, <3>2, Sentinels DEF SocketFeedsTypeOK
    <2>. QED BY <2>1, <2>3, <2>4, <2>5, <2>6 DEF Kept
<1>4. ASSUME NEW k \in SocketIds, UpstreamSubscribes(k) PROVE KeptInv'
    BY <1>4 DEF UpstreamSubscribes, KeptInv, WithSentinel, Kept, HasEnd,
           SocketInv, SocketFeedsTypeOK, restOnly, upstreamOnly
<1>5. ASSUME NEW k \in SocketIds, SocketOpens(k) PROVE KeptInv'
    BY <1>5 DEF SocketOpens, Subscribing, WsBecomes, KeptInv, WithSentinel, Kept,
           HasEnd, SocketInv, SocketFeedsTypeOK, restOnly, upstreamOnly
<1>6. ASSUME NEW k \in SocketIds, OnHandshake(k) PROVE KeptInv'
    BY <1>6 DEF OnHandshake, KeptInv, WithSentinel, Kept, HasEnd, SocketInv,
           SocketFeedsTypeOK, restOnly, upstreamOnly
<1>7. ASSUME NEW k \in SocketIds, OnJoined(k) PROVE KeptInv'
    BY <1>7 DEF OnJoined, Subscribing, WsBecomes, KeptInv, WithSentinel, Kept,
           HasEnd, SocketInv, SocketFeedsTypeOK, restOnly, upstreamOnly
<1>8. ASSUME NEW k \in SocketIds, JoinRefused(k) PROVE KeptInv'
    BY <1>8 DEF JoinRefused, WsBecomes, KeptInv, WithSentinel, Kept, HasEnd,
           SocketInv, SocketFeedsTypeOK, restOnly, upstreamOnly
<1>9. ASSUME NEW k \in SocketIds, RowArrives(k) PROVE KeptInv'
    <2>0. SUFFICES ASSUME WithSentinel' PROVE Kept' BY DEF KeptInv
    <2>1. WithSentinel /\ Kept BY <1>9, <2>0 DEF KeptInv, WithSentinel, RowArrives
    <2>2. k = 1 BY <1>9, <2>1, OneSocket DEF Kept, RowArrives
    <2>3. HasEnd(wire'[1]) => HasEnd(wire[1])
        BY <1>9, <2>2, Sentinels DEF RowArrives, SocketFeedsTypeOK
    <2>. QED BY <1>9, <2>1, <2>3 DEF Kept, RowArrives, upstreamOnly
<1>10. ASSUME NEW k \in SocketIds, SentinelArrives(k) PROVE KeptInv'
    <2>0. SUFFICES ASSUME WithSentinel' PROVE Kept' BY DEF KeptInv
    <2>1. WithSentinel /\ Kept BY <1>10, <2>0 DEF KeptInv, WithSentinel, SentinelArrives
    <2>2. k = 1 BY <1>10, <2>1, OneSocket DEF Kept, SentinelArrives
    <2>3. HasEnd(wire[1])
        BY <1>10, <2>2, Sentinels DEF SentinelArrives, SocketFeedsTypeOK
    <2>4. link[1] = "subscribed" /\ toCome[1] = {} BY <2>1, <2>3 DEF Kept
    <2>. QED BY <1>10, <2>1, <2>4 DEF Kept, SentinelArrives, upstreamOnly
<1>11. ASSUME NEW k \in SocketIds, StreamEnds(k) PROVE KeptInv'
    BY <1>11 DEF StreamEnds, OnSocketClose, EndsTheStream, SocketClosed,
           WsBecomes, KeptInv, WithSentinel, Kept, HasEnd, SocketInv,
           SocketFeedsTypeOK, restOnly, upstreamOnly
<1>12. ASSUME NEW k \in SocketIds, ClosePacketArrives(k) PROVE KeptInv'
    BY <1>12 DEF ClosePacketArrives, SocketClosed, WsBecomes, KeptInv,
           WithSentinel, Kept, HasEnd, SocketInv, SocketFeedsTypeOK, restOnly,
           upstreamOnly
<1>13. ASSUME NEW k \in SocketIds, SocketDrops(k) PROVE KeptInv'
    <2>0. SUFFICES ASSUME WithSentinel' PROVE FALSE BY DEF KeptInv
    <2>1. WithSentinel /\ link[k] # "none" /\ link[k] = "leaving"
        BY <1>13, <2>0 DEF WithSentinel, SocketDrops, SocketFeedsTypeOK
    <2>2. Kept BY <2>1 DEF KeptInv
    <2>3. k = 1 BY <2>1, <2>2, OneSocket DEF Kept
    <2>. QED BY <2>1, <2>2, <2>3 DEF Kept
<1>14. ASSUME WsDeadline PROVE KeptInv'
    BY <1>14 DEF WsDeadline, WsBecomes, KeptInv, WithSentinel, Kept, HasEnd,
           SocketInv, SocketFeedsTypeOK, restOnly, upstreamOnly
<1>15. ASSUME ReconnectFeed PROVE KeptInv'
    BY <1>15 DEF ReconnectFeed, KeptInv, WithSentinel, Kept, HasEnd, SocketInv,
           SocketFeedsTypeOK, restOnly, upstreamOnly
<1>16. ASSUME PageArrives PROVE KeptInv'
    BY <1>16 DEF PageArrives, Told, KeptInv, WithSentinel, Kept, HasEnd,
           SocketInv, SocketFeedsTypeOK, restOnly, upstreamOnly
<1>17. ASSUME FetchFails PROVE KeptInv'
    BY <1>17 DEF FetchFails, KeptInv, WithSentinel, Kept, HasEnd, SocketInv,
           SocketFeedsTypeOK, restOnly, upstreamOnly
<1>18. ASSUME RestDeadline PROVE KeptInv'
    BY <1>18 DEF RestDeadline, KeptInv, WithSentinel, Kept, HasEnd, SocketInv,
           SocketFeedsTypeOK, restOnly, upstreamOnly
<1>19. ASSUME CloseFeed PROVE KeptInv'
    BY <1>19 DEF CloseFeed, Current, KeptInv, WithSentinel, Kept, HasEnd,
           SocketInv, SocketFeedsTypeOK, restOnly, upstreamOnly
<1>. QED BY <1>1, <1>2, <1>3, <1>4, <1>5, <1>6, <1>7, <1>8, <1>9, <1>10, <1>11,
       <1>12, <1>13, <1>14, <1>15, <1>16, <1>17, <1>18, <1>19 DEF SocketFeedsNext

------------------------------------------------------------------------------
\* How it starts, and whose state counts.
LEMMA FeedCases ==
    /\ SocketFeedsInit /\ shape = "rest" => restState = "snapshotting" /\ pages = FeedRows
    /\ SocketFeedsInit /\ shape # "rest" => restState = "idle" /\ pages = {}
    /\ shape = "rest" => FeedState = restState
    /\ shape # "rest" => FeedState = wsState
BY Zenon DEF SocketFeedsInit, FeedState

LEMMA FeedStart == SocketFeedsInit => FeedInv
<1>. SUFFICES ASSUME SocketFeedsInit PROVE FeedInv OBVIOUS
<1>1. SocketFeedsTypeOK
    <2>1. /\ sockets \in SocketIds /\ link \in [SocketIds -> Links]
          /\ source \in [FeedRows -> Nat \ {NeverSeen}] /\ delivered \in [FeedRows -> Nat]
        BY FeedAssumption DEF FeedAssumption, SocketFeedsInit, SocketIds, Links, NeverSeen
    <2>2. /\ wire \in [SocketIds -> Seq(FeedMessage)] /\ toCome \in [SocketIds -> SUBSET FeedRows]
          /\ heldBack \in Seq(FeedImage) /\ page \in Seq(FeedImage)
        BY TypesOfWires DEF SocketFeedsInit
    <2>3. restState \in FeedStates /\ wsState \in FeedStates /\ pages \subseteq FeedRows
        BY FeedCases DEF SocketFeedsInit, FeedStates
    <2>. QED BY <2>1, <2>2, <2>3 DEF SocketFeedsInit, SocketFeedsTypeOK
<1>2. SocketInv /\ FetchInv
    <2>1. \A k \in SocketIds : k > 1 => link[k] = "none" BY DEF SocketFeedsInit, SocketIds
    <2>. QED BY <2>1, FeedCases DEF SocketFeedsInit, SocketInv, FetchInv
<1>3. WireInv BY NothingSaid DEF SocketFeedsInit, WireInv
<1>4. WordInv BY DEF SocketFeedsInit, WordInv
<1>5. KeptInv
    <2>1. 1 \in SocketIds BY FeedAssumption DEF FeedAssumption, SocketIds
    <2>. QED BY <2>1, Sentinels DEF SocketFeedsInit, KeptInv, WithSentinel, Kept
<1>. QED BY <1>1, <1>2, <1>3, <1>4, <1>5 DEF FeedInv

LEMMA FeedStutters == FeedInv /\ UNCHANGED feedVars => FeedInv'
<1>. SUFFICES ASSUME FeedInv, UNCHANGED feedVars PROVE FeedInv' OBVIOUS
<1>1. SocketFeedsTypeOK' BY DEF FeedInv, SocketFeedsTypeOK, feedVars
<1>2. SocketInv' /\ FetchInv' BY DEF FeedInv, SocketInv, FetchInv, feedVars
<1>3. WireInv' /\ WordInv' BY WordsStay DEF FeedInv, feedVars, wordVars
<1>4. KeptInv' BY DEF FeedInv, KeptInv, WithSentinel, Kept, feedVars, HasEnd
<1>. QED BY <1>1, <1>2, <1>3, <1>4 DEF FeedInv

(* The invariant of the feeds beside STOMP, for any rows, any shapes, any   *)
(* number of sockets, drops and changes: who is subscribed hears of every   *)
(* change, and the last word on a row, on a wire, held back, on a page or   *)
(* in the table, is its last image.                                         *)
THEOREM FeedInvariance == SocketFeedsSpec => []FeedInv
<1>1. FeedInv /\ [SocketFeedsNext]_feedVars => FeedInv'
    <2>1. ASSUME FeedInv, SocketFeedsNext PROVE FeedInv'
        BY <2>1, FeedTypes, FeedSockets, FeedFetch, FeedWires, FeedWords, FeedKept DEF FeedInv
    <2>. QED BY <2>1, FeedStutters
<1>. QED BY <1>1, FeedStart, PTL DEF SocketFeedsSpec

(* A live feed with nothing under way has told the hub the latest image of  *)
(* every row, save those that changed unheard; and one with a sentinel that *)
(* has lost no socket has no such row (adapters/ws.mjs, rest.mjs and        *)
(* socketio.mjs).                                                           *)
THEOREM LiveFeedsAreCurrent == SocketFeedsSpec => []LiveFeedIsCurrent
<1>1. FeedInv => LiveFeedIsCurrent
    <2>1. SUFFICES ASSUME FeedInv, FeedState = "live"
                   PROVE  /\ Quiet => \A r \in FeedRows \ missed : delivered[r] = source[r]
                          /\ shape \in {"sentinel", "socket.io"} /\ drops = 0 => missed = {}
        BY DEF LiveFeedIsCurrent
    <2>2. ASSUME Quiet, NEW r \in FeedRows \ missed PROVE delivered[r] = source[r]
        <3>1. \A k \in SocketIds : ~HasRow(wire[k], r) BY <2>2, NothingSaid DEF Quiet
        <3>2. ~GaveUp BY <2>1, FeedCases DEF GaveUp, FeedInv, FetchInv
        <3>3. LastWord(r) BY <2>1, <2>2, <3>1, <3>2 DEF FeedInv, WordInv
        <3>4. page = <<>> /\ heldBack = <<>> BY <2>1, <2>2, FeedCases DEF Quiet, FeedInv, FetchInv
        <3>. QED BY <3>3, <3>4, NothingSaid DEF LastWord, Says
    <2>3. ASSUME shape \in {"sentinel", "socket.io"}, drops = 0 PROVE missed = {}
        <3>1. wsState = "live" BY <2>1, <2>3, FeedCases
        <3>. QED BY <2>1, <2>3, <3>1 DEF FeedInv, KeptInv, WithSentinel, Kept
    <2>. QED BY <2>2, <2>3
<1>. QED BY <1>1, FeedInvariance, PTL
==============================================================================
