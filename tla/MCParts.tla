------------------------------- MODULE MCParts --------------------------------
(* The parts of a tab and of the worker whose safety is checked, in one run.*)
(* They share no state: a behaviour is of one part (a variable that comes   *)
(* with Computations), the others stay as they began.  The watches of a     *)
(* session are looked at twice: two calls at once over a row that does not  *)
(* move, and one watch over a row that does.                                *)
EXTENDS TabViews, ControlChannel, PlaneViews, EditOverlay, RowModes, DistinctCache,
        ConfigStore, CellSelection, HubWatches, Normalizer, ConfigReload, Computations

CONSTANTS Parts,                               \* the parts a run looks at
          q1, q2, scan, sub, k1, k2, s1, r1, f1, f2, e1, govies, apac, bond, BOND,
          i1, i2, g1, rule1, sig1, sig2, w1, w2, p1, p2

MCSignatures == {q1, q2}
MCRequests == {scan, sub}
MCScans == {scan}
MCKeys == {k1, k2}
MCSessions == {s1}
MCFeedValues == {f1, f2}
MCRanges == {<<0, 0>>, <<0, 2>>}
MCOrder == CHOOSE o \in Orders : TRUE
MCCollections == <<"connections", "datasources">>

MCTexts == {[pieces |-> p, cased |-> c] : p \in {{govies}, {govies, apac}}, c \in {TRUE}}
           \cup {[pieces |-> {govies}, cased |-> FALSE]}
MCNeedles == {[pieces |-> {n}, cased |-> FALSE] : n \in {govies, apac}}
\* One word, and two that a cell may hold or two cells.
MCTwoWords == [pieces |-> {govies, apac}, cased |-> FALSE]
MCSearches == MCNeedles \cup {MCTwoWords}
MCWordsOf == [t \in MCSearches |-> IF t = MCTwoWords THEN MCNeedles ELSE {t}]
MCNames == {bond, BOND}
MCFoldOf == [n \in MCNames |-> bond]

MCGroupKeys == {g1}
MCRuleIds == {rule1}
MCSigs == {sig1, sig2}
MCImportCalls == {i1, i2}
MCCallIds == {w1, w2}
MCPushes == {p1, p2}

\* A nested path, one with the separator in its name, an array, one too deep.
MCPaths == {<<<<"px">>>>, <<<<"risk">>, <<"dv", "01">>>>, <<<<"legs">>>>, <<<<"a">>, <<"b">>, <<"c">>>>}
MCArrayPaths == {<<<<"legs">>>>}
MCCoerced == {<<"px">>}
MCBookIds == {<<<<"A">>, <<"B", "C">>>>, <<<<"A", "B">>, <<"C">>>>}   \* alike when joined by nothing

MCBookKeys == {1, 2, 3}

\* Two groups of one group of one row, and the routes to them.
MCLeaves == {<<1, 1, 1>>, <<2, 1, 1>>}
MCRoutes == {<<>>, <<1>>, <<1, 1>>}

\* A value of each kind, and three strings to be the fourth of a column.
MCSamplePaths == {<<"px">>, <<"a", "b", "c">>}
MCSampleValues == {"null", "list", "true", "1", "1.5", "yes", "007", "2024-01-02", "A"}
MCJsType ==
    [v \in MCSampleValues |->
        CASE v = "null" -> "null" [] v = "list" -> "array" [] v = "true" -> "boolean"
          [] v \in {"1", "1.5"} -> "number" [] OTHER -> "string"]

\* Fields of the connection and of five kinds in the datasource: beside a $ref,
\* in a section of its own class, set live in the table and in the hub, and of
\* the registry's entry, live by their class or structural.
OfDatasource(path) == <<"datasources">> \o path
MCBatching == OfDatasource(<<"batch", "maxMs">>)
MCConflation == OfDatasource(<<"conflation", "defaultIntervalMs">>)
MCIdle == OfDatasource(<<"lifecycle", "idleTeardownMs">>)
MCSharing == OfDatasource(<<"sharing", "supersetParams">>)
MCUrl == <<"connections", "url">>
MCConnectionRef == OfDatasource(<<"connectionRef">>)
MCSnapshot == OfDatasource(<<"snapshot">>)
MCTimeout == OfDatasource(<<"snapshot", "timeoutMs">>)
MCFields == {MCUrl, MCConnectionRef, MCTimeout, MCBatching, MCConflation, MCIdle, MCSharing}
MCRequired == {MCUrl, MCConnectionRef, MCTimeout}
MCLiveFields == {MCBatching, MCConflation}
MCHubFields == {MCConflation}
MCEntryFields == {MCIdle, MCSharing}
MCNodes == UNION {{SubSeq(f, 1, i) : i \in DOMAIN f} : f \in MCFields}
MCAnnotations ==
    [n \in MCNodes |->
        [beside |-> IF n = MCConnectionRef THEN {"resubscribe"} ELSE {},
         target |-> IF n \in {MCUrl, MCSnapshot} THEN {"resubscribe"}
                    ELSE IF n = MCSharing THEN {"rebuild"}
                    ELSE IF n \in {MCBatching, MCConflation, MCIdle} THEN {"live"} ELSE {}]]

\* A step of the part p.
Others(p) ==
    /\ UNCHANGED part
    /\ IF p = "views"     THEN TRUE ELSE UNCHANGED tabViewsVars
    /\ IF p = "control"   THEN TRUE ELSE UNCHANGED controlVars
    /\ IF p = "plane"     THEN TRUE ELSE UNCHANGED planeVars
    /\ IF p = "overlay"   THEN TRUE ELSE UNCHANGED overlayVars
    /\ IF p = "viewport"  THEN TRUE ELSE UNCHANGED viewportVars
    /\ IF p = "distinct"  THEN TRUE ELSE UNCHANGED cacheVars
    /\ IF p = "queries"   THEN TRUE ELSE UNCHANGED queryVars
    /\ IF p = "rules"     THEN TRUE ELSE UNCHANGED ruleVars
    /\ IF p = "config"    THEN TRUE ELSE UNCHANGED configVars
    /\ IF p = "selection" THEN TRUE ELSE UNCHANGED selectionVars
    /\ IF p = "rows"      THEN TRUE ELSE UNCHANGED normVars
    /\ IF p = "answers"   THEN TRUE ELSE UNCHANGED queryCallVars
    /\ IF p = "reload"    THEN TRUE ELSE UNCHANGED reloadVars
    /\ IF p = "blocks"    THEN TRUE ELSE UNCHANGED ssrmVars
    /\ IF p = "schema"    THEN TRUE ELSE UNCHANGED inferenceVars
    /\ IF p = "watches"   THEN TRUE ELSE UNCHANGED watchVars
StepOf(p, A) == part = p /\ A /\ Others(p)

WatchBound ==
    IF part = "calls" THEN moves' = 0
                      ELSE created' <= 1 /\ \A i \in CallIds \ {w1} : call'[i] = NoCall

WatchStep(A) == part \in {"calls", "watchers"} /\ A /\ WatchBound /\ Others("watches")

\* Two of the search and the filters of two columns at a time.
QueryBound == quickText' = Null \/ \E col \in Columns : filterModel'[col] = Null

\* Two calls on the stores, of which the second only imports.
ConfigBound == step'[i2].op # "export"

\* Blocks are looked at until a read fails.
BlockStep(A) == StepOf("blocks", ~readFailed /\ A)

\* A book begins without soft-deleted rows.  Of two pushed bundles the first
\* comes first, and changes two fields at most, the second changes one.
NoneDeleted(b) == \A k \in BookKeys : b[k].there => ~b[k].deleted
Edited(b) == {[b EXCEPT ![f] = v] : f \in Fields, v \in ConfigValues \cup {Unset}} \cap Bundles
PushedBundles(p) ==
    IF push[p].stage # "waiting" THEN {}
    ELSE IF p = p1 THEN UNION {Edited(b) : b \in Edited(bundle)}
    ELSE IF push[p1].stage = "waiting" THEN {} ELSE Edited(bundle)

MCInit ==
    /\ part \in Parts
    /\ TabViewsInit /\ ControlInit /\ PlaneInit /\ CacheInit /\ QueryInit /\ RuleInit /\ ConfigInit /\ HubWatchesInit
    /\ InferenceInit
    /\ OverlayInit       /\ (part # "overlay" => ~deltasOff)
    /\ ViewportInit      /\ (part # "viewport" => range = <<0, 2>>)
    /\ SelectionInit     /\ (part # "selection" => order = MCOrder)
    /\ NormalizerInit    /\ IF part = "rows" THEN ~dedupe => strategy = "json-string"
                                            ELSE strategy = "explode" /\ dedupe
    /\ HubQueriesInit    /\ IF part = "answers" THEN NoneDeleted(book)
                                               ELSE book = [k \in BookKeys |-> NotInBook]
    /\ SsrmInit          /\ leaves[<<2, 1, 1>>] = 1 /\ (part # "blocks" => leaves[<<1, 1, 1>>] = 1)
    /\ ReloadInit        /\ bundle = [f \in Fields |-> 1]

MCNext ==
    \/ StepOf("views", \E l \in Loads, q \in Signatures : Hit(l, q))
    \/ StepOf("views", \E l \in Loads, q \in Signatures : Miss(l, q))
    \/ StepOf("views", \E l \in Loads : Opened(l))
    \/ StepOf("views", \E l \in Loads : OpenFailed(l))
    \/ StepOf("views", \E l \in Loads : Evicted(l))
    \/ StepOf("views", \E l \in Loads : ReadReply(l))
    \/ StepOf("views", \E l \in Loads : Unpinned(l))
    \/ StepOf("views", \E l \in Loads : LoadTimeout(l))
    \/ StepOf("views", BeginClear)
    \/ StepOf("views", ClearWalks)
    \/ StepOf("views", ClearResumes)
    \/ StepOf("views", ClearTimeout)
    \/ StepOf("views", \E v \in ViewIds : HubOpens(v))
    \/ StepOf("views", \E v \in ViewIds : HubRefuses(v))
    \/ StepOf("views", \E v \in disposals : HubDisposes(v))
    \/ StepOf("views", Drop)

    \/ StepOf("control", \E r \in Requests : Ask(r))
    \/ StepOf("control", \E r \in Requests : RequestTimeout(r))
    \/ StepOf("control", \E p \in Ports : Receive(p))
    \/ StepOf("control", \E p \in Ports : Joined(p))
    \/ StepOf("control", \E p \in Ports : HandleClose(p))
    \/ StepOf("control", \E p \in Ports : Break(p))
    \/ StepOf("control", \E p \in Ports : HubTakes(p))
    \/ StepOf("control", Reconnect)
    \/ StepOf("control", \E s \in serving : HubSendsBatch(s))
    \/ StepOf("control", \E s \in serving : HubReplies(s))

    \/ StepOf("plane", \E s \in PlaneSessions : AttachSession(s))
    \/ StepOf("plane", \E s \in PlaneSessions : DetachSession(s))
    \/ StepOf("plane", \E s \in PlaneSessions : Request(s))
    \/ StepOf("plane", \E s \in PlaneSessions : GroupsMove(s))
    \/ StepOf("plane", \E c \in calls : EnsureSubscribed(c))
    \/ StepOf("plane", \E c \in calls : ReadHeld(c))
    \/ StepOf("plane", \E c \in calls : ReadOpens(c))
    \/ StepOf("plane", \E c \in calls : Watch(c))
    \/ StepOf("plane", \E c \in calls : PlaneWatchGroups(c))
    \/ StepOf("plane", \E c \in calls : GetAggregates(c))
    \/ StepOf("plane", \E s \in PlaneSessions, k \in WatchIds : Unwatch(s, k))
    \/ StepOf("plane", Boot)
    \/ StepOf("plane", PollAllTicks)

    \/ StepOf("overlay", \E k \in RowKeys, v \in EditValues : ApplyEdit(k, v))
    \/ StepOf("overlay", \E k \in RowKeys, v \in Cells : Ingest(k, v))
    \/ StepOf("overlay", \E k \in RowKeys : DeleteRow(k))
    \/ StepOf("overlay", Truncate)
    \/ StepOf("overlay", PollRemovals)
    \/ StepOf("overlay", Reboot)
    \/ StepOf("overlay", DropTable)

    \/ StepOf("viewport", UpstreamTick)
    \/ StepOf("viewport", ViewOpened)
    \/ StepOf("viewport", Counted)
    \/ StepOf("viewport", Filled)
    \/ StepOf("viewport", Toggled)
    \/ StepOf("viewport", Fails)
    \/ StepOf("viewport", \E i \in 1 .. MaxCallsOut + 1 : EngineStep(i))
    \/ StepOf("viewport", \E r \in Ranges : SetViewportRange(r))
    \/ StepOf("viewport", \E i \in 0 .. MaxRows - 1 : Toggle(i))
    \/ StepOf("viewport", OnUpstreamChange)
    \/ StepOf("viewport", RefreshDue)
    \/ StepOf("viewport", Destroy)

    \/ StepOf("distinct", TimePasses)
    \/ StepOf("distinct", \E k \in CacheKeys : Hits(k))
    \/ StepOf("distinct", \E k \in CacheKeys : StartsLoad(k))
    \/ StepOf("distinct", \E k \in CacheKeys : HubAnswers(k))
    \/ StepOf("distinct", \E k \in CacheKeys : Loaded(k))
    \/ StepOf("distinct", \E k \in CacheKeys : LoadRejected(k))
    \/ StepOf("distinct", \E col \in FilterColumns : FilterChanged(col))

    \/ StepOf("queries", Search /\ QueryBound)
    \/ StepOf("queries", \E col \in Columns : SetFilter(col) /\ QueryBound)

    \/ StepOf("rules", \E t \in Terms : Write(t))
    \/ StepOf("rules", Join("&&"))
    \/ StepOf("rules", Join("||"))

    \/ StepOf("config", \E s \in Stores : Edit(s) /\ ConfigBound)
    \/ StepOf("config", \E c \in ImportCalls, s \in Stores : BeginExport(c, s) /\ ConfigBound)
    \/ StepOf("config", \E c \in ImportCalls : ReadCollection(c) /\ ConfigBound)
    \/ StepOf("config", \E c \in ImportCalls : FinishExport(c) /\ ConfigBound)
    \/ StepOf("config", \E b \in mail : TruncateBundle(b) /\ ConfigBound)
    \/ StepOf("config", \E c \in ImportCalls, s \in Stores, b \in mail, m \in Modes : BeginImport(c, s, b, m) /\ ConfigBound)
    \/ StepOf("config", \E c \in ImportCalls : CommitImport(c) /\ ConfigBound)
    \/ StepOf("config", \E c \in ImportCalls : FailImport(c) /\ ConfigBound)

    \/ StepOf("selection", MouseDown)
    \/ StepOf("selection", SelectRange)
    \/ StepOf("selection", Deselect)
    \/ StepOf("selection", MouseUp)
    \/ StepOf("selection", \E k \in RowIds : BlockLoads(k))
    \/ StepOf("selection", \E k \in RowIds : BlockGoes(k))
    \/ StepOf("selection", \E i, j \in Indices : RowsMove(i, j))

    \/ StepOf("rows", \E b \in BookIds, v \in Scalars \ {Blank} : InsertDoc(b, v))
    \/ StepOf("rows", \E b \in BookIds, p \in Paths : PatchDoc(b, p))
    \/ StepOf("rows", \E b \in BookIds : DeleteDoc(b))
    \/ StepOf("rows", \E b \in BookIds : Garbage(b))
    \/ StepOf("rows", FlushRows)

    \/ StepOf("answers", \E k \in BookKeys : BookMoves(k))
    \/ StepOf("answers", \E q \in Questions : AskHub(q))
    \/ StepOf("answers", ViewOpens)
    \/ StepOf("answers", ViewFails)
    \/ StepOf("answers", RowsCounted)
    \/ StepOf("answers", ReadOnce)
    \/ StepOf("answers", RankReads)
    \/ StepOf("answers", ScanReads)
    \/ StepOf("answers", ReadFails)
    \/ StepOf("answers", ViewCloses)
    \/ StepOf("answers", EntryGoes)

    \/ StepOf("reload", \E p \in Pushes : \E b \in PushedBundles(p) : ApplyConfig(p, b))
    \/ StepOf("reload", \E p \in Pushes : TornDown(p))
    \/ StepOf("reload", \E p \in Pushes : Resubscribed(p))
    \/ StepOf("reload", \E c \in Callers : TableIsCreated(c))
    \/ StepOf("reload", \E c \in Callers : CreationFails(c))
    \/ StepOf("reload", TabSubscribes)
    \/ StepOf("reload", FlowStarts)
    \/ StepOf("reload", TabLeaves)
    \/ StepOf("reload", IdleTeardown)

    \/ BlockStep(\E l \in Leaves, v \in {Absent, leafMoves + 2} : LeafMoves(l, v))
    \/ BlockStep(\E route \in Routes, i \in BlockIds : (i = 0 \/ route = <<>>) /\ GetRows(route, i))
    \/ BlockStep(\E n \in DOMAIN reads : ReadWindow(n))
    \/ BlockStep(BlockArrives)
    \/ BlockStep(ReadFailed)
    \/ BlockStep(OnRowDelta)
    \/ BlockStep(OnGroupDelta)
    \/ BlockStep(RefreshAll)
    \/ BlockStep(DestroySsrm)

    \/ StepOf("schema", \E p \in SamplePaths, v \in SampleValues : Sample(p, v))

    \/ WatchStep(RowMoves)
    \/ WatchStep(\E v \in Watches : SampleRead(v))
    \/ WatchStep(\E v \in Watches : AlertFeeds(v))
    \/ WatchStep(\E v \in Watches : GroupFeeds(v))
    \/ WatchStep(\E v \in Watches : DisposeManagedView(v))
    \/ WatchStep(\E v \in Watches : WalkDisposes(v))
    \/ WatchStep(\E i \in CallIds : OpenManagedView(i))
    \/ WatchStep(\E i \in CallIds : OldStopped(i))
    \/ WatchStep(\E i \in CallIds : Removed(i))
    \/ WatchStep(\E i \in CallIds : ViewMade(i))
    \/ WatchStep(\E i \in CallIds : ViewRefused(i))
    \/ WatchStep(\E i \in CallIds : WatchSet(i))
    \/ WatchStep(\E i \in CallIds, k \in GroupKeys, sig \in Sigs : WatchGroups(i, k, sig))
    \/ WatchStep(\E i \in CallIds, k \in RuleIds : SubscribeAlert(i, k))
    \/ WatchStep(\E i \in CallIds, k \in RuleIds : UnsubscribeAlert(i, k))
    \/ WatchStep(ReleaseWatches)
    \/ WatchStep(\E k \in WatchKeys : WalkStops(k))
    \/ WatchStep(WalkTurns)

MCVars == <<part, tabViewsVars, controlVars, planeVars, overlayVars, viewportVars,
            cacheVars, queryVars, ruleVars, configVars, selectionVars, watchVars,
            normVars, queryCallVars, reloadVars, ssrmVars, inferenceVars>>

MCSpec == MCInit /\ [][MCNext]_MCVars

\* Every part keeps the types of its variables.
PartsTypesOK ==
    /\ part = "views"     => TabViewsTypeOK
    /\ part = "control"   => ControlTypeOK
    /\ part = "plane"     => PlaneTypeOK
    /\ part = "overlay"   => OverlayTypeOK
    /\ part = "viewport"  => ViewportTypeOK
    /\ part = "distinct"  => CacheTypeOK
    /\ part = "queries"   => QueriesTypeOK
    /\ part = "config"    => ConfigTypeOK
    /\ part = "selection" => SelectionTypeOK
    /\ part = "rows"      => NormalizerTypeOK
    /\ part = "answers"   => HubQueriesTypeOK
    /\ part = "reload"    => ReloadTypeOK
    /\ part = "blocks"    => SsrmTypeOK
    /\ part = "schema"    => InferenceTypeOK
    /\ part \in {"calls", "watchers"} => HubWatchesTypeOK
=============================================================================
