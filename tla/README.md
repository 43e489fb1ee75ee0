# Rangrez: specifications of the data hub

Rangrez serves live market-data tables to browser grids. A *hub* runs beside the
tabs (in a SharedWorker, a sidecar process, or the Rust re-implementation), keeps
one engine table per datasource and set of params, feeds it from an upstream
broker, and streams changes to every tab that subscribed. A tab shows a table in a
grid that mirrors it, reads windows of it, or queries an engine of its own. These
modules specify the hub, the feeds, the tab's side and the configuration they
share, check them with TLC and prove most of their safety with TLAPS.

Paths are relative to `src/packages/dshub-worker/src/` unless they say otherwise;
`provider/` is `src/packages/dshub-provider/src/`, `plane/`
`src/packages/dshub-plane/src/`, `spec/` `src/packages/dshub-spec/src/`.

## Inventory

| part | state it keeps | operations | what makes it correct |
|---|---|---|---|
| backpressure ladder, `flow.mjs` | per session: `sentSeq`, `ackedSeq`, `rung`, `pending`, `refreshSent`, `refreshEnteredAt`, `lastFlush` | `offer`, `flush`, `onAck` | the lag is bounded; only a tab that makes no progress is dropped, and such a tab is |
| registry, `registry.mjs` | per cache key: `refs`, `teardownTimer`, `estimatedBytes` | `acquire`, `release`, the idle timer | a reference for each holder; idle tables are closed, used ones are not; the ceiling holds |
| hub subscriptions, `hub.mjs` | `entries`, `session.subscriptions` | `subscribe`, `unsubscribe`, `releaseSession`, `teardown`, `applyConfig`, `reestablish`, `dropSlowSubscriber` | one upstream per key; closed with the last subscriber; a config push drops nobody silently |
| adapters, `adapters/*.mjs` | `state`, `attempt`, `urlIndex`, `snapshotRows`, timers, sockets, text not yet parsed | `connect`, `close`, `deliver`, `finishSnapshot`, `fail`, `scheduleReconnect` | snapshots and recoveries end; a live feed is current; frames arrive whole |
| table actor, `table_actor.mjs`, and normaliser, `normalize.mjs` | `state`, `queue`, `snapshotBuffer` | `beginSnapshot`, `push`, `endSnapshot`, `flush`, `dispose`; `normalize` | nothing accepted is lost or overtaken; the table is the upstream's documents |
| reconnect differ, `reconnect.mjs` | `active`, `rows` | `begin`, `collect`, `end` | the re-snapshot's rows win, missing rows go |
| views, group watches, alerts, `hub.mjs`, `groupwatch.mjs`, `alerts.mjs` | `views`, `session.__groupWatch`, `session.__alerts` | `openView`, `readWindow`, `disposeView`, `watchGroups`, `subscribeAlert`, `disposeSessionViews` | no view outlives its session; an alert fires on the transition |
| questions, `hub.mjs`, `provider/hubDataService.mjs`, `provider/dataService.mjs` | a transient view for each | count, distinct values, aggregates, rank, scan | the answer is that of the rows; the view is closed on every path |
| write path, `hub.mjs` `command`, `provider/writePath.mjs` | `seenCommands`; the client's `writes`, `byCell` | `command`; `submit`, `onResult`, `reconcileEcho`, `tick`, `prune` | a retry is not applied twice; every edit is confirmed, diverged or rolled back |
| client transport, `provider/transport.mjs`, `control.mjs` | `outbox`, `attempt`, pending requests | `open`, `send`, `handleClose`, `request`, `handle` | a request is answered or times out; a scan is whole |
| row modes, `provider/modes/*.mjs`, `hubDataService.mjs` | view cache, pins, loaded blocks, viewport, row mirror, distinct values | `getRows`, `clear`, `fill`, `toggle`, `start`, `applyDelta` | no view leaks or is read after its disposal; a settled grid is current |
| grid planes, `plane/SsrmWasmPlane.ts`, `provider/cellSelection.mjs` | sessions, held views, watches, pushes, edit overlays; a cell range | requests, `pollAllTicks`, `detachSession`, `applyEdits`, `ingest`; `restore`, `onModelUpdated` | the engine keeps what is used; deltas in order; an edit yields to news; a range stays on its rows |
| config, `control.mjs` `reconcileConfig`, `provider/configStore.mjs`, `bundle.mjs`, `reload.mjs` | bundle, version, checksum | `hello`, edits, export, import, `applyConfig` | divergence is signalled; an edit takes effect |
| filters and rules, `provider/filter.mjs`, `spec/viewspec.mjs`, `plane/toViewSpec.ts`, `spec/dsl/*.mjs` | none | evaluate, translate, compile, validate | the evaluations agree |
| schema inference, `src/packages/dshub-tools/src/infer-schema.mjs` | flags, counts and capped sets per path | observe, make the artifact | the artifact fits what was sampled |
| Rust hub, admin screens, demos, code generation | | | not modelled |

**Interaction.** A tab posts control messages; `handleControl` runs `subscribe`,
`ack`, `unsubscribe`, ... on the hub. `subscribe` counts a reference in the
registry and, for the first subscriber, creates a table, an actor, a differ and
an adapter, joined by two callbacks (`onRows`, `onState`). Rows go adapter ->
normaliser -> differ or actor -> engine table; the engine reports changes to the
hub's `dispatch`, which offers them to each session's flow, and what the flow lets
through is posted to the tab, which acknowledges. A tab asks for views, watches
and answers by requests over the same port; its replies and the deltas share it.

**What is hard.** The hub is single-threaded, so the interleavings are those of
`await`s, timers, sockets and ports: two first subscribers between a test and a
set; a disconnect during a subscribe or an open view; a config push under live
subscribers; an idle timer against a returning tab; acknowledgements out of order;
an outage while the engine is still writing the snapshot; loads, clears and
evictions of views at once. `PROJECT.json` lists the hazards, each at its line,
with the properties aimed at it.

## Modules

| module | models | granularity of an action |
|---|---|---|
| `SubscriberFlow`, `DeltaDelivery` | `flow.mjs` with the dispatch and drop of `hub.mjs`, one session; the second extends it with the rows | one offer (an action per outcome), one acknowledgement, one tick |
| `HubSubscriptions` | `registry.mjs` and the subscription handlers of `hub.mjs` and `sidecarServer.mjs` | from one `await` to the next |
| `DatasourcePipeline` | `adapters/base.mjs`, `adapters/stomp.mjs`, `table_actor.mjs`, `reconnect.mjs`, the callbacks of `hub.mjs` | one frame, timer or engine answer |
| `SocketFeeds` | `adapters/ws.mjs`, `rest.mjs`, `socketio.mjs` | one packet, page, timer or socket event |
| `StompFrames` | `adapters/stomp-codec.mjs` and the receiving end of `stomp.mjs` | one chunk of text |
| `Normalizer` | `normalize.mjs`, `spec/rowkey.mjs`, `mergeBatch` and `toColumnar` of the actor | one message, one flush |
| `HubWatches` | views, group watches and alerts of one session in `hub.mjs`, `alerts.mjs`, `groupwatch.mjs` | from one `await` to the next; one sample |
| `HubQueries` | questions answered from a transient view, `hub.mjs` and the two data services | from one `await` to the next |
| `TabViews` | `provider/modes/ssrm.mjs` `getRows`, `ViewCache`, and the worker's views | from one `await` to the next |
| `SsrmBlocks` | blocks, groups and refreshes of `ssrm.mjs`, `spec/grouproutes.mjs` | one read of the hub |
| `Viewport` | `provider/modes/vrm.mjs` | one engine request |
| `CsrmMirror`, `LaggingCopy` | `provider/modes/csrm.mjs`; the abstract copy it implements | one message, one transaction |
| `DistinctCache` | `DistinctCache` in `provider/hubDataService.mjs` | one call, one answer |
| `ControlChannel` | `provider/control.mjs`, `transport.mjs`, `socketPort.mjs`, replies of `control.mjs` | one message, timeout or close |
| `WritePath` | `provider/writePath.mjs`, `command` of `hub.mjs`, the actor's queue, the images that come back | one call, message or flush |
| `PlaneViews`, `EditOverlay` | `plane/SsrmWasmPlane.ts`: sessions, views, watches, pushes; edits over a feed | one call up to its `await` |
| `CellSelection` | `provider/cellSelection.mjs` | one grid event |
| `ConfigStore`, `ConfigReload` | `configStore.mjs`, `bundle.mjs`, `reconcileConfig`; `reload.mjs`, `Hub.applyConfig`, `reestablish` | one transaction; from one `await` to the next |
| `Queries`, `Rules` | three evaluations of a filter; two of a rule | a filter set, a search typed; a term written, two rules joined |
| `SchemaInference` | `infer-schema.mjs` | one value sampled at a path |
| `RowModes` | `Viewport` and `SsrmBlocks` together: what a grid that does not hold its rows shows | |
| `Computations` | `Queries`, `HubQueries`, `Rules` and `SchemaInference` together: what is computed in several places, or kept of many values in a few | |
| `Filtering` | `KeepIn(s, S)`: `Array.filter` by membership; `Ranked(S, R)`: a set in the order `R`, as `Array.sort` leaves it, each member behind as many as are before it in `R`. The library's `SelectSeq` and `SetToSortSeq` are opaque to the provers, so modules with a theorem that filter or sort use these | |
| `DeliveryProofs`, `WritePathProofs`, `ClientProofs`, `HubSubscriptionsProofs`, `HubWatchesProofs`, `PartsProofs`, `PlaneProofs`, `DataLemmas` | theorems, see below | |
| `MC...` | constants for TLC, and the composition of modules into one run | |

Before some definitions stands a *mutant* of it: the definition as a plausible
bug would have it. `PROJECT.json` pairs each property of a passing run with a
mutant that breaks it, and maps every definition to the lines it translates. The
mutants of the parts of `SettledGridIsCurrent` and `ComputationsAgree` each break
them; one of each is listed.

### From the source to the tab

**SubscriberFlow, DeltaDelivery.** The variables are the fields of
`SubscriberFlow`; `refreshEnteredAt` and `lastFlush` become ages that saturate at
the threshold they are compared with, which makes time finite without bounding it.
`lastProgressAt` is written and never read by the ladder; the history variable
`quiet` plays its part in the properties. The thresholds 0.4 and 0.75 are compared
as `5 * lag >= 2 * Limit` and `4 * lag >= 3 * Limit`. One session has one flow for
all its tables (`session.__flow`, hub.mjs:148), so the `Feeds` share it and a drop
takes one feed at a time. The tab is not trusted: an acknowledgement is any number
up to `MaxAcked`, in any order, also for a flow that has been discarded.
`DeltaDelivery` keeps for each row a version. The port is FIFO and lossless, so the
tab's copy is what it holds once it has applied everything posted; how late it
applies is in the lag.

**HubSubscriptions.** A key stands for a cache key: a datasource with its params
under exact sharing. `ops` are subscribes that wait for `createTable` (no table
yet) or for `watchTable`; everything else may run meanwhile. `timers[k]` counts
the armed idle timers of a key, `held[k]` says whether `teardownTimer` names one:
the code forgets a timer without cancelling it when it arms another. `open` is
what the client believes. `unsubscribe` releases for any session as soon as the
registry has the key: `Repeats` lets a client send it again, and the sessions in
`Unasked` may send it for any key at any time, while their own subscribe awaits
the engine or without ever having had one. A disconnect is that of the
SharedWorker host (`ReleaseSession`) or of the sidecar (`SidecarClose`, and
`SocketCloses` after a CLOSE, when the teardown runs a second time). The sidecar
strips the params from each key it releases (`BareOf`, `Stripped`), so a key with
params keeps its reference and the key without loses one, whosever it is.
Releasing several keys at once stands for the loops of `releaseSession` and the
teardown, which await nothing between their releases but what resolves at once. The history variable `overdrawn` has the
keys that a session released without holding them: those are the keys of which the
code's promises may fail, and the properties say so of no other.

**DatasourcePipeline.** One datasource in trigger-reply mode. Rows have versions,
0 is no row; a soft delete is an image of version 0. The engine takes updates in
order and finishes them later (`writes`); endSnapshot's own write is marked
`live`. `OnConnectedThrows` does what happens up to the throw when the actor is
live already. `Policy` is `updatesDuringSnapshot`: under `buffer`,
the default, updates wait for the end of the snapshot, otherwise they go to the
queue at once.

**SocketFeeds** numbers the sockets, because a socket.io server that says it closes
and then does is heard twice and the adapter then reconnects twice. A row that is
delivered is in the table; what the actor does with it is in the pipeline.
**StompFrames** is the one module with text: a chunk boundary can be anywhere, so
frames are short sequences of pieces, of which some are escapes, a counted body or
a NUL. **Normalizer** flattens documents of nested paths to columns; a path is a
sequence of names and a name a sequence of pieces, so that distinct paths may join
to one column, as they may in the code.

### The hub's other services

**HubWatches** follows a call for a watch through its awaits: a view is opened, its
slot is looked at, the watch is registered; another call for the key, an
unsubscribe or the disconnect may come between. The alert's and the group's
samples are counted in `feed` (what was reported, how often the line was crossed).
**HubQueries** reads a transient view in blocks while the book moves; filters are
in `Queries` and here only the set of marks they let through. Its view for
`aggregates` is not grouped (hub.mjs:985-994), so the answer is what its first row
has, and since it has no sort either, that is any row's mark.
**WritePath** is about one row of one table. `edits[t]` are the entries of a tab's
`writes` map in the order they were submitted, a pruned one kept as `pruned` so
that a key keeps its number. `uplink` and `downlink` are the two directions of the
tab's port. The rows pass through the ladder, which is not composed here: it may
withhold an image, and a later image then stands for it. In the repository only
tests call `WriteManager`, and no caller retries; `Resend` (external) is the retry
its header speaks of. `LateResult` is the answer to a request that `ControlClient`
has given up. Writes expire in the order they were made.

### The tab

**TabViews** has both sides of a view's life: the loads of one grid, its cache with
pins, the messages to the worker, and the worker's views. A load is at a place
between two awaits (`opening`, `evicting`, `reading`, ...); a clear walks the
entries the same way. Timeouts let a load go on while its answer is still to come.
**SsrmBlocks** reads the count and then the rows of a block, so the two may be of
different moments; a grid that has read everything again after the last change is
settled. **Viewport** sends two engine requests for each fill. **CsrmMirror**
registers, reads, replays and then routes deltas into transactions that the grid
applies later; `past` is what each row has been. It is shown to implement
`LaggingCopy`, a copy that at any moment shows of each row something it has been.
**DistinctCache** has a clock in steps of the time to live. **ControlChannel**
gives each opened port its own direction up and down; a port may close, or die
unheard; a socket may report its end twice.

**PlaneViews** has the calls of the sessions up to and after `host.ensure`, the
views the plane holds in order of use (`held`), the watched predicates, and the
engine's side: the views it keeps for each session and its outbox of group deltas.
A control message brings the outbox along with its reply; `pollAllTicks` hands out
what came so and then what the tick finds. The views of a session number
`BlockCap` and `PollCap` of each kind at most after an eviction. **EditOverlay**
is one provider and of each row the one edited column. **CellSelection** leaves
the columns of a range out; the rows move, load and go as they like.

**ConfigStore** interleaves the transactions of exports, imports and edits; a
checksum is the content it was computed over. **ConfigReload** reads the reload
classes off the schema's annotations, field by field, and follows the fields to
where they work: most are a table's, which takes them when it is made (`inUse`);
lifecycle, sharing and size are the registry entry's (`registered`), which a
re-establishment keeps (registry.mjs:121-128); the conflation interval is the hub's
(`hubWide`, set by `applyLive` only) and that of the tab's flow (`flow`), which
takes the hub's when it is made. `excused` (history) has the fields of which the
code is known not to apply an edit, until what takes them is made again or, of
the conflation interval, until a push in place sets it. **Queries** and **Rules**
have no concurrency: a behaviour sets filters or builds a rule, and the property
compares the evaluations. A search is a text and its words: the plane searches for
every word by itself (toViewSpec.ts:251-267), the other two for the whole text. An
engine tests a condition of its own natively and one inside an `or` as an
expression (viewspec.mjs:71-107): equalities of texts are the same there, but
numbers and flags are compared as if they were texts and orders by comparisons that
compile.mjs:118-121 calls wrong in this engine, so that what it answers is left
open (`doubt`). `Queries` joins two conditions on its text column only for that
reason. The compilers of a rule make the result of a
node from the results of its two sides; `Rules` has no tree, but what they made of
each rule in the editor (`operands`): the rows it is true of, the operations, its
fields. `Write` adds a term and `Join` the node over the last two, so that rules of
every shape arise. **SchemaInference** samples a value at a path; `observed` is
what was sampled (ghost), `leafStats` what the sampler keeps of it.

### Abstractions a reader should know

- Names, payloads and values are members of small sets; formatting is left out,
  except where it decides (escapes and lengths of frames, joined column names).
- What the code calls through an interface it does not own (the engine, AG-Grid,
  the broker, the socket library) is modelled from how `src/` uses it and marked
  external in the map.
- Parts that share no state in the code are separate modules, joined only for TLC.

## Runs

Parts that share no state are explored in one run one at a time: a behaviour has a
`part`, and the others stay as they began. The states of a run are the sum of its
parts', not their product, and each part keeps its own fairness.

| run | expects | shows |
|---|---|---|
| `progress` | pass | ladder (`flow`), subscriptions at a hub in a worker and in a sidecar (`worker`, `sidecar`), CSRM mirror (`mirror`): `LagStaysBelowLimit`, `DropIsEarned`, `ConflationIsPaced`, `WedgedTabIsShed`; `RefsCoverHolders`, `TablesAreAccounted`, `LastLeaveCloses`, `ReloadKeepsSubscribers`, `IdleTableCloses`; `GridIsLaggingCopy` (refinement), `GridCatchesUp` |
| `parts` | pass | the tab, the hub's services and the configuration: `ViewsAreAccounted`, `ReadersKeepTheirView`, `ResolvedScanIsWhole`, `RequestsAreAccounted`, `EngineViewsAreHeld`, `PushesComeInOrder`, `EditsYieldToNews`, `SettledGridIsCurrent` (viewport and blocks), `ServedValuesAreRecent`, `ComputationsAgree` (filters in three evaluations, answers of the hub and of the tab, rules, inferred schemas), `DivergenceIsSignalled`, `RangeFollowsItsRows`, `WatchesAreAccounted`, `WatchersReportTransitions`, `TableFollowsUpstream`, `EditsTakeEffect` |
| `pipeline` | pass | the datasource (`AcceptedIsHeld`, `RecoveryIsArmed`, `FirstLiveIsQueryable`, `AnnouncedSnapshotEnds`, `RecoveryEnds`), the other feeds (`LiveFeedIsCurrent`), the frames (`FramesArriveWhole`) |
| `writes` | pass | `AppliedAtMostOnce`, `ConfirmedWasStored`, `SettledForGood`, `EditResolves` |
| `delivery_order` | violation of `TabNeverGoesBack` | a stranded batch overwrites newer rows |
| `delivery_refresh` | violation of `CaughtUpIsCurrent` | one refresh per visit is not enough |
| `hub_one_upstream` | violation of `OneUpstreamPerKey` | two first subscribers, two upstreams |
| `hub_last_leave` | violation of `OnlyTheLastLeaveCloses` | an unsubscribe sent twice takes another tab's reference |
| `pipeline_reconnect` | violation of `SnapshotHasDeadline` | a reconnect after live throws before its deadline is armed |
| `pipeline_truncated` | violation of `LiveIsWhole` | an update is counted for a missing row |
| `writes_rejected` | violation of `RejectionIsSurfaced` | an image of another field's change settles an edit, its rejection is ignored |
| `rules_agree` | violation of `ValidRulesMeanTheSame` | an accepted rule with an `||` over an `&&`, of texts only, fires on other rows in the engine: `desk == 'bond' || (desk == 'bond' && desk != 'bond')` is compiled as any of the three and fires on every row |

`progress` and `parts` check the type invariants of their parts in one
(`ProgressTypesOK`, `PartsTypesOK`). Those of the pipeline and of the writes are
proved; those of the feeds and the frames are stated in the modules and no
configuration lists them.

### Findings

A violation run checks one statement that the repository makes of itself and that
the code does not keep; the counterexample is the shortest, and `PROJECT.json`
quotes the statement. Beside those, some disagreements are excused in a property,
which names them where they are excused: two loads of one signature, or an open
answered after its timeout, lose a view (`ViewsAreAccounted`); a change between the
fetch of a REST snapshot and the subscription, or after a stream's end, is not
heard, and an update held back over the fetch is replayed over a newer page when
its successor was lost with the socket, although rest.mjs:18 calls applying it
harmless (`LiveFeedIsCurrent`; it takes three versions of a row); merges and edits keep the checksum of the bundle that
was imported (`DivergenceIsSignalled`); a batch without `dedupeByKey` is reordered
by its columns (`TableFollowsUpstream`); changes during `createTable`, live fields
that `applyLive` does not know, and sections that come or go as a whole go
unheeded, a registry entry keeps its idle time, prewarm, sharing and size over a
rebuild, and the conflation interval is never taken up from a first bundle or a
structural push (`EditsTakeEffect`); an unsubscribe that overtakes its own
subscribe or was never owed, and a sidecar's close of a key with params, release
another tab's reference (`overdrawn`, in `RefsCoverHolders`, `TablesAreAccounted`
and `LastLeaveCloses`); a search of several words selects more rows on the plane,
aggregates are one row's values, and disjunctions of anything but texts are in
doubt (`ComputationsAgree`); a broker that never answers CONNECT holds a recovery
up (`RecoveryEnds`); booleans mixed with other values are typed boolean
without a review (`ArtifactFitsSamples`, in `ComputationsAgree`); the first image after an edit is hidden even
when it is news (`EditsYieldToNews`).

### Bounds, and why they are enough

- `progress`, ladder: `Limit = 6` is the smallest limit near the code's ratio that
  gives every rung an integer lag (0-2, 3-4, 5); two feeds; `ConflateMs = 1` and
  `StuckMs = 2` tell not due from due and not stuck from half stuck from stuck.
  `MaxAcked = 4` lets the tab acknowledge 4 deltas, so every rung is entered and
  left, and a reset happens once (`MaxResets`).
- `progress`, subscriptions: two tabs are the fewest that share and race. Three
  keys: a book of one byte, the same book with params (the sidecar takes one for the
  other), and a prewarmed blotter of two bytes under a ceiling of two, so that it
  competes with either. The second tab asks for the book; the first for the book
  and, in a worker, the blotter, in a sidecar the book with params. `MaxTables = 2`
  allows a race of two first subscribers, or a table and its rebuilding. `MaxRefs =
  2` bounds what a client's subscribe may reach; `MaxTimers = 2` lets a release arm
  a second timer over the one in `teardownTimer`. One structural reload, in the
  worker, where tabs fall behind and disconnect. The second tab's client
  unsubscribes from the worker at will: without ever having subscribed, while its
  subscribe awaits the engine, and after it has left; after a first stray release
  nothing is dropped or reloaded any more, which bounds what follows of it. The first tab of
  the sidecar disconnects. `hub_last_leave` sets `Repeats`, the client that sends an
  unsubscribe twice; the theorems have all of these at once.
- `progress`, mirror: two rows, two images of each: one changes while the other is
  read.
- `pipeline`, datasource: two rows are the fewest that can be told apart as missing;
  two versions; a queue of 3 and batches of 2 make batches, buffering and overflow
  happen; two endpoints with one attempt each make failover and its exhaustion
  happen; one outage. Feeds: each of the five shapes, two rows, three versions of a
  row (two for socket.io), so that one can be held back, the next lost and the last
  fetched; one drop, three sockets. Frames: three messages and two that do not parse, two frames
  on two connections, cut anywhere.
- `parts`: the smallest sets in which two of the things that race exist. Two loads
  of two signatures and a cache of one entry (so an eviction has to find a view
  that is not pinned); one clear or lost connection; three ports; one plane session
  with two specs, caps of one, three views and two group deltas (with two sessions
  nothing new arises: what one session's steps leave alone of another is proved for
  any number); two rows with two feed values and one edit that the feed may echo;
  two groups with one row each; a time to live of 2 in a clock of 4; two stores of
  two collections, two calls and one edit; three rows in every order; a message of
  each kind over a nested path, one with the separator in its name, an array and
  one that is too deep; two overlapping calls over a row that does not move, and
  one watch over a row that moves three times; three rows and one move under a
  scan; two pushed bundles that change one or two of seven fields: of the connection,
  beside a `$ref`, in a section with a class of its own, set live in the table and in
  the hub, and of the registry's entry; up to four samples of two paths, one of them too deep, with values
  of each type, a cap of three distinct values and a set filter of two; `IsoPercent`
  is 60, so that three dates in four samples are a column of dates (99 in the code);
  filters of two columns and the search, two of the three set at a time, over texts
  of one or two pieces in two cases and two numbers, with and without a value, and a
  search of one word or two; rules
  of three terms in every shape, over two numbers and a text in two cases, which are
  also those of `rules_agree`.
- `writes`: one tab; what other tabs write reaches it as rows of the datasource.
  Two edits of one cell are the fewest that supersede and that a late message can
  confuse; a queue of one makes refusals; one message under way in each direction is
  enough, since sequences of messages arise over time, and a bounded channel only
  delays. `writes_rejected` has a second field and two messages on the way.
- `delivery_*`: one feed, two rows, two or three versions. In `delivery_refresh`
  `ConflateMs` is 0, so that the loss shown is that of the refresh rung alone.

For the properties that are theorems the bounds only decide what TLC looks at; the
proofs hold for all values of the constants.

Deadlock is checked in the `writes` and `delivery` runs. In the others a system
may really stop: everyone has left, the bounded counters are used up, a closed
datasource stops.

### Fairness

- Ladder: time passes and each subscribed table keeps changing. The ladder has no
  timer of its own, it acts only when a delta is offered, so without changes a
  wedged tab is indeed never shed; a live feed changes. Nothing is assumed of the
  tab.
- Subscriptions: the engine answers each pending call, armed timers fire, and a
  reestablish goes on when what it awaited has come back. Nothing is assumed of
  clients.
- Mirror: deltas that were posted arrive, and the grid applies its transactions.
- Datasource: armed timers fire, the engine finishes its writes, and the differ's
  read returns or fails. Nothing is assumed of the upstream: it may never send a
  row, and a socket that opens may never be answered. No timer runs while the
  adapter is connecting (base.mjs, stomp.mjs), so a recovery may then stay there for
  good, and `RecoveryEnds` names that end beside subscribed, failed and closed.
- Writes: the clock of the tab advances and `tick` is called. Nothing is assumed of
  the channels, the hub or the datasource, so the timeout alone must settle an edit.
  A superseded edit is not timed (writePath.mjs:176), hence the disjunct of
  `EditResolves`.

The `parts` run checks safety only.

## Proofs

All theorems hold for every value of the constants that the named assumptions
allow; the assumptions say that bounds are numbers, that caps which the code's
defaults keep above zero are, that distinguished values are distinct from data.
Some say more. `FlowAssumption` excludes a limit below 4, which leaves the refresh
rung without an integer lag. `SchemaAssumption` repeats what the schema of the
bundle does. `QueryAssumption` and `RuleAssumption` keep texts, numbers, flags and
the missing value apart, as `typeof` does. `HubQueriesAssumption` has finite sets of
keys and marks. `InferenceAssumption` says which JavaScript type dates, fractions
and tokens are of, that there are two booleans at most, that a set filter may have
two values (10000 in the code) and that more than half of a column of dates are.

Each proof has the same shape: the inductive invariant is a conjunction of named
parts, each action has a lemma that it keeps the invariant, a step lemma combines
them, and the theorem follows by temporal reasoning; each property is then read off
the invariant. The two compositions, `RowModes` and `Computations`, are conjunctions
of the specifications of their parts, and so are their theorems.

| theorem | module | property | strengthening, and why it is needed |
|---|---|---|---|
| `Invariance`, `TypeCorrect`, `LagBounded`, `DropsAreEarned`, `BatchesArePaced` | `DeliveryProofs` | `LagStaysBelowLimit`, `DropIsEarned`, `ConflationIsPaced` | `StuckSinceRefresh`: while the refresh clock runs and the lag is that of the rung, the tab was sent a refresh and its silence is as old as the clock. The condition on the lag is there because an acknowledgement can leave the rung without stopping the clock; it is kept because at most one delta beyond three quarters of the limit is outstanding, so any progress takes the lag below the rung |
| `FirstLiveHasTheSnapshot` | `DeliveryProofs` | `FirstLiveIsQueryable` | assumes `Policy = "buffer"`, the default: with `apply-live` the hub may publish live while updates are still in the queue. On the first connection the datasource is before, in or after its snapshot; up to its end nothing is queued and nothing written, so the snapshot, with what was held back over it, is the first write, put over an empty table it is what was sealed, and live is published when that write is done |
| `RetryIsArmed`, `CloseIsFinal` | `DeliveryProofs` | `RecoveryIsArmed` | a retry outlives `close()` and must find the adapter closed |
| `PipelineInvariance`, `PipelineTyped`, `AcceptedRowsAreHeld` | `DeliveryProofs` | `AcceptedIsHeld` | the buffer has rows only while a snapshot is taken, so that nothing newer is in the queue behind it; that merging a concatenation is merging one over the other is a lemma about folds |
| `FeedInvariance`, `LiveFeedsAreCurrent` | `DeliveryProofs` | `LiveFeedIsCurrent` | who is subscribed hears of every change, so the last image of a row on a wire is its last; with none on a wire the last word is said by what is held back, else by the page on its way, else by the table, unless the feed gave up its fetch; a feed with a sentinel that lost no socket has one, and lacks only rows its snapshot has still to bring |
| `WriteInvariance`, `WriteTypeCorrect`, `AppliedOnce`, `ConfirmedStored`, `SettledStaysSettled` | `WritePathProofs` | `AppliedAtMostOnce`, `ConfirmedWasStored`, `SettledForGood` | commands and answers under way are of edits that were made; a pushed key is in `seenCommands`, which survives a teardown; images under way hold values the table has held. Keys may be shared by edits, as the default `newKey` of two tabs shares them |
| `ChannelInvariance`, `ScanIsWhole`, `WaitingIsAccounted` | `ClientProofs` | `ResolvedScanIsWhole`, `RequestsAreAccounted` | a request is on one port at most, once; what a scan has heard, what is on its way and what the hub still has to send are its batches in order |
| `ViewportInvariance`, `ViewportSettlesCurrent` | `ClientProofs` | a part of `SettledGridIsCurrent` | requests are answered in turn, and only the last one that counts has to be fresh: behind it there are only fills, and with none left the count is the engine's and each row of the range is current or asked for. Whatever changes the view leaves a delta on its way or the timer set, and that is what the invariant waits for |
| `BlocksInvariance`, `BlocksSettleCurrent` | `ClientProofs` | a part of `SettledGridIsCurrent` | on a quiet route, one whose rows have no news and no refresh ahead, or whose groups have none: the last read of each block has been answered with what the engine has now, and a loaded block nobody reads again is current. Earlier reads may be anything |
| `GridSettlesCurrent` | `ClientProofs` | `SettledGridIsCurrent` | the two above, of behaviours of `RowModesSpec` |
| `HubInvariance`, `HoldersAreCovered`, `LastLeaveIsLast`, `TablesAreAdmitted` | `HubSubscriptionsProofs` | `RefsCoverHolders`, `LastLeaveCloses`, `TablesAreAccounted` | holders of a key are its subscribers *and* the sessions that are there and list it, because a reload takes a subscriber and leaves its reference and a disconnect releases what is listed; at most one timer, held, and only over no references. Nothing is assumed of the clients or the host: all is said of the keys outside `overdrawn`, and a release puts its key there exactly when the session has no reference of its own to give. Of the other keys it is false (`hub_last_leave`) |
| `EditsReachTheTable` | `HubSubscriptionsProofs` | `EditsTakeEffect` | the property is inductive, with the flows of absent tabs; the work is in the plan: a field that differs is reported by itself or as the largest section around it that came or went; if no plan is structural its class is none or live, and so it is set in place or among the edits named as unheeded. What the registry's entry and the hub have is excused at the push and heeded when the entry is made again or `applyLive` sets it. From `SchemaAssumption`, which says what datasource-config.schema.json does: a class for each field or a section around it, live for single fields only |
| `CeilingHolds` | `HubSubscriptionsProofs` | | the tables the registry knows fit the ceiling together, whatever clients send; about a sum over a set, which needs the sum lemmas |
| `WatchInvariance`, `NoViewIsForgotten` | `HubWatchesProofs` | `WatchesAreAccounted` | a view has one owner - the managed set, its key's slot, or a call - and the walk of a session that leaves has it still ahead |
| `AlertsFollowCrossings` | `HubWatchesProofs` | `WatchersReportTransitions` | crossings so far are at least the alerts sent, and the rises among the samples not yet fed, and the sample that is due; a group's last report is off by at most the tolerance for each quiet sample |
| `TabInvariance`, `NoViewIsOrphaned`, `ViewsOutliveReaders` | `PartsProofs` | `ViewsAreAccounted`, `ReadersKeepTheirView` | nine parts: pins cover readers, an opening view is private, an entry a clear has passed is on its way out, a view that is cached or read is open and nobody has asked for its disposal |
| `CacheInvariance`, `ServedRecent` | `PartsProofs` | `ServedValuesAreRecent` | the moments of an entry are in order, and an invalidation takes the entry out |
| `SamePairSameContent` | `PartsProofs` | `DivergenceIsSignalled` | a store that holds what it imported, whole, has the checksum of it |
| `MirrorInvariance`, `MirrorLags` | `PartsProofs` | `GridIsLaggingCopy` | everything under way - window, deltas, held back, transactions - has once been in the table; the refinement maps each step to a step or a stutter of `LaggingCopy` |
| `FiltersTyped`, `GridsAgree` | `PlaneProofs` | a part of `ComputationsAgree` | no more than the types: for each condition, negation and join the row predicate, the engine's operations and the plane's nodes select the same cells, for texts, numbers and cells without a value. Of a search of several words the plane's rows are shown to be those of the others and maybe more: a cell that has the text has its words. Excused in the property: two exclusions of one column, both required, sets with blanks and part of a spelling |
| `QuestionsInvariance`, `AnswersAgree`, `QuestionsTyped` | `PlaneProofs` | a part of `ComputationsAgree` | one view is open from the opening of a call to its end; in a book that has not moved, the rows counted are those of the view and the rows read so far are the first of them. That the hub's order and distinct values are those of the tab are lemmas on sorting by rank and filtering. Aggregates are not compared |
| `RulesAgree` | `PlaneProofs` | a part of `ComputationsAgree` | every rule in the editor: the property of it, and that a rule without a conjunction is a single operation, which is why an `or` over its operations means the same. Of rules whose disjunctions are of texts; of others the engine's answer is in doubt |
| `SamplingInvariance`, `ArtifactFits` | `PlaneProofs` | a part of `ComputationsAgree` | of each path: counts are those of the samples, the types and the fraction flag those of the values sampled, and the distinct values are all that were sampled or have been let go for good. The artifact's promises follow by cases on the ground of each guess |
| `ComputationsAreOne` | `PlaneProofs` | `ComputationsAgree` | the four above, of behaviours of `ComputationsSpec` |
| `SelectionInvariance`, `RangeFollows` | `PlaneProofs` | `RangeFollowsItsRows` | types: each handler looks at the range again before it returns |
| `OverlayInvariance`, `EditsYield` | `PlaneProofs` | `EditsYieldToNews` | every edited row is in one of two cases. Its edit is held: it is shown, and the feed has said nothing or only the baseline. It is not held: the row shows what the feed said last, and if that was always one value it is the edit's |
| `PlaneInvariance`, `ViewsAreHeld`, `GroupDeltasInOrder` | `PlaneProofs` | `EngineViewsAreHeld`, `PushesComeInOrder` | a view has one number and one owner, so what is evicted on one side is what goes on the other; what a grid heard, what is pushed and what is in the outbox, put together, count 1 to the number of deltas the engine said; a session that has not subscribed was told nothing |

`DataLemmas` has what these share: least and largest numbers, induction with sets,
iterations over the prefixes of a sequence (what `FoldLeft` computes), sums over
sets in any order, `RemoveAt`, sequences filtered by `KeepIn`, lists of lists
put together, and sets ordered by `Ranked`.

**Model-checked only**, and why:

- liveness: `WedgedTabIsShed`, `ReloadKeepsSubscribers`, `IdleTableCloses`,
  `GridCatchesUp`, `AnnouncedSnapshotEnds`, `RecoveryEnds`, `EditResolves`: the
  provers do not do fairness;
- `FramesArriveWhole`: the frame buffer is recursive over its text, which these
  provers cannot unfold;
- `TableFollowsUpstream`: what nested documents flatten to, merged by key and split
  into columns, is an induction over data;
- `PartsTypesOK`, `ProgressTypesOK`: conjunctions over the parts of a run. Those of
  the ladder, the pipeline, the writes, the viewport, the blocks, the filters and
  the questions are theorems, others are part of an inductive invariant.

The violated properties of the runs that expect a violation are of course not
theorems.

## Known limits of the models

- *Subscriptions.* Superset sharing and per-subscriber views, the refusal by
  `maxRows`, the removal of a datasource from the bundle, and the misassignment of
  `stopWatch` to a replaced entry are left out. A rejected `createTable` or
  `watchTable` leaves a reference that nobody releases (hub.mjs:221);
  `RefsCoverHolders` says references are never too few, not that they are exact. TLC
  drops and reloads nothing after a stray unsubscribe (see the bounds); the theorems
  have no such limit.
- *Ladder.* The envelope of a merged batch is that of the first delta held back, so
  with several feeds the rows of all would be written to one (flow.mjs:213); the
  `delivery_*` runs use one feed. A live change of `conflateMs` is left out.
- *Datasource.* One end of snapshot (a declared count) and a soft-delete column.
  With one outage no second `end()` of the differ starts while one is pending.
  Without a soft-delete column a removal is lost for good (reconnect.mjs:83).
- *Feeds.* A socket that was displaced is never closed; no snapshot deadline runs
  during the handshake; the 120 s deadline of a feed without a snapshot fires
  (base.mjs). The packet format of socket.io is left out.
- *Frames.* `content-length` counts characters where STOMP counts octets; header
  lines that end in CR LF never end; an exception drops the frames before it in the
  same chunk; a decoder for each chunk can break a character in two. The model's
  text has none of these.
- *Rows.* `TableFollowsUpstream` does not look at the pinned tail of an array that
  shrank, nor at optional fields of a document that came back; of an exploded array
  the hub keeps the first row (hub.mjs:289).
- *Answers.* Soft-deleted rows are counted by the hub and not by a tab that has its
  rows; a rank sends the raw filter model, which filters nothing; a scan or rank
  over several blocks may be torn when the book moves; aggregates are those of one
  row. The property names each. Joined conditions on a number column are not
  modelled, and of rules a disjunction of numbers, flags or orders is left open.
- *Blocks.* SSRM and VRM do not listen to the hub's `refresh`, so after one they
  are stale until the next delta; `destroy` leaves a listener and a timer. Pivots
  and row ids are left out.
- *Mirror.* Rows are whole: the merge of partial rows, and two images of one key in
  one batch, are left out.
- *Planes.* The caps hold after an eviction only, and are not a property.
- *Config.* Items added to or removed from a bundle, and `assertRefs`, which nothing
  calls, are left out. When two imports race the version may go backwards.
- *Control.* `failAll` is never called; subscriptions a dropped connection had are
  not replayed by anything in `src/`.
- *Writes.* A malformed payload, a push that throws, a table still in its snapshot,
  and verbs other than the edit of a cell are left out.
- *Not modelled.* The Rust hub: another implementation with a row store and wire
  format of its own. Admin screens, code generation, demos, column definitions,
  cell formats, statistics, tokens and arithmetic of the expression language:
  sequential code without state of its own, which unit tests and a parity corpus
  cover.

## Plan

Done, in this order: the ladder, its rows, subscriptions, the datasource and the
write path; the tab's views, control channel, caches and row modes; planes,
selection and configuration; feeds, frames and rows; filters, rules, questions and
inferred schemas; the proofs listed above.

Next:

1. The part of `TableFollowsUpstream` that is about merging a batch, over which the
   lemmas on folds already say something.
2. `FirstLiveIsQueryable` of reconnects, once the code awaits the engine there.
3. The Rust store, as a refinement of the same delivery promise.
