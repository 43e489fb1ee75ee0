-------------------------- MODULE HubSubscriptions --------------------------
(***************************************************************************)
(* Who holds which table: the reference counts of the registry             *)
(* (registry.mjs) and the subscribe, unsubscribe, disconnect, idle-timer   *)
(* and config-reload handlers of the hub (hub.mjs, sidecarServer.mjs).     *)
(*                                                                         *)
(* A key is a cache key: a datasource with its params, shared exactly.     *)
(* Between two awaits the hub runs alone, so an action is the code from    *)
(* one await to the next; a subscribe waits for the engine twice, for its  *)
(* table and for the watch on it, and everything else may run meanwhile.   *)
(***************************************************************************)
EXTENDS Integers, FiniteSets, FiniteSetsExt

CONSTANTS
    Sessions,
    Keys,
    Prewarm,        \* keys whose datasource has lifecycle.prewarm
    BareOf,         \* the key of a key's datasource without params
    Bytes,          \* estimateBytes of a key's table
    Ceiling,        \* processCeilingBytes
    Repeats,        \* a client may send an unsubscribe again
    Unasked,        \* a client may send one for any key, at any time
    MaxTables,      \* bound: tables the engine ever creates
    MaxRefs,        \* bound: references a client's subscribe may reach
    MaxTimers,      \* bound: timers armed at once on a key
    MaxReloads      \* bound: structural config pushes

ASSUME HubAssumption ==
    /\ IsFiniteSet(Sessions)
    /\ IsFiniteSet(Keys)
    /\ Prewarm \subseteq Keys
    /\ BareOf \in [Keys -> Keys]
    /\ Bytes \in [Keys -> Nat]
    /\ Ceiling \in Nat
    /\ Repeats \in BOOLEAN
    /\ Unasked \subseteq Sessions
    /\ {MaxTables, MaxRefs, MaxTimers, MaxReloads} \subseteq Nat

VARIABLES
    cached,    \* keys with a registry entry
    refs,      \* its reference count
    held,      \* its teardownTimer is set
    timers,    \* timers armed on the key, the one in teardownTimer included
    overdrawn, \* history: keys released by a session that did not hold them
    entry,     \* hub.entries: the key's table
    subs,      \* the subscribers of that entry
    upstream,  \* tables whose adapter is connected
    dying,     \* tables whose teardown has not come back
    made,      \* tables created so far
    ops,       \* subscribes waiting for the engine
    listed,    \* session.subscriptions
    open,      \* keys the client believes it is subscribed to
    stopped,   \* keys the client has unsubscribed and may again (if Repeats)
    gone,      \* sessions that have disconnected
    closing,   \* those that have said CLOSE, their socket still open
    reload,    \* reestablish in progress: the table it waits for, survivors left
    reloads    \* structural config pushes so far

registry == <<cached, refs, held, timers, overdrawn>>
hub == <<entry, subs, upstream, dying, made>>
clients == <<listed, open, stopped, gone, closing>>
reloading == <<reload, reloads>>
hubVars == <<registry, hub, ops, clients, reloading>>

NoTable == 0
Tables == 1..MaxTables

(* A subscribe in flight: for the client itself or for a reestablish,      *)
(* waiting for createTable (no table yet) or for watchTable.               *)
Op == [session : Sessions, key : Keys, table : {NoTable} \cup Tables,
       by : {"client", "reload"}]

Pending(k) == {op \in ops : op.key = k}
Idle == [waiting |-> NoTable, left |-> {}]

HubInit ==
    /\ cached = {}
    /\ refs = [k \in Keys |-> 0]
    /\ held = [k \in Keys |-> FALSE]
    /\ timers = [k \in Keys |-> 0]
    /\ overdrawn = {}
    /\ entry = [k \in Keys |-> NoTable]
    /\ subs = [k \in Keys |-> {}]
    /\ upstream = {}
    /\ dying = {}
    /\ made = 0
    /\ ops = {}
    /\ listed = [s \in Sessions |-> {}]
    /\ open = [s \in Sessions |-> {}]
    /\ stopped = [s \in Sessions |-> {}]
    /\ gone = {}
    /\ closing = {}
    /\ reload = [k \in Keys |-> Idle]
    /\ reloads = 0

-----------------------------------------------------------------------------
(* The registry.                                                           *)

UsedBytes == MapThenSumSet(LAMBDA k : Bytes[k], cached)
(* Mutant of Fits: the tables already there are not counted.               *)
FitsAlone(k) == Bytes[k] <= Ceiling

Fits(k) == Bytes[k] <= Ceiling - UsedBytes

(* Mutants of Acquire: joining is not counted; joining leaves the timer.   *)
AcquireUncounted(k) ==
    \/ /\ k \in cached
       /\ timers' = [timers EXCEPT ![k] = IF held[k] THEN @ - 1 ELSE @]
       /\ held' = [held EXCEPT ![k] = FALSE]
       /\ UNCHANGED <<cached, refs, overdrawn>>
    \/ /\ k \notin cached
       /\ Fits(k)
       /\ cached' = cached \cup {k}
       /\ refs' = [refs EXCEPT ![k] = 1]
       /\ UNCHANGED <<held, timers, overdrawn>>

AcquireLeavesTimer(k) ==
    /\ k \in cached \/ Fits(k)
    /\ cached' = cached \cup {k}
    /\ refs' = [refs EXCEPT ![k] = @ + 1]
    /\ UNCHANGED <<held, timers, overdrawn>>

(* acquire: join the entry and cancel its timer, or admit a new one.       *)
Acquire(k) ==
    /\ UNCHANGED overdrawn
    /\ \/ /\ k \in cached
          /\ refs' = [refs EXCEPT ![k] = @ + 1]
          /\ timers' = [timers EXCEPT ![k] = IF held[k] THEN @ - 1 ELSE @]
          /\ held' = [held EXCEPT ![k] = FALSE]
          /\ UNCHANGED cached
       \/ /\ k \notin cached
          /\ Fits(k)
          /\ cached' = cached \cup {k}
          /\ refs' = [refs EXCEPT ![k] = 1]
          /\ UNCHANGED <<held, timers>>

(* The session has a reference to the key that is its own to give back: it *)
(* is a subscriber of the table, or it is still there and lists the key.   *)
Holds(s, k) == s \in subs[k] \/ (s \notin gone /\ k \in listed[s])

(* A count that is decremented, never below zero.                          *)
Lowered(count, n) == IF count > n THEN count - n ELSE 0

(* Mutant of Armed: the count is tested before it is decremented.          *)
ArmedLate(k, n) ==
    IF k \in cached \ Prewarm THEN Cardinality({i \in 1..n : i > refs[k]}) ELSE 0

(* The timers n releases of a key arm: each release that leaves the count  *)
(* at zero arms one, whether or not one was armed already.                 *)
Armed(k, n) ==
    IF k \in cached \ Prewarm THEN Cardinality({i \in 1..n : i >= refs[k]}) ELSE 0

(* release, times[k] times of each key.  Nobody asks whether s holds k.    *)
Release(s, times) ==
    /\ \A k \in Keys : timers[k] + Armed(k, times[k]) <= MaxTimers
    /\ refs' = [k \in Keys |-> IF k \in cached THEN Lowered(refs[k], times[k]) ELSE refs[k]]
    /\ held' = [k \in Keys |-> Armed(k, times[k]) > 0 \/ held[k]]
    /\ timers' = [k \in Keys |-> timers[k] + Armed(k, times[k])]
    /\ overdrawn' = overdrawn \cup
           {k \in cached : times[k] > (IF Holds(s, k) THEN 1 ELSE 0)}
    /\ UNCHANGED cached

-----------------------------------------------------------------------------
(* subscribe                                                               *)

(* The last, synchronous part: join the entry, answer the client.          *)
Attach(s, k) ==
    /\ subs' = [subs EXCEPT ![k] = @ \cup {s}]
    /\ listed' = [listed EXCEPT ![s] = @ \cup {k}]
    /\ open' = [open EXCEPT ![s] = IF s \in gone THEN @ ELSE @ \cup {k}]
    /\ UNCHANGED <<stopped, gone, closing>>

(* Mutant of Refuse: the error is swallowed.                               *)
RefuseSilently(s, k) == s \in Sessions /\ k \in Keys /\ UNCHANGED clients

(* It throws: the client is sent an error.  The reference stays counted.   *)
Refuse(s, k) ==
    /\ open' = [open EXCEPT ![s] = @ \ {k}]
    /\ UNCHANGED <<listed, stopped, gone, closing>>

(* The first part, up to the first await.                                  *)
StartSubscribe(s, k, by) ==
    /\ Acquire(k)
    /\ \/ /\ entry[k] # NoTable
          /\ Attach(s, k)
          /\ UNCHANGED ops
       \/ /\ entry[k] = NoTable
          /\ ops' = ops \cup {[session |-> s, key |-> k, table |-> NoTable, by |-> by]}
          /\ UNCHANGED <<subs, clients>>
    /\ UNCHANGED <<entry, upstream, dying, made>>

Subscribe(s, k) ==
    /\ s \notin gone
    /\ k \notin open[s]
    /\ \A op \in ops : ~(op.session = s /\ op.key = k /\ op.by = "client")
    /\ refs[k] < MaxRefs
    /\ StartSubscribe(s, k, "client")
    /\ UNCHANGED reloading

(* createTable resolves: the new entry replaces whatever entry another     *)
(* first subscriber has put there meanwhile, subscribers included.         *)
TableCreated(op) ==
    /\ op.table = NoTable
    /\ made < MaxTables
    /\ made' = made + 1
    /\ entry' = [entry EXCEPT ![op.key] = made + 1]
    /\ subs' = [subs EXCEPT ![op.key] = {}]
    /\ ops' = (ops \ {op}) \cup {[op EXCEPT !.table = made + 1]}
    /\ UNCHANGED <<registry, upstream, dying, clients, reloading>>

(* watchTable resolves: the upstream is connected and the session joins    *)
(* the entry there is now.  Without one the subscribe throws first.        *)
TableWatched(op) ==
    /\ op.table # NoTable
    /\ ops' = ops \ {op}
    /\ \/ /\ entry[op.key] # NoTable
          /\ upstream' = upstream \cup {op.table}
          /\ Attach(op.session, op.key)
       \/ /\ entry[op.key] = NoTable
          /\ Refuse(op.session, op.key)
          /\ UNCHANGED <<subs, upstream>>
    /\ UNCHANGED <<registry, entry, dying, made, reloading>>

(* createTable or watchTable rejects.                                      *)
EngineFails(op) ==
    /\ ops' = ops \ {op}
    /\ Refuse(op.session, op.key)
    /\ UNCHANGED <<registry, hub, reloading>>

-----------------------------------------------------------------------------
(* Leaving                                                                 *)

(* The session goes off the tables of keys, and releases are made.         *)
Leave(s, keys, times) ==
    /\ subs' = [k \in Keys |-> IF k \in keys THEN subs[k] \ {s} ELSE subs[k]]
    /\ Release(s, times)
    /\ UNCHANGED <<entry, upstream, dying, made, ops, reloading>>

(* unsubscribe, which the session may send while its subscribe is still in *)
(* flight or for a key it never had.  It returns early, with nothing done, *)
(* when the registry has no entry, and there is no other check.            *)
Unsubscribe(s, k) ==
    /\ s \notin gone
    /\ s \in Unasked \/ k \in open[s] \cup stopped[s]
    /\ k \in cached
    /\ Leave(s, {k}, [j \in Keys |-> IF j = k THEN 1 ELSE 0])
    /\ listed' = [listed EXCEPT ![s] = @ \ {k}]
    /\ open' = [open EXCEPT ![s] = @ \ {k}]
    /\ stopped' = [stopped EXCEPT ![s] = IF Repeats THEN @ \cup {k} ELSE @]
    /\ UNCHANGED <<gone, closing>>

Disconnect(s) ==
    /\ s \notin gone
    /\ gone' = gone \cup {s}
    /\ open' = [open EXCEPT ![s] = {}]
    /\ UNCHANGED stopped

(* releaseSession: every subscription, found by its key.                   *)
ReleaseSession(s) ==
    /\ Disconnect(s)
    /\ Leave(s, listed[s], [k \in Keys |-> IF k \in listed[s] THEN 1 ELSE 0])
    /\ UNCHANGED <<listed, closing>>

(* The sidecar's teardown sends one unsubscribe for each key the session   *)
(* lists, by datasource alone: each releases the key without params, which *)
(* may be another session's, and none a key with params.                   *)
Stripped(s) == [k \in Keys |-> Cardinality({j \in listed[s] : BareOf[j] = k})]

SidecarTeardown(s) ==
    LET found == {k \in cached : Stripped(s)[k] > 0} IN
    /\ Leave(s, found, Stripped(s))
    /\ listed' = [listed EXCEPT ![s] = @ \ found]

(* The client says CLOSE, or the socket closes.                            *)
SidecarClose(s) ==
    /\ Disconnect(s)
    /\ SidecarTeardown(s)
    /\ closing' \in {closing, closing \cup {s}}

(* After a CLOSE the socket closes too: the teardown runs once more.       *)
SocketCloses(s) ==
    /\ s \in closing
    /\ closing' = closing \ {s}
    /\ SidecarTeardown(s)
    /\ UNCHANGED <<open, stopped, gone>>

(* dropSlowSubscriber: off the entry, told why, its reference kept.        *)
DropSlow(s, k) ==
    /\ s \in subs[k]
    /\ subs' = [subs EXCEPT ![k] = @ \ {s}]
    /\ listed' = [listed EXCEPT ![s] = @ \ {k}]
    /\ open' = [open EXCEPT ![s] = @ \ {k}]
    /\ UNCHANGED <<registry, entry, upstream, dying, made, ops, stopped, gone, closing,
                   reloading>>

-----------------------------------------------------------------------------
(* Mutant of Teardown: no early return without an entry.                   *)
TeardownUnguarded(k) ==
    /\ entry' = [entry EXCEPT ![k] = NoTable]
    /\ subs' = [subs EXCEPT ![k] = {}]
    /\ upstream' = upstream \ {entry[k]}
    /\ dying' = dying \cup {entry[k]}
    /\ UNCHANGED made

(* teardown, up to its first await: the entry goes, the adapter closes.    *)
Teardown(k) ==
    /\ entry' = [entry EXCEPT ![k] = NoTable]
    /\ subs' = [subs EXCEPT ![k] = {}]
    /\ upstream' = upstream \ {entry[k]}
    /\ dying' = dying \cup ({entry[k]} \ {NoTable})
    /\ UNCHANGED made

(* The idle timer deletes the registry's entry whatever its count is now.  *)
(* A timer that teardownTimer no longer names fires all the same.          *)
TimerFires(k) ==
    /\ timers[k] > 0
    /\ timers' = [timers EXCEPT ![k] = @ - 1]
    /\ cached' = cached \ {k}
    /\ refs' = [refs EXCEPT ![k] = 0]
    /\ held' = [held EXCEPT ![k] = FALSE]
    /\ Teardown(k)
    /\ UNCHANGED <<overdrawn, ops, clients, reloading>>

(* The watch is stopped and the table deleted.                             *)
TeardownDone(t) ==
    /\ t \in dying
    /\ dying' = dying \ {t}
    /\ reload' = [k \in Keys |->
                     IF reload[k].waiting = t THEN [reload[k] EXCEPT !.waiting = NoTable]
                     ELSE reload[k]]
    /\ UNCHANGED <<registry, entry, subs, upstream, made, ops, clients, reloads>>

(* reestablish: tear down under the subscribers, then subscribe each again *)
(* in turn.  The registry is not told of the teardown.                     *)
Reload(k) ==
    /\ entry[k] # NoTable
    /\ reload[k] = Idle
    /\ \A op \in Pending(k) : op.by # "reload"
    /\ reloads < MaxReloads
    /\ reloads' = reloads + 1
    /\ reload' = [reload EXCEPT ![k] = [waiting |-> entry[k], left |-> subs[k]]]
    /\ Teardown(k)
    /\ UNCHANGED <<registry, ops, clients>>

MayResubscribe(s, k) ==
    /\ reload[k].waiting = NoTable
    /\ s \in reload[k].left
    /\ \A op \in Pending(k) : op.by # "reload"
    /\ reload' = [reload EXCEPT ![k].left = @ \ {s}]
    /\ UNCHANGED reloads

ResubscribeTab(s, k) ==
    /\ MayResubscribe(s, k)
    /\ StartSubscribe(s, k, "reload")

(* Meanwhile the registry entry has gone and its bytes are taken.          *)
ResubscribeRefused(s, k) ==
    /\ MayResubscribe(s, k)
    /\ k \notin cached
    /\ ~Fits(k)
    /\ Refuse(s, k)
    /\ UNCHANGED <<registry, hub, ops>>

-----------------------------------------------------------------------------
EngineAnswers(op) == TableCreated(op) \/ TableWatched(op) \/ EngineFails(op)

HubNext ==
    \/ \E s \in Sessions, k \in Keys :
           \/ Subscribe(s, k)
           \/ Unsubscribe(s, k)
           \/ DropSlow(s, k)
           \/ ResubscribeTab(s, k)
           \/ ResubscribeRefused(s, k)
    \/ \E s \in Sessions : ReleaseSession(s) \/ SidecarClose(s) \/ SocketCloses(s)
    \/ \E op \in ops : EngineAnswers(op)
    \/ \E k \in Keys : TimerFires(k) \/ Reload(k)
    \/ \E t \in dying : TeardownDone(t)

HubSpec == HubInit /\ [][HubNext]_hubVars

(* The engine answers, timers fire, and reestablish goes on when what it   *)
(* awaits has come back.  Nothing is assumed of the clients.               *)
HubFairSpec ==
    /\ HubSpec
    /\ \A s \in Sessions, k \in Keys :
           WF_hubVars(\E op \in Pending(k) : op.session = s /\ EngineAnswers(op))
    /\ WF_hubVars(\E t \in dying : TeardownDone(t))
    /\ \A k \in Keys :
           /\ WF_hubVars(TimerFires(k))
           /\ WF_hubVars(\E s \in Sessions : ResubscribeTab(s, k) \/ ResubscribeRefused(s, k))

-----------------------------------------------------------------------------
HubTypeOK ==
    /\ cached \subseteq Keys
    /\ refs \in [Keys -> Nat]
    /\ held \in [Keys -> BOOLEAN]
    /\ timers \in [Keys -> 0..MaxTimers]
    /\ overdrawn \subseteq Keys
    /\ entry \in [Keys -> {NoTable} \cup Tables]
    /\ subs \in [Keys -> SUBSET Sessions]
    /\ upstream \subseteq Tables
    /\ dying \subseteq Tables
    /\ made \in 0..MaxTables
    /\ ops \subseteq Op
    /\ listed \in [Sessions -> SUBSET Keys]
    /\ open \in [Sessions -> SUBSET Keys]
    /\ stopped \in [Sessions -> SUBSET Keys]
    /\ gone \subseteq Sessions
    /\ closing \subseteq gone
    /\ reload \in [Keys -> [waiting : {NoTable} \cup Tables, left : SUBSET Sessions]]
    /\ reloads \in 0..MaxReloads

(* "The refcount in the registry is the mechanism": every subscriber of a  *)
(* table and every subscribe in flight is covered by a reference, through  *)
(* failures, slow drops, disconnects and reloads.  Only a key that was     *)
(* released by a session that did not hold it may fall short.              *)
RefsCoverHolders ==
    \A k \in Keys \ overdrawn : Cardinality(subs[k]) + Cardinality(Pending(k)) <= refs[k]

(* A table in the hub is one the registry knows, so its bytes count        *)
(* against the ceiling and its last release can tear it down, unless the   *)
(* key was released by a session that did not hold it; and all the tables  *)
(* the registry knows are admitted under the ceiling together.             *)
TablesAreAccounted ==
    /\ \A k \in Keys \ overdrawn : entry[k] # NoTable => k \in cached
    /\ UsedBytes <= Ceiling

(* The idle timer takes a table from a session that is subscribed to it or *)
(* is about to be only when the key was released by a session that did not *)
(* hold it: an unsubscribe that was sent again, that overtook its own      *)
(* subscribe or that was never owed, or a sidecar's close of the key with  *)
(* params.  There is no fifth way, whatever drops, reloads or disconnects. *)
LastLeaveCloses ==
    [][\A k \in Keys :
         (k \in cached /\ k \notin cached' /\ k \notin overdrawn)
             => (subs[k] = {} /\ Pending(k) = {})]_hubVars

(* "The upstream connection is torn down only when the LAST subscriber     *)
(* leaves", said of every key.                                             *)
OnlyTheLastLeaveCloses ==
    [][\A k \in Keys :
         (k \in cached /\ k \notin cached') => (subs[k] = {} /\ Pending(k) = {})]_hubVars

(* "two tabs asking for the same (datasourceId, params) get ONE upstream   *)
(* subscription and ONE table between them".                               *)
OneUpstreamPerKey ==
    \A t \in upstream : \E k \in Keys : entry[k] = t

(* "a config edit must not silently drop a trader's blotter": whoever was  *)
(* subscribed when a reload began is subscribed again, or is told that it  *)
(* is not, or has left.                                                    *)
ReloadKeepsSubscribers ==
    \A s \in Sessions, k \in Keys :
        (s \in reload[k].left) ~> (s \in subs[k] \/ k \notin open[s])

(* A table that nobody references is closed unless somebody comes back.    *)
IdleTableCloses ==
    \A k \in Keys \ Prewarm :
        (k \in cached /\ refs[k] = 0) ~> (entry[k] = NoTable \/ refs[k] > 0)
=============================================================================
