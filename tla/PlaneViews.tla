----------------------------- MODULE PlaneViews -----------------------------
(* SsrmWasmPlane.ts: one Rust engine, compiled to wasm, behind the grids of *)
(* a worker.  Engine calls are synchronous, but every request awaits the    *)
(* engine's start and its subscription first, so a session may be detached  *)
(* between the call and the work; and the engine creates the session a      *)
(* control message names when it does not know it (on_control).             *)
EXTENDS Naturals, Sequences, FiniteSets, SequencesExt, Filtering

CONSTANTS
    PlaneSessions,  \* grids; an id is attached once
    Specs,          \* view signatures
    WatchIds,          \* ids of watched predicates
    BlockCap,       \* MAX_BLOCK_VIEWS_PER_SESSION
    PollCap,        \* MAX_POLL_VIEWS_PER_SESSION
    MaxCalls,       \* bound: requests under way at once
    MaxOpened,      \* bound: views opened
    MaxPushes       \* bound: group deltas of one session

ASSUME PlaneAssumption ==
    /\ BlockCap \in Nat \ {0} /\ PollCap \in Nat \ {0}
    /\ MaxOpened \in Nat /\ MaxPushes \in Nat

VARIABLES
    life,           \* each session: "new", "attached", "detached"
    calls,          \* requests between their awaits
    subscribed,     \* SsrmWasmPlane.subscribed, and sessionProvider's keys
    held,           \* views, least recently used first
    watchViews,     \* watched predicates
    engine,         \* the engine's session, its open views and its outbox
    opened,         \* the engine's view counter
    pushes,         \* pendingPushes, by session as pollAllTicks groups them
    heard,          \* group deltas the session's grid was given
    revived         \* sessions a late request brought back (ghost)

planeVars == <<life, calls, subscribed, held, watchViews, engine, opened, pushes,
               heard, revived>>

Kinds == {"block", "poll"}
Calls == [session : PlaneSessions, op : Kinds, spec : Specs, ready : BOOLEAN]
         \cup [session : PlaneSessions, op : {"watch"}, rule : WatchIds, ready : BOOLEAN]
         \cup [session : PlaneSessions, op : {"groups", "aggregates"}, ready : BOOLEAN]
EngineViews == 1 .. MaxOpened
HeldView == [session : PlaneSessions, spec : Specs, view : EngineViews, kind : Kinds]
WatchView == [session : PlaneSessions, rule : WatchIds, view : EngineViews]

PlaneTypeOK ==
    /\ life \in [PlaneSessions -> {"new", "attached", "detached"}]
    /\ calls \subseteq Calls
    /\ subscribed \subseteq PlaneSessions
    /\ held \in Seq(HeldView)
    /\ watchViews \subseteq WatchView
    /\ \A s \in PlaneSessions : /\ engine[s].known \in BOOLEAN
                                /\ engine[s].views \subseteq EngineViews
                                /\ engine[s].said \in 0 .. MaxPushes
                                /\ engine[s].outbox \in Seq(1 .. MaxPushes)
    /\ opened \in 0 .. MaxOpened
    /\ \A s \in PlaneSessions : {pushes[s], heard[s]} \subseteq Seq(1 .. MaxPushes)
    /\ revived \subseteq PlaneSessions

Unknown == [known |-> FALSE, views |-> {}, said |-> 0, outbox |-> <<>>]

PlaneInit ==
    /\ life = [s \in PlaneSessions |-> "new"]
    /\ calls = {}
    /\ subscribed = {}
    /\ held = <<>>
    /\ watchViews = {}
    /\ engine = [s \in PlaneSessions |-> Unknown]
    /\ opened = 0
    /\ pushes = [s \in PlaneSessions |-> <<>>]
    /\ heard = [s \in PlaneSessions |-> <<>>]
    /\ revived = {}

-----------------------------------------------------------------------------
(* The engine.                                                              *)

(* on_control: the session is known afterwards, its outbox rides along with *)
(* the reply, and the plane keeps what it finds there for the next tick.    *)
Controlled(s, views) ==
    /\ engine' = [engine EXCEPT ![s] = [engine[s] EXCEPT !.known = TRUE, !.views = views, !.outbox = <<>>]]
    /\ pushes' = [pushes EXCEPT ![s] = pushes[s] \o engine[s].outbox]
    /\ revived' = revived \cup (IF life[s] = "detached" THEN {s} ELSE {})

(* A watched group moves; a watch has said what it began with.              *)
GroupsMove(s) ==
    /\ engine[s].said \in 1 .. MaxPushes - 1
    /\ LET n == engine[s].said + 1
       IN  engine' = [engine EXCEPT ![s] = [engine[s] EXCEPT !.said = n, !.outbox = Append(engine[s].outbox, n)]]
    /\ UNCHANGED <<life, calls, subscribed, held, watchViews, opened, pushes, heard,
                   revived>>

-----------------------------------------------------------------------------
(* Sessions.                                                                *)

HeldBy(s) == {held[i].view : i \in {j \in DOMAIN held : held[j].session = s}}
WatchedBy(s) == {w.view : w \in {x \in watchViews : x.session = s}}

AttachSession(s) ==
    /\ life[s] = "new"
    /\ life' = [life EXCEPT ![s] = "attached"]
    /\ engine' = [engine EXCEPT ![s] = [engine[s] EXCEPT !.known = TRUE]]
    /\ UNCHANGED <<calls, subscribed, held, watchViews, opened, pushes, heard, revived>>

(* Mutant of DetachSession: the engine forgets the session first.           *)
DetachSessionThenDispose(s) ==
    /\ life[s] = "attached"
    /\ life' = [life EXCEPT ![s] = "detached"]
    /\ subscribed' = subscribed \ {s}
    /\ held' = KeepIn(held, {h \in HeldView : h.session # s})
    /\ watchViews' = {w \in watchViews : w.session # s}
    /\ engine' = [engine EXCEPT ![s] = [Unknown EXCEPT !.known = HeldBy(s) # {}]]
    /\ pushes' = IF engine[s].views = {} THEN pushes
                 ELSE [pushes EXCEPT ![s] = pushes[s] \o engine[s].outbox]
    /\ UNCHANGED <<calls, opened, heard, revived>>

(* The views are disposed before the engine forgets the session: the other  *)
(* way round the disposal would bring it back.  What its outbox held rides  *)
(* along with the replies.                                                  *)
DetachSession(s) ==
    /\ life[s] = "attached"
    /\ life' = [life EXCEPT ![s] = "detached"]
    /\ subscribed' = subscribed \ {s}
    /\ held' = KeepIn(held, {h \in HeldView : h.session # s})
    /\ watchViews' = {w \in watchViews : w.session # s}
    /\ engine' = [engine EXCEPT ![s] = Unknown]
    /\ pushes' = IF engine[s].views = {} THEN pushes
                 ELSE [pushes EXCEPT ![s] = pushes[s] \o engine[s].outbox]
    /\ UNCHANGED <<calls, opened, heard, revived>>

(* A re-boot of the provider: its views and watches are dropped first.      *)
Boot ==
    /\ held # <<>> \/ watchViews # {}
    /\ held' = <<>>
    /\ watchViews' = {}
    /\ engine' = [s \in PlaneSessions |->
                    IF engine[s].views = {} THEN engine[s]
                    ELSE [engine[s] EXCEPT !.views = {}, !.outbox = <<>>]]
    /\ pushes' = [s \in PlaneSessions |->
                    IF engine[s].views = {} THEN pushes[s] ELSE pushes[s] \o engine[s].outbox]
    /\ UNCHANGED <<life, calls, subscribed, opened, heard, revived>>

-----------------------------------------------------------------------------
(* Requests: getRows and warmRootView ("block"), getRowCount and            *)
(* getColumnValues ("poll"), watchPredicate ("watch"), watchGroups          *)
(* ("groups"), getAggregates.                                               *)

Request(s) ==
    /\ life[s] = "attached"
    /\ \E c \in Calls : c.session = s /\ ~c.ready /\ calls' = calls \cup {c}
    /\ Cardinality(calls) < MaxCalls
    /\ UNCHANGED <<life, subscribed, held, watchViews, engine, opened, pushes, heard,
                   revived>>

(* After host.ensure: ensureSubscribed.                                     *)
EnsureSubscribed(c) ==
    /\ c \in calls /\ ~c.ready
    /\ calls' = (calls \ {c}) \cup {[c EXCEPT !.ready = TRUE]}
    /\ IF c.session \in subscribed
       THEN UNCHANGED <<subscribed, engine, pushes, revived>>
       ELSE /\ subscribed' = subscribed \cup {c.session}
            /\ Controlled(c.session, engine[c.session].views)
    /\ UNCHANGED <<life, held, watchViews, opened, heard>>

Of(s, kind) == {i \in DOMAIN held : held[i].session = s /\ held[i].kind = kind}
At(c) == {i \in DOMAIN held : held[i].session = c.session /\ held[i].spec = c.spec}
Cap(kind) == IF kind = "block" THEN BlockCap ELSE PollCap

(* A read of a view that is held: most recently used, and a block read      *)
(* takes a polled view over.                                                *)
ReadHeld(c) ==
    /\ c \in calls /\ c.ready /\ c.op \in Kinds
    /\ \E i \in At(c) :
        LET kind == IF c.op = "block" THEN "block" ELSE held[i].kind IN
        /\ held' = Append(RemoveAt(held, i), [held[i] EXCEPT !.kind = kind])
    /\ Controlled(c.session, engine[c.session].views)
    /\ calls' = calls \ {c}
    /\ UNCHANGED <<life, subscribed, watchViews, opened, heard>>

(* A read of a new view: open it, then evict the least recently used of its *)
(* kind down to the cap.                                                    *)
ReadOpens(c) ==
    /\ c \in calls /\ c.ready /\ c.op \in Kinds
    /\ At(c) = {} /\ opened < MaxOpened
    /\ opened' = opened + 1
    /\ LET s     == c.session
           mine  == Of(s, c.op)
           extra == IF Cardinality(mine) + 1 > Cap(c.op) THEN Cardinality(mine) + 1 - Cap(c.op) ELSE 0
           out   == {i \in mine : Cardinality({j \in mine : j < i}) < extra}
           gone  == {held[i].view : i \in out}
       IN  /\ held' = Append(KeepIn(held, {h \in HeldView : h.view \notin gone}),
                             [session |-> s, spec |-> c.spec, view |-> opened + 1, kind |-> c.op])
           /\ Controlled(s, (engine[s].views \ gone) \cup {opened + 1})
    /\ calls' = calls \ {c}
    /\ UNCHANGED <<life, subscribed, watchViews, heard>>

(* watchPredicate replaces the session's watch of the same rule.            *)
Watch(c) ==
    /\ c \in calls /\ c.ready /\ c.op = "watch"
    /\ opened < MaxOpened
    /\ opened' = opened + 1
    /\ LET s   == c.session
           old == {w \in watchViews : w.session = s /\ w.rule = c.rule}
       IN  /\ watchViews' = (watchViews \ old)
                            \cup {[session |-> s, rule |-> c.rule, view |-> opened + 1]}
           /\ Controlled(s, (engine[s].views \ {w.view : w \in old}) \cup {opened + 1})
    /\ calls' = calls \ {c}
    /\ UNCHANGED <<life, subscribed, held, heard>>

Unwatch(s, rule) ==
    /\ \E w \in watchViews :
        /\ w.session = s /\ w.rule = rule
        /\ watchViews' = watchViews \ {w}
        /\ Controlled(s, engine[s].views \ {w.view})
    /\ UNCHANGED <<life, calls, subscribed, held, opened, heard>>

(* The tree as it stands is the watch's first push, and rides along with    *)
(* the reply.                                                               *)
PlaneWatchGroups(c) ==
    /\ c \in calls /\ c.ready /\ c.op = "groups"
    /\ LET s == c.session
           n == engine[s].said + 1
       IN  /\ n <= MaxPushes
           /\ engine' = [engine EXCEPT ![s] = [engine[s] EXCEPT !.known = TRUE, !.said = n, !.outbox = <<>>]]
           /\ pushes' = [pushes EXCEPT ![s] = Append(pushes[s] \o engine[s].outbox, n)]
           /\ revived' = revived \cup (IF life[s] = "detached" THEN {s} ELSE {})
    /\ calls' = calls \ {c}
    /\ UNCHANGED <<life, subscribed, held, watchViews, opened, heard>>

GetAggregates(c) ==
    /\ c \in calls /\ c.ready /\ c.op = "aggregates"
    /\ Controlled(c.session, engine[c.session].views)
    /\ calls' = calls \ {c}
    /\ UNCHANGED <<life, subscribed, held, watchViews, opened, heard>>

(* Mutant of PollAllTicks: the tick before what rode along with replies.    *)
PollAllTicksEngineFirst ==
    /\ \E s \in PlaneSessions : pushes[s] \o engine[s].outbox # <<>>
    /\ heard' = [s \in PlaneSessions |->
                   IF s \notin subscribed THEN heard[s]
                   ELSE heard[s] \o engine[s].outbox \o pushes[s]]
    /\ pushes' = [s \in PlaneSessions |-> <<>>]
    /\ engine' = [s \in PlaneSessions |-> [engine[s] EXCEPT !.outbox = <<>>]]
    /\ UNCHANGED <<life, calls, subscribed, held, watchViews, opened, revived>>

(* pollAllTicks: what rode along with replies first, then the engine's      *)
(* tick, for the sessions the plane knows.                                  *)
PollAllTicks ==
    /\ \E s \in PlaneSessions : pushes[s] \o engine[s].outbox # <<>>
    /\ heard' = [s \in PlaneSessions |->
                   IF s \notin subscribed THEN heard[s]
                   ELSE heard[s] \o pushes[s] \o engine[s].outbox]
    /\ pushes' = [s \in PlaneSessions |-> <<>>]
    /\ engine' = [s \in PlaneSessions |-> [engine[s] EXCEPT !.outbox = <<>>]]
    /\ UNCHANGED <<life, calls, subscribed, held, watchViews, opened, revived>>

PlaneNext ==
    \/ \E s \in PlaneSessions :
         \/ AttachSession(s) \/ DetachSession(s) \/ Request(s) \/ GroupsMove(s)
         \/ \E rule \in WatchIds : Unwatch(s, rule)
    \/ \E c \in calls : \/ EnsureSubscribed(c) \/ ReadHeld(c) \/ ReadOpens(c) \/ Watch(c)
                       \/ PlaneWatchGroups(c) \/ GetAggregates(c)
    \/ Boot
    \/ PollAllTicks

PlaneSpec == PlaneInit /\ [][PlaneNext]_planeVars

-----------------------------------------------------------------------------
(* Properties.                                                              *)

(* The engine keeps up, on every tick, exactly the views the plane can      *)
(* still dispose - the cached ones and the watched predicates - and knows   *)
(* only attached sessions; the exception is a session that a request        *)
(* brought back when it went on after the detach.                           *)
EngineViewsAreHeld ==
    \A s \in PlaneSessions :
        /\ engine[s].views = HeldBy(s) \cup WatchedBy(s)
        /\ engine[s].known => life[s] = "attached" \/ s \in revived

(* A grid gets each of its group deltas once and in the engine's order,     *)
(* whether it came with a reply or with a tick.                             *)
PushesComeInOrder ==
    \A s \in PlaneSessions : life[s] = "attached" =>
        heard[s] = [i \in 1 .. Len(heard[s]) |-> i]
=============================================================================
