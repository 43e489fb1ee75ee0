------------------------------ MODULE TabViews ------------------------------
(* The views one SSRM grid keeps open in the worker: SsrmMode.getRows and   *)
(* its ViewCache (modes/ssrm.mjs) on the tab's side, Hub.openView,          *)
(* readWindow, disposeView and disposeSessionViews on the worker's.  A view *)
(* holds engine memory until someone disposes it, and the tab is the only   *)
(* one who knows its handle; every call in between awaits a reply that may  *)
(* come late or not at all (ControlClient.request).                         *)
EXTENDS Naturals, Sequences, FiniteSets, SequencesExt

CONSTANTS
    Loads,        \* block loads the grid may have in flight
    Signatures,      \* request signatures (requestSignature)
    CacheMax,     \* maxViews
    MaxViews,     \* bound: views ever asked for
    MaxUpsets     \* bound: clears begun and connections lost, together

ASSUME TabViewsAssumption ==
    /\ IsFiniteSet(Loads) /\ Signatures # {}
    /\ CacheMax \in Nat \ {0} /\ MaxViews \in Nat /\ MaxUpsets \in Nat

VARIABLES
    load,         \* each load: where it is, for which query, with which view
    cache,        \* ViewCache.map, oldest first; `seen` by a running clear
    pins,         \* ViewCache.inUse
    condemned,    \* ViewCache.condemned
    clearing,     \* the running clear: walking the map, or waiting on a disposal
    cleared,      \* how many clears have begun
    view,         \* each view in the worker, and the session it belongs to
    session,      \* number of the tab's connection
    disposals,    \* disposeView requests the worker has not handled
    lost,         \* why a handle was dropped while its view lived (ghost)
    wiped         \* views disposed on account of a clear (ghost)

tabViewsVars == <<load, cache, pins, condemned, clearing, cleared, view, session,
                  disposals, lost, wiped>>

ViewIds == 1 .. MaxViews
Sessions == 0 .. MaxUpsets
NoView == 0
LoadAt == {"idle", "opening", "evicting", "reading", "unpinning"}
Causes == {"no", "late", "twin", "orphan"}

Load == [at : LoadAt, query : Signatures, view : ViewIds \cup {NoView},
         victim : ViewIds \cup {NoView}, session : Sessions]
CacheEntry == [query : Signatures, view : ViewIds, seen : BOOLEAN]
View == [at : {"unused", "asked", "open", "closed"}, session : Sessions]

TabViewsTypeOK ==
    /\ load \in [Loads -> Load]
    /\ cache \in Seq(CacheEntry)
    /\ pins \in [ViewIds -> Nat]
    /\ condemned \subseteq ViewIds
    /\ clearing \in [at : {"no", "walking", "waiting"}, victim : ViewIds \cup {NoView}]
    /\ cleared \in 0 .. MaxUpsets
    /\ view \in [ViewIds -> View]
    /\ session \in Sessions
    /\ disposals \subseteq ViewIds
    /\ lost \in [ViewIds -> Causes]
    /\ wiped \subseteq ViewIds

Idle == [at |-> "idle", query |-> CHOOSE q \in Signatures : TRUE, view |-> NoView,
         victim |-> NoView, session |-> 0]

TabViewsInit ==
    /\ load = [l \in Loads |-> Idle]
    /\ cache = <<>>
    /\ pins = [v \in ViewIds |-> 0]
    /\ condemned = {}
    /\ clearing = [at |-> "no", victim |-> NoView]
    /\ cleared = 0
    /\ view = [v \in ViewIds |-> [at |-> "unused", session |-> 0]]
    /\ session = 0
    /\ disposals = {}
    /\ lost = [v \in ViewIds |-> "no"]
    /\ wiped = {}

-----------------------------------------------------------------------------
(* The cache.                                                               *)

Held(q) == {i \in DOMAIN cache : cache[i].query = q}
IndexOfHeld(q) == CHOOSE i \in Held(q) : TRUE
Without(q) == IF Held(q) = {} THEN cache ELSE RemoveAt(cache, IndexOfHeld(q))
Entry(q, v) == [query |-> q, view |-> v, seen |-> FALSE]
Cached(v) == \E i \in DOMAIN cache : cache[i].view = v
Dispose(v) == disposals' = disposals \cup {v}

(* Mutant of Victims: views that are being read from are not spared.        *)
VictimsPinned(entries, q, uses) ==
    LET others == {i \in DOMAIN entries : entries[i].query # q}
    IN  {i \in others : \A j \in others : i <= j}

(* The entry ViewCache.set evicts: the oldest that is neither the one just  *)
(* inserted nor being read from.                                            *)
Victims(entries, q, uses) ==
    LET free == {i \in DOMAIN entries : entries[i].query # q /\ uses[entries[i].view] = 0}
    IN  {i \in free : \A j \in free : i <= j}

(* The rest of ViewCache.set once `entries` holds the new view: dispose one *)
(* victim and wait for it, or, when the cache fits or all are pinned, read. *)
EvictOrRead(l, q, v, entries, uses) ==
    LET out == IF Len(entries) > CacheMax THEN Victims(entries, q, uses) ELSE {}
    IN  IF out = {}
        THEN /\ cache' = entries
             /\ load' = [load EXCEPT ![l] = [at |-> "reading", query |-> q, view |-> v,
                                             victim |-> NoView, session |-> session]]
             /\ UNCHANGED disposals
        ELSE \E i \in out :
                /\ cache' = RemoveAt(entries, i)
                /\ load' = [load EXCEPT ![l] = [at |-> "evicting", query |-> q, view |-> v,
                                                victim |-> entries[i].view, session |-> session]]
                /\ Dispose(entries[i].view)

-----------------------------------------------------------------------------
(* A block load: SsrmMode.getRows.                                          *)

Hit(l, q) ==
    /\ load[l].at = "idle"
    /\ Held(q) # {}
    /\ LET v == cache[IndexOfHeld(q)].view IN
        /\ cache' = Append(Without(q), Entry(q, v))
        /\ pins' = [pins EXCEPT ![v] = @ + 1]
        /\ load' = [load EXCEPT ![l] = [at |-> "reading", query |-> q, view |-> v,
                                        victim |-> NoView, session |-> session]]
    /\ UNCHANGED <<condemned, clearing, cleared, view, session, disposals, lost, wiped>>

Miss(l, q) ==
    /\ load[l].at = "idle"
    /\ Held(q) = {}
    /\ \E v \in ViewIds :
        /\ view[v].at = "unused" /\ \A w \in 1 .. (v - 1) : view[w].at # "unused"
        /\ view' = [view EXCEPT ![v] = [at |-> "asked", session |-> session]]
        /\ load' = [load EXCEPT ![l] = [at |-> "opening", query |-> q, view |-> v,
                                        victim |-> NoView, session |-> session]]
    /\ UNCHANGED <<cache, pins, condemned, clearing, cleared, session, disposals, lost, wiped>>

(* The reply to openView: pin, then insert.  Another load of the same query *)
(* may have inserted meanwhile; Map.set replaces its entry and nobody       *)
(* disposes the view that was there.                                        *)
Opened(l) ==
    LET q == load[l].query
        v == load[l].view
        uses == [pins EXCEPT ![v] = @ + 1]
    IN  /\ load[l].at = "opening" /\ load[l].session = session
        /\ view[v].at = "open"
        /\ pins' = uses
        /\ EvictOrRead(l, q, v, Append(Without(q), Entry(q, v)), uses)
        /\ lost' = [w \in ViewIds |->
                      IF \E i \in Held(q) : cache[i].view = w THEN "twin" ELSE lost[w]]
        /\ UNCHANGED <<condemned, clearing, cleared, view, session, wiped>>

(* The hub answers openView with an error: nothing was pinned.              *)
OpenFailed(l) ==
    /\ load[l].at = "opening" /\ load[l].session = session
    /\ view[load[l].view].at = "closed"
    /\ load' = [load EXCEPT ![l] = Idle]
    /\ UNCHANGED <<cache, pins, condemned, clearing, cleared, view, session, disposals, lost, wiped>>

(* The reply to the eviction's disposeView: on with the loop.               *)
Evicted(l) ==
    /\ load[l].at = "evicting" /\ load[l].session = session
    /\ load[l].victim \notin disposals
    /\ EvictOrRead(l, load[l].query, load[l].view, cache, pins)
    /\ UNCHANGED <<pins, condemned, clearing, cleared, view, session, lost, wiped>>

(* Mutant of Unpin: a condemned view is forgotten, not disposed.            *)
UnpinUndisposed(l) ==
    /\ pins' = [pins EXCEPT ![load[l].view] = @ - 1]
    /\ condemned' = condemned \ {load[l].view}
    /\ load' = [load EXCEPT ![l] = Idle]
    /\ UNCHANGED <<disposals, wiped>>

(* ViewCache.unpin: the last reader disposes what a clear condemned.        *)
Unpin(l) ==
    LET v == load[l].view IN
    /\ pins' = [pins EXCEPT ![v] = @ - 1]
    /\ IF pins[v] = 1 /\ v \in condemned
       THEN /\ condemned' = condemned \ {v}
            /\ Dispose(v)
            /\ wiped' = wiped \cup {v}
            /\ load' = [load EXCEPT ![l] = [at |-> "unpinning", query |-> load[l].query,
                                            view |-> v, victim |-> v, session |-> session]]
       ELSE /\ load' = [load EXCEPT ![l] = Idle]
            /\ UNCHANGED <<condemned, disposals, wiped>>

(* The reply to readWindow, with rows or with an error: both end in         *)
(* getRows' finally.                                                        *)
ReadReply(l) ==
    /\ load[l].at = "reading" /\ load[l].session = session
    /\ Unpin(l)
    /\ UNCHANGED <<cache, clearing, cleared, view, session, lost>>

Unpinned(l) ==
    /\ load[l].at = "unpinning" /\ load[l].session = session
    /\ load[l].victim \notin disposals
    /\ load' = [load EXCEPT ![l] = Idle]
    /\ UNCHANGED <<cache, pins, condemned, clearing, cleared, view, session, disposals, lost, wiped>>

(* A request times out.  The open's late reply finds no one waiting; a      *)
(* failed eviction leaves the load before `pinned = handle`, so its pin     *)
(* stays.                                                                   *)
LoadTimeout(l) ==
    /\ \/ /\ load[l].at = "opening"
          /\ load' = [load EXCEPT ![l] = Idle]
          /\ lost' = [lost EXCEPT ![load[l].view] = IF @ = "no" THEN "late" ELSE @]
          /\ UNCHANGED <<pins, condemned, disposals, wiped>>
       \/ /\ load[l].at = "reading"
          /\ Unpin(l)
          /\ UNCHANGED lost
       \/ /\ load[l].at \in {"evicting", "unpinning"}
          /\ load' = [load EXCEPT ![l] = Idle]
          /\ UNCHANGED <<pins, condemned, disposals, lost, wiped>>
    /\ UNCHANGED <<cache, clearing, cleared, view, session>>

-----------------------------------------------------------------------------
(* ViewCache.clear, called by the datasource's destroy: it walks the live   *)
(* map, so entries inserted or touched while it waits are visited too.      *)

BeginClear ==
    /\ clearing.at = "no" /\ cleared + session < MaxUpsets
    /\ clearing' = [at |-> "walking", victim |-> NoView]
    /\ cleared' = cleared + 1
    /\ cache' = [i \in DOMAIN cache |-> [cache[i] EXCEPT !.seen = FALSE]]
    /\ UNCHANGED <<load, pins, condemned, view, session, disposals, lost, wiped>>

(* Up to the next entry that is not being read from, which it disposes and  *)
(* waits for; the readers' views it passes are condemned.  At the end of    *)
(* the map everything is forgotten at once.                                 *)
ClearWalks ==
    LET unseen == {i \in DOMAIN cache : ~cache[i].seen}
        next == {i \in unseen : pins[cache[i].view] = 0}
        stop == {i \in next : \A j \in next : i <= j}
        passed == {i \in unseen : \A j \in stop : i < j}
    IN  /\ clearing.at = "walking"
        /\ condemned' = condemned \cup {cache[i].view : i \in passed}
        /\ IF stop = {}
           THEN /\ cache' = <<>>
                /\ clearing' = [at |-> "no", victim |-> NoView]
                /\ UNCHANGED <<disposals, wiped>>
           ELSE \E i \in stop :
                  /\ cache' = [j \in DOMAIN cache |->
                                 [cache[j] EXCEPT !.seen = @ \/ j \in passed \cup stop]]
                  /\ clearing' = [at |-> "waiting", victim |-> cache[i].view]
                  /\ Dispose(cache[i].view)
                  /\ wiped' = wiped \cup {cache[i].view}
        /\ UNCHANGED <<load, pins, cleared, view, session, lost>>

ClearResumes ==
    /\ clearing.at = "waiting"
    /\ clearing.victim \notin disposals
    /\ clearing' = [at |-> "walking", victim |-> NoView]
    /\ UNCHANGED <<load, cache, pins, condemned, cleared, view, session, disposals, lost, wiped>>

(* The disposal times out: clear() throws before map.clear().               *)
ClearTimeout ==
    /\ clearing.at = "waiting"
    /\ clearing' = [at |-> "no", victim |-> NoView]
    /\ UNCHANGED <<load, cache, pins, condemned, cleared, view, session, disposals, lost, wiped>>

-----------------------------------------------------------------------------
(* The worker.                                                              *)

(* Hub.openView after its await: it registers the view with its session     *)
(* whether or not that session is still there.                              *)
HubOpens(v) ==
    /\ view[v].at = "asked"
    /\ view' = [view EXCEPT ![v].at = "open"]
    /\ lost' = [lost EXCEPT ![v] = IF view[v].session # session THEN "orphan" ELSE @]
    /\ UNCHANGED <<load, cache, pins, condemned, clearing, cleared, session, disposals, wiped>>

HubRefuses(v) ==
    /\ view[v].at = "asked"
    /\ view' = [view EXCEPT ![v].at = "closed"]
    /\ UNCHANGED <<load, cache, pins, condemned, clearing, cleared, session, disposals, lost, wiped>>

HubDisposes(v) ==
    /\ v \in disposals
    /\ disposals' = disposals \ {v}
    /\ view' = [view EXCEPT ![v].at = IF @ = "open" THEN "closed" ELSE @]
    /\ UNCHANGED <<load, cache, pins, condemned, clearing, cleared, session, lost, wiped>>

(* The connection drops: the hub disposes the session's views, requests in  *)
(* the dead port are gone, and the tab is back on a new session with the    *)
(* same cache.                                                              *)
Drop ==
    /\ cleared + session < MaxUpsets
    /\ session' = session + 1
    /\ view' = [v \in ViewIds |-> IF view[v].at = "open" /\ view[v].session = session
                                  THEN [view[v] EXCEPT !.at = "closed"] ELSE view[v]]
    /\ disposals' = {}
    /\ UNCHANGED <<load, cache, pins, condemned, clearing, cleared, lost, wiped>>

TabViewsNext ==
    \/ \E l \in Loads :
         \/ \E q \in Signatures : Hit(l, q) \/ Miss(l, q)
         \/ Opened(l) \/ OpenFailed(l) \/ Evicted(l)
         \/ ReadReply(l) \/ Unpinned(l) \/ LoadTimeout(l)
    \/ BeginClear \/ ClearWalks \/ ClearResumes \/ ClearTimeout
    \/ \E v \in ViewIds : HubOpens(v) \/ HubRefuses(v)
    \/ \E v \in disposals : HubDisposes(v)
    \/ Drop

TabViewsSpec == TabViewsInit /\ [][TabViewsNext]_tabViewsVars

-----------------------------------------------------------------------------
(* Properties.                                                              *)

Pinned(l) == load[l].at \in {"evicting", "reading"}

(* A view that is open in the worker can still be closed: its open is being *)
(* answered, the cache holds it, a disposal is on its way, or a reader will *)
(* dispose it when it is done.  The exceptions are the known ways to lose a *)
(* handle: an open answered after its timeout, two loads that open the same *)
(* query, and an open that ends after its session did.                      *)
ViewsAreAccounted ==
    \A v \in ViewIds : view[v].at = "open" =>
        \/ lost[v] # "no"
        \/ \E l \in Loads : load[l].at = "opening" /\ load[l].view = v
        \/ Cached(v)
        \/ v \in condemned /\ pins[v] > 0
        \/ v \in disposals

(* While a load reads a view nobody else disposes it: only a clear of the   *)
(* whole cache, or the loss of the session that opened it, takes it away.   *)
ReadersKeepTheirView ==
    \A l \in Loads :
        LET v == load[l].view IN
        Pinned(l) /\ view[v].session = session /\ v \notin wiped
        => view[v].at = "open" /\ v \notin disposals
=============================================================================
