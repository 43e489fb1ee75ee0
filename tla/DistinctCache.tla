---------------------------- MODULE DistinctCache ---------------------------
(* hubDataService.mjs: the values a set filter offers, cached by column and *)
(* context for a while, with one load at a time for each key; a change of   *)
(* filter invalidates what is cached for every other column.                *)
EXTENDS Naturals, FiniteSets

CONSTANTS
    FilterColumns,
    Contexts,      \* filter contexts; the key is column and context
    SearchSelect,  \* columns with too many values for a set filter
    Ttl,           \* DistinctCache.ttlMs
    MaxTime,       \* bound: the clock
    MaxFilters     \* bound: changes of filter

ASSUME CacheAssumption ==
    Ttl \in Nat /\ MaxTime \in Nat /\ MaxFilters \in Nat /\ SearchSelect \subseteq FilterColumns

VARIABLES
    now,           \* the clock
    filters,       \* changes of filter so far
    entries,       \* DistinctCache.entries: key to its answer
    inflight,      \* DistinctCache.inflight: key to its load
    cleansed,      \* when each key was last invalidated (ghost)
    served         \* the last values a filter got (ghost)

cacheVars == <<now, filters, entries, inflight, cleansed, served>>

CacheKeys == FilterColumns \X Contexts
NoEntry == [at |-> MaxTime + 1]
NoLoad == [begun |-> MaxTime + 1]
Nothing == [at |-> MaxTime + 1]
Unread == MaxTime + 1
Times == 0 .. MaxTime

CacheTypeOK ==
    /\ now \in Times /\ filters \in 0 .. MaxFilters
    /\ entries \in [CacheKeys -> [at : Times, read : Times, begun : Times] \cup {NoEntry}]
    /\ inflight \in [CacheKeys -> [begun : Times, read : Times \cup {Unread}] \cup {NoLoad}]
    /\ cleansed \in [CacheKeys -> Times]

CacheInit ==
    /\ now = 0 /\ filters = 0
    /\ entries = [k \in CacheKeys |-> NoEntry]
    /\ inflight = [k \in CacheKeys |-> NoLoad]
    /\ cleansed = [k \in CacheKeys |-> 0]
    /\ served = Nothing

TimePasses ==
    /\ now < MaxTime
    /\ now' = now + 1
    /\ UNCHANGED <<filters, entries, inflight, cleansed, served>>

Fresh(k) == entries[k] # NoEntry /\ now - entries[k].at < Ttl

(* get finds a fresh answer.                                                *)
Hits(k) ==
    /\ k[1] \notin SearchSelect /\ Fresh(k)
    /\ served' = [key |-> k, since |-> cleansed[k], at |-> now,
                  read |-> entries[k].read, begun |-> entries[k].begun, from |-> entries[k].at]
    /\ UNCHANGED <<now, filters, entries, inflight, cleansed>>

(* get begins a load; with one under way it waits for that.                 *)
StartsLoad(k) ==
    /\ k[1] \notin SearchSelect /\ ~Fresh(k) /\ inflight[k] = NoLoad
    /\ inflight' = [inflight EXCEPT ![k] = [begun |-> now, read |-> Unread]]
    /\ UNCHANGED <<now, filters, entries, cleansed, served>>

(* The hub reads the column's values.                                       *)
HubAnswers(k) ==
    /\ inflight[k] # NoLoad /\ inflight[k].read = Unread
    /\ inflight' = [inflight EXCEPT ![k].read = now]
    /\ UNCHANGED <<now, filters, entries, cleansed, served>>

Loaded(k) ==
    /\ inflight[k] # NoLoad /\ inflight[k].read # Unread
    /\ entries' = [entries EXCEPT ![k] = [at |-> now, read |-> inflight[k].read,
                                          begun |-> inflight[k].begun]]
    /\ served' = [key |-> k, since |-> cleansed[k], at |-> now, read |-> inflight[k].read,
                  begun |-> inflight[k].begun, from |-> now]
    /\ inflight' = [inflight EXCEPT ![k] = NoLoad]
    /\ UNCHANGED <<now, filters, cleansed>>

LoadRejected(k) ==
    /\ inflight[k] # NoLoad
    /\ inflight' = [inflight EXCEPT ![k] = NoLoad]
    /\ UNCHANGED <<now, filters, entries, cleansed, served>>

(* Mutant of FilterChanged: the column's own values go, the others stay.    *)
FilterChangedOwnColumn(col) ==
    /\ filters < MaxFilters
    /\ filters' = filters + 1
    /\ entries' = [k \in CacheKeys |-> IF k[1] = col THEN NoEntry ELSE entries[k]]
    /\ cleansed' = [k \in CacheKeys |-> IF k[1] = col THEN cleansed[k] ELSE now]
    /\ UNCHANGED <<now, inflight, served>>

(* onFilterChanged: invalidateExcept.  Loads under way are not told.             *)
FilterChanged(col) ==
    /\ filters < MaxFilters
    /\ filters' = filters + 1
    /\ entries' = [k \in CacheKeys |-> IF k[1] = col THEN entries[k] ELSE NoEntry]
    /\ cleansed' = [k \in CacheKeys |-> IF k[1] = col THEN cleansed[k] ELSE now]
    /\ UNCHANGED <<now, inflight, served>>

CacheNext ==
    \/ TimePasses
    \/ \E k \in CacheKeys : Hits(k) \/ StartsLoad(k) \/ HubAnswers(k) \/ Loaded(k) \/ LoadRejected(k)
    \/ \E col \in FilterColumns : FilterChanged(col)

CacheSpec == CacheInit /\ [][CacheNext]_cacheVars

-----------------------------------------------------------------------------
(* Properties.                                                              *)

(* The values a filter is given were read no longer ago than the time to    *)
(* live and their way back, and they arrived after the last invalidation of *)
(* their column: stale values outlive one only when their load overlapped   *)
(* it, and then at most for the time to live.                               *)
ServedValuesAreRecent ==
    served # Nothing =>
        /\ served.at = served.from \/ served.at - served.from < Ttl
        /\ served.from >= served.since
        /\ served.begun <= served.read /\ served.read <= served.from
=============================================================================
