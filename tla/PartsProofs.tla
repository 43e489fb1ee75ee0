----------------------------- MODULE PartsProofs -----------------------------
(* Proofs about the parts of a tab that keep a copy of what the hub has,    *)
(* and about the bundle store: the views a tab has opened, the cache of     *)
(* distinct values and the mirror of a table, and two stores that compare   *)
(* their bundles.                                                           *)
(* They hold for every set of loads, columns, keys, items and values, and   *)
(* for every bound.                                                         *)
EXTENDS TabViews, ConfigStore, DistinctCache, CsrmMirror, DataLemmas, FiniteSetTheorems,
        TLAPS

------------------------------------------------------------------------------
(* The views of a tab. A load opens a view or takes one from the cache,     *)
(* pins it, reads and unpins; a clear, an eviction, a drop of the           *)
(* connection and the answers of the hub come in between. The account of    *)
(* the views needs to know who uses a view, who is going to dispose of it,  *)
(* and what a clear has still ahead.                                        *)

\* A load uses the view it opens, reads, or is about to read once an entry
\* has been evicted.
InUse == {"opening", "evicting", "reading"}
\* The loads that have pinned a view.
Readers(v) == {l \in Loads : Pinned(l) /\ load[l].view = v}
\* A view that is lost, or that its last reader or the hub is about to
\* dispose.
Going(v) == \/ lost[v] # "no"
            \/ v \in condemned /\ pins[v] > 0
            \/ v \in disposals

\* A load uses a view that was asked for.
LoadsHaveViews ==
    \A l \in Loads : load[l].at \in InUse =>
        load[l].view \in ViewIds /\ view[load[l].view].at # "unused"

\* A view that is being opened is that of one load, and is neither cached nor
\* disposed of.
OpeningIsPrivate ==
    \A l \in Loads : load[l].at = "opening" =>
        /\ load[l].view \notin disposals /\ ~Cached(load[l].view)
        /\ \A m \in Loads \ {l} : load[m].at \in InUse => load[m].view # load[l].view

\* No view has two entries.
Distinct(s) == \A i, j \in DOMAIN s : s[i].view = s[j].view => i = j

\* The cache has no view twice, and none that was never asked for.
EntriesAreDistinct ==
    /\ Distinct(cache)
    /\ \A i \in DOMAIN cache : view[cache[i].view].at # "unused"
    /\ \A v \in disposals : view[v].at # "unused"

\* Each reader of a view has pinned it.
ReadersArePinned == \A v \in ViewIds : Cardinality(Readers(v)) <= pins[v]

\* A view that outlived the session it was opened in is counted as lost.
OldViewsAreLost ==
    \A v \in ViewIds :
        /\ view[v].session <= session
        /\ view[v].at = "open" /\ view[v].session # session => lost[v] # "no"

\* A view the hub was asked for has a load that waits for it, or is counted
\* as lost.
AskedIsAwaited ==
    \A v \in ViewIds : view[v].at = "asked" =>
        \/ lost[v] # "no"
        \/ \E l \in Loads : load[l].at = "opening" /\ load[l].view = v

\* An entry a clear has passed and left in the cache is on its way out.
SeenIsGoing ==
    clearing.at # "no" =>
        \A i \in DOMAIN cache :
            cache[i].seen /\ view[cache[i].view].at = "open" => Going(cache[i].view)

\* A view of this session that is cached or read, and that nobody wiped
\* behind the cache, is open, and its disposal has not been asked for.
CachedIsOpen ==
    \A v \in ViewIds :
        (Cached(v) \/ Readers(v) # {}) /\ view[v].session = session /\ v \notin wiped
        => view[v].at = "open" /\ v \notin disposals

\* With the account of the views, all of it is preserved by every step.
TabInv ==
    /\ TabViewsTypeOK
    /\ LoadsHaveViews
    /\ OpeningIsPrivate
    /\ EntriesAreDistinct
    /\ ReadersArePinned
    /\ OldViewsAreLost
    /\ AskedIsAwaited
    /\ SeenIsGoing
    /\ CachedIsOpen
    /\ ViewsAreAccounted

\* Without one of its entries, the cache keeps the others.
LEMMA RemovedEntry ==
    ASSUME NEW s \in Seq(CacheEntry), Distinct(s), NEW k \in DOMAIN s, NEW t, t = RemoveAt(s, k)
    PROVE  /\ t \in Seq(CacheEntry)
           /\ Distinct(t)
           /\ \A j \in DOMAIN t : \E i \in DOMAIN s : i # k /\ t[j] = s[i]
           /\ \A i \in DOMAIN s : i # k => \E j \in DOMAIN t : t[j] = s[i]
<1>. DEFINE from(j) == IF j < k THEN j ELSE j + 1
            to(i) == IF i < k THEN i ELSE i - 1
<1>1. Len(s) \in Nat /\ k \in 1 .. Len(s) /\ DOMAIN s = 1 .. Len(s) OBVIOUS
<1>2. t \in Seq(CacheEntry) /\ Len(t) = Len(s) - 1 BY RemovedAt
<1>3. \A j \in 1 .. Len(t) : t[j] = s[from(j)] BY RemovedAt
<1>4. \A j \in 1 .. Len(t) : from(j) \in DOMAIN s /\ from(j) # k
    BY <1>1, <1>2
<1>5. \A i \in DOMAIN s : i # k => to(i) \in 1 .. Len(t) /\ from(to(i)) = i
    BY <1>1, <1>2
<1>6. DOMAIN t = 1 .. Len(t) BY <1>2
<1>7. \A i, j \in 1 .. Len(t) : from(i) = from(j) => i = j
    BY <1>1, <1>2
<1>8. Distinct(t)
    <2>1. SUFFICES ASSUME NEW i \in 1 .. Len(t), NEW j \in 1 .. Len(t), t[i].view = t[j].view
                   PROVE  i = j
        BY <1>6 DEF Distinct
    <2>2. s[from(i)].view = s[from(j)].view BY <2>1, <1>3
    <2>3. from(i) \in DOMAIN s /\ from(j) \in DOMAIN s BY <1>4
    <2>. HIDE DEF from
    <2>. QED BY <2>2, <2>3, <1>7 DEF Distinct
<1>. HIDE DEF from, to
<1>9. \A j \in DOMAIN t : \E i \in DOMAIN s : i # k /\ t[j] = s[i]
    BY <1>3, <1>4, <1>6
<1>10. \A i \in DOMAIN s : i # k => \E j \in DOMAIN t : t[j] = s[i]
    BY <1>3, <1>5, <1>6
<1>. QED BY <1>2, <1>8, <1>9, <1>10

\* t holds the entries of s, and e.
Extends(t, s, e) ==
    /\ t \in Seq(CacheEntry)
    /\ Distinct(t)
    /\ \A j \in DOMAIN t : t[j] = e \/ \E i \in DOMAIN s : t[j] = s[i]
    /\ \A i \in DOMAIN s : \E j \in DOMAIN t : t[j] = s[i]
    /\ \E j \in DOMAIN t : t[j] = e

\* With an entry more, the cache keeps the others.
LEMMA AppendedEntry ==
    ASSUME NEW s \in Seq(CacheEntry), Distinct(s), NEW e \in CacheEntry,
           \A i \in DOMAIN s : s[i].view # e.view
    PROVE  Extends(Append(s, e), s, e)
<1>. DEFINE t == Append(s, e)
<1>1. /\ Len(s) \in Nat /\ DOMAIN s = 1 .. Len(s)
      /\ t \in Seq(CacheEntry) /\ Len(t) = Len(s) + 1 /\ DOMAIN t = 1 .. (Len(s) + 1)
    OBVIOUS
<1>2. (\A i \in DOMAIN s : t[i] = s[i]) /\ t[Len(s) + 1] = e
    OBVIOUS
<1>. HIDE DEF t
<1>3. Distinct(t)
    <2>1. SUFFICES ASSUME NEW i \in DOMAIN t, NEW j \in DOMAIN t, t[i].view = t[j].view
                   PROVE  i = j
        BY DEF Distinct
    <2>2. CASE i \in DOMAIN s /\ j \in DOMAIN s
        BY <2>1, <2>2, <1>2 DEF Distinct
    <2>3. CASE i \notin DOMAIN s \/ j \notin DOMAIN s
        BY <2>1, <2>3, <1>1, <1>2
    <2>. QED BY <2>2, <2>3
<1>4. \A j \in DOMAIN t : j \in DOMAIN s \/ j = Len(s) + 1 BY <1>1
<1>5. \A j \in DOMAIN t : t[j] = e \/ \E i \in DOMAIN s : t[j] = s[i]
    BY <1>4, <1>2
<1>6. \A i \in DOMAIN s : \E j \in DOMAIN t : t[j] = s[i] BY <1>1, <1>2
<1>7. \E j \in DOMAIN t : t[j] = e BY <1>1, <1>2
<1>8. Extends(t, s, e) BY <1>1, <1>3, <1>5, <1>6, <1>7 DEF Extends
<1>. QED BY <1>8 DEF t

\* The views of a sequence of entries.
Views(s) == {s[i].view : i \in DOMAIN s}

\* The readers of a view can be counted.
LEMMA ReadersAreFinite ==
    ASSUME NEW v
    PROVE  IsFiniteSet(Readers(v)) /\ Cardinality(Readers(v)) \in Nat
<1>1. Readers(v) \in SUBSET Loads BY DEF Readers
<1>2. IsFiniteSet(Readers(v)) BY <1>1, FS_Subset, TabViewsAssumption
<1>. QED BY <1>2, FS_CardinalityType

\* As loads begin to read a view, or are done, its pins stay enough.
LEMMA NoReaderMore ==
    ASSUME NEW v, NEW n \in Nat, Cardinality(Readers(v)) <= n,
           Readers(v)' \subseteq Readers(v)
    PROVE  Cardinality(Readers(v)') <= n
<1>1. IsFiniteSet(Readers(v)) /\ Cardinality(Readers(v)) \in Nat BY ReadersAreFinite
<1>2. IsFiniteSet(Readers(v)') /\ Cardinality(Readers(v)') <= Cardinality(Readers(v))
    BY <1>1, FS_Subset
<1>3. Cardinality(Readers(v)') \in Nat BY <1>2, FS_CardinalityType
<1>. QED BY <1>1, <1>2, <1>3

\* A load that pins a view is one reader more.
LEMMA OneReaderMore ==
    ASSUME NEW v, NEW n \in Nat, Cardinality(Readers(v)) <= n, NEW l \in Loads,
           Readers(v)' \subseteq Readers(v) \cup {l}
    PROVE  Cardinality(Readers(v)') <= n + 1
<1>1. IsFiniteSet(Readers(v)) /\ Cardinality(Readers(v)) \in Nat BY ReadersAreFinite
<1>2. /\ IsFiniteSet(Readers(v) \cup {l})
      /\ Cardinality(Readers(v) \cup {l}) <= Cardinality(Readers(v)) + 1
    <2>1. /\ IsFiniteSet(Readers(v) \cup {l})
          /\ Cardinality(Readers(v) \cup {l}) =
                 IF l \in Readers(v) THEN Cardinality(Readers(v)) ELSE Cardinality(Readers(v)) + 1
        BY <1>1, FS_AddElement
    <2>. QED BY <1>1, <2>1
<1>3. IsFiniteSet(Readers(v)') /\ Cardinality(Readers(v)') <= Cardinality(Readers(v) \cup {l})
    BY <1>2, FS_Subset
<1>4. Cardinality(Readers(v) \cup {l}) \in Nat /\ Cardinality(Readers(v)') \in Nat
    BY <1>2, <1>3, FS_CardinalityType
<1>. QED BY <1>1, <1>2, <1>3, <1>4

\* A load that is done is one reader less.
LEMMA OneReaderLess ==
    ASSUME NEW v, NEW n \in Nat, Cardinality(Readers(v)) <= n, NEW l \in Readers(v),
           Readers(v)' \subseteq Readers(v) \ {l}
    PROVE  n - 1 \in Nat /\ Cardinality(Readers(v)') <= n - 1
<1>1. IsFiniteSet(Readers(v)) /\ Cardinality(Readers(v)) \in Nat BY ReadersAreFinite
<1>2. /\ IsFiniteSet(Readers(v) \ {l})
      /\ Cardinality(Readers(v) \ {l}) = Cardinality(Readers(v)) - 1
    BY <1>1, FS_RemoveElement
<1>3. IsFiniteSet(Readers(v)') /\ Cardinality(Readers(v)') <= Cardinality(Readers(v) \ {l})
    BY <1>2, FS_Subset
<1>4. Cardinality(Readers(v) \ {l}) \in Nat /\ Cardinality(Readers(v)') \in Nat
    BY <1>2, <1>3, FS_CardinalityType
<1>. QED BY <1>1, <1>2, <1>3, <1>4

\* A view that is not pinned has no readers.
LEMMA NoReaders ==
    ASSUME NEW v, Cardinality(Readers(v)) <= 0
    PROVE  Readers(v) = {}
<1>1. IsFiniteSet(Readers(v)) /\ Cardinality(Readers(v)) \in Nat BY ReadersAreFinite
<1>. QED BY <1>1, FS_EmptySet

-----------------------------------------------------------------------------

LEMMA IdleIsLoad == Idle \in Load /\ Idle.at = "idle"
BY TabViewsAssumption DEF Idle, Load, LoadAt, Sessions

LEMMA TabInitHolds == TabViewsInit => TabInv
<1>. SUFFICES ASSUME TabViewsInit PROVE TabInv OBVIOUS
<1>1. TabViewsTypeOK
    <2>1. 0 \in Sessions /\ cleared \in 0 .. MaxUpsets
        BY TabViewsAssumption DEF Sessions, TabViewsInit
    <2>2. view \in [ViewIds -> View] BY <2>1 DEF TabViewsInit, View
    <2>3. load \in [Loads -> Load] BY IdleIsLoad DEF TabViewsInit
    <2>4. cache \in Seq(CacheEntry) BY DEF TabViewsInit
    <2>5. pins \in [ViewIds -> Nat] /\ lost \in [ViewIds -> Causes]
        BY DEF TabViewsInit, Causes
    <2>6. clearing \in [at : {"no", "walking", "waiting"}, victim : ViewIds \cup {NoView}]
        BY DEF TabViewsInit
    <2>7. condemned \subseteq ViewIds /\ disposals \subseteq ViewIds /\ wiped \subseteq ViewIds
          /\ session \in Sessions
        BY <2>1 DEF TabViewsInit
    <2>. QED BY <2>1, <2>2, <2>3, <2>4, <2>5, <2>6, <2>7 DEF TabViewsTypeOK
<1>2. \A v \in ViewIds : Readers(v) = {} /\ ~Cached(v)
    BY IdleIsLoad DEF TabViewsInit, Readers, Pinned, Cached
<1>3. ReadersArePinned
    <2>1. \A v \in ViewIds : Cardinality(Readers(v)) = 0 BY <1>2, FS_EmptySet
    <2>. QED BY <2>1 DEF ReadersArePinned, TabViewsInit
<1>4. LoadsHaveViews /\ OpeningIsPrivate
    BY IdleIsLoad DEF TabViewsInit, LoadsHaveViews, OpeningIsPrivate, InUse
<1>5. EntriesAreDistinct
    BY DEF TabViewsInit, EntriesAreDistinct, Distinct
<1>6. OldViewsAreLost /\ AskedIsAwaited /\ SeenIsGoing /\ CachedIsOpen /\ ViewsAreAccounted
    BY <1>2 DEF TabViewsInit, OldViewsAreLost, AskedIsAwaited, SeenIsGoing, CachedIsOpen,
                ViewsAreAccounted
<1>. QED BY <1>1, <1>3, <1>4, <1>5, <1>6 DEF TabInv

LEMMA OpenFailedHolds ==
    ASSUME TabInv, NEW l \in Loads, OpenFailed(l)
    PROVE  TabInv'
<1>1. TabViewsTypeOK'
    BY IdleIsLoad DEF TabInv, TabViewsTypeOK, OpenFailed
<1>2. \A v : Readers(v)' \subseteq Readers(v)
    BY IdleIsLoad DEF TabInv, TabViewsTypeOK, OpenFailed, Readers, Pinned
<1>3. LoadsHaveViews' /\ OpeningIsPrivate'
    BY IdleIsLoad DEF TabInv, TabViewsTypeOK, OpenFailed, LoadsHaveViews, OpeningIsPrivate, InUse, Cached
<1>4. EntriesAreDistinct'
    BY DEF TabInv, OpenFailed, EntriesAreDistinct, Distinct
<1>5. ReadersArePinned'
    BY <1>2, NoReaderMore DEF TabInv, TabViewsTypeOK, OpenFailed, ReadersArePinned
<1>6. OldViewsAreLost'
    BY DEF TabInv, OpenFailed, OldViewsAreLost
<1>7. AskedIsAwaited'
    BY IdleIsLoad DEF TabInv, TabViewsTypeOK, OpenFailed, AskedIsAwaited
<1>8. SeenIsGoing'
    BY DEF TabInv, OpenFailed, SeenIsGoing, Going
<1>9. CachedIsOpen'
    BY <1>2 DEF TabInv, OpenFailed, CachedIsOpen, Cached
<1>10. ViewsAreAccounted'
    BY IdleIsLoad DEF TabInv, TabViewsTypeOK, OpenFailed, ViewsAreAccounted, Cached
<1>. QED BY <1>1, <1>3, <1>4, <1>5, <1>6, <1>7, <1>8, <1>9, <1>10 DEF TabInv

LEMMA UnpinnedHolds ==
    ASSUME TabInv, NEW l \in Loads, Unpinned(l)
    PROVE  TabInv'
<1>1. TabViewsTypeOK'
    BY IdleIsLoad DEF TabInv, TabViewsTypeOK, Unpinned
<1>2. \A v : Readers(v)' \subseteq Readers(v)
    BY IdleIsLoad DEF TabInv, TabViewsTypeOK, Unpinned, Readers, Pinned
<1>3. LoadsHaveViews' /\ OpeningIsPrivate'
    BY IdleIsLoad DEF TabInv, TabViewsTypeOK, Unpinned, LoadsHaveViews, OpeningIsPrivate, InUse, Cached
<1>4. EntriesAreDistinct'
    BY DEF TabInv, TabViewsTypeOK, Unpinned, EntriesAreDistinct, Distinct
<1>5. ReadersArePinned'
    BY <1>2, NoReaderMore DEF TabInv, TabViewsTypeOK, Unpinned, ReadersArePinned
<1>6. OldViewsAreLost'
    BY DEF TabInv, TabViewsTypeOK, Unpinned, OldViewsAreLost
<1>7. AskedIsAwaited'
    BY IdleIsLoad DEF TabInv, TabViewsTypeOK, Unpinned, AskedIsAwaited
<1>8. SeenIsGoing'
    BY DEF TabInv, TabViewsTypeOK, Unpinned, SeenIsGoing, Going
<1>9. CachedIsOpen'
    BY <1>2 DEF TabInv, TabViewsTypeOK, Unpinned, CachedIsOpen, Cached
<1>10. ViewsAreAccounted'
    BY IdleIsLoad DEF TabInv, TabViewsTypeOK, Unpinned, ViewsAreAccounted, Cached
<1>. QED BY <1>1, <1>3, <1>4, <1>5, <1>6, <1>7, <1>8, <1>9, <1>10 DEF TabInv

LEMMA ClearResumesHolds ==
    ASSUME TabInv, ClearResumes
    PROVE  TabInv'
<1>1. TabViewsTypeOK'
    BY DEF TabInv, TabViewsTypeOK, ClearResumes
<1>2. \A v : Readers(v)' \subseteq Readers(v)
    BY DEF TabInv, TabViewsTypeOK, ClearResumes, Readers, Pinned
<1>3. LoadsHaveViews' /\ OpeningIsPrivate'
    BY DEF TabInv, TabViewsTypeOK, ClearResumes, LoadsHaveViews, OpeningIsPrivate, InUse, Cached
<1>4. EntriesAreDistinct'
    BY DEF TabInv, TabViewsTypeOK, ClearResumes, EntriesAreDistinct, Distinct
<1>5. ReadersArePinned'
    BY <1>2, NoReaderMore DEF TabInv, TabViewsTypeOK, ClearResumes, ReadersArePinned
<1>6. OldViewsAreLost'
    BY DEF TabInv, TabViewsTypeOK, ClearResumes, OldViewsAreLost
<1>7. AskedIsAwaited'
    BY DEF TabInv, TabViewsTypeOK, ClearResumes, AskedIsAwaited
<1>8. SeenIsGoing'
    BY DEF TabInv, TabViewsTypeOK, ClearResumes, SeenIsGoing, Going
<1>9. CachedIsOpen'
    BY <1>2 DEF TabInv, TabViewsTypeOK, ClearResumes, CachedIsOpen, Cached
<1>10. ViewsAreAccounted'
    BY DEF TabInv, TabViewsTypeOK, ClearResumes, ViewsAreAccounted, Cached
<1>. QED BY <1>1, <1>3, <1>4, <1>5, <1>6, <1>7, <1>8, <1>9, <1>10 DEF TabInv

LEMMA ClearTimeoutHolds ==
    ASSUME TabInv, ClearTimeout
    PROVE  TabInv'
<1>1. TabViewsTypeOK'
    BY DEF TabInv, TabViewsTypeOK, ClearTimeout
<1>2. \A v : Readers(v)' \subseteq Readers(v)
    BY DEF TabInv, TabViewsTypeOK, ClearTimeout, Readers, Pinned
<1>3. LoadsHaveViews' /\ OpeningIsPrivate'
    BY DEF TabInv, TabViewsTypeOK, ClearTimeout, LoadsHaveViews, OpeningIsPrivate, InUse, Cached
<1>4. EntriesAreDistinct'
    BY DEF TabInv, TabViewsTypeOK, ClearTimeout, EntriesAreDistinct, Distinct
<1>5. ReadersArePinned'
    BY <1>2, NoReaderMore DEF TabInv, TabViewsTypeOK, ClearTimeout, ReadersArePinned
<1>6. OldViewsAreLost'
    BY DEF TabInv, TabViewsTypeOK, ClearTimeout, OldViewsAreLost
<1>7. AskedIsAwaited'
    BY DEF TabInv, TabViewsTypeOK, ClearTimeout, AskedIsAwaited
<1>8. SeenIsGoing'
    BY DEF TabInv, TabViewsTypeOK, ClearTimeout, SeenIsGoing, Going
<1>9. CachedIsOpen'
    BY <1>2 DEF TabInv, TabViewsTypeOK, ClearTimeout, CachedIsOpen, Cached
<1>10. ViewsAreAccounted'
    BY DEF TabInv, TabViewsTypeOK, ClearTimeout, ViewsAreAccounted, Cached
<1>. QED BY <1>1, <1>3, <1>4, <1>5, <1>6, <1>7, <1>8, <1>9, <1>10 DEF TabInv

\* An entry of the cache is of a view.
LEMMA EntriesHaveViews ==
    ASSUME TabViewsTypeOK
    PROVE  \A i \in DOMAIN cache : cache[i] \in CacheEntry /\ cache[i].view \in ViewIds
<1>1. \A i \in DOMAIN cache : cache[i] \in CacheEntry
    BY LenProperties DEF TabViewsTypeOK
<1>. QED BY <1>1 DEF CacheEntry

\* The hub changes one view.
LEMMA ViewChanges ==
    ASSUME TabViewsTypeOK, NEW v \in ViewIds,
           NEW a \in {"unused", "asked", "open", "closed"},
           view' = [view EXCEPT ![v].at = a]
    PROVE  /\ view' \in [ViewIds -> View]
           /\ view'[v].at = a
           /\ \A w \in ViewIds \ {v} : view'[w] = view[w]
           /\ \A w \in ViewIds : view'[w].session = view[w].session
<1>1. view[v] \in View /\ view \in [ViewIds -> View] BY DEF TabViewsTypeOK
<1>2. [view[v] EXCEPT !.at = a] = [at |-> a, session |-> view[v].session]
    BY <1>1 DEF View
<1>3. view' = [view EXCEPT ![v] = [at |-> a, session |-> view[v].session]]
    BY <1>2
<1>4. [at |-> a, session |-> view[v].session] \in View BY <1>1 DEF View
<1>5. view'[v] = [at |-> a, session |-> view[v].session] BY <1>1, <1>3
<1>6. view' \in [ViewIds -> View] /\ \A w \in ViewIds \ {v} : view'[w] = view[w]
    BY <1>1, <1>3, <1>4
<1>. QED BY <1>5, <1>6

LEMMA HubOpensHolds ==
    ASSUME TabInv, NEW v \in ViewIds, HubOpens(v)
    PROVE  TabInv'
<1>. DEFINE at == "open"
<1>0. /\ TabViewsTypeOK /\ LoadsHaveViews /\ OpeningIsPrivate /\ EntriesAreDistinct
      /\ ReadersArePinned /\ OldViewsAreLost /\ AskedIsAwaited /\ SeenIsGoing
      /\ CachedIsOpen /\ ViewsAreAccounted
    BY DEF TabInv
<1>1. /\ v \in ViewIds /\ at \in {"unused", "asked", "open", "closed"}
      /\ view' = [view EXCEPT ![v].at = at]
    BY <1>0 DEF HubOpens, TabViewsTypeOK, View
<1>. HIDE DEF at
<1>2. /\ view' \in [ViewIds -> View]
      /\ view'[v].at = at
      /\ \A w \in ViewIds \ {v} : view'[w] = view[w]
      /\ \A w \in ViewIds : view'[w].session = view[w].session
    BY <1>0, <1>1, ViewChanges
<1>3. /\ UNCHANGED <<load, cache, pins, condemned, clearing, cleared, session,
                     disposals, wiped>>
      /\ view[v].at = "asked" /\ at = "open"
      /\ lost' \in [ViewIds -> Causes]
      /\ \A w \in ViewIds : lost[w] # "no" => lost'[w] # "no"
      /\ view[v].session # session => lost'[v] # "no"
    BY <1>0 DEF HubOpens, TabViewsTypeOK, View, Causes, at
<1>4. TabViewsTypeOK' BY <1>0, <1>2, <1>3 DEF TabViewsTypeOK
<1>5. \A w : Readers(w)' = Readers(w) /\ (Cached(w)' <=> Cached(w))
    BY <1>3 DEF Readers, Pinned, Cached
<1>6. LoadsHaveViews' BY <1>0, <1>2, <1>3 DEF LoadsHaveViews
<1>7. OpeningIsPrivate' BY <1>0, <1>3, <1>5 DEF OpeningIsPrivate
<1>8. EntriesAreDistinct'
    BY <1>0, <1>2, <1>3, EntriesHaveViews DEF EntriesAreDistinct, TabViewsTypeOK
<1>9. ReadersArePinned' BY <1>0, <1>3, <1>5 DEF ReadersArePinned
<1>10. OldViewsAreLost' BY <1>0, <1>2, <1>3 DEF OldViewsAreLost
<1>11. AskedIsAwaited' BY <1>0, <1>2, <1>3 DEF AskedIsAwaited
<1>12. SeenIsGoing'
    BY <1>0, <1>2, <1>3, EntriesHaveViews
    DEF SeenIsGoing, Going, AskedIsAwaited, OpeningIsPrivate, Cached
<1>13. CachedIsOpen' BY <1>0, <1>2, <1>3, <1>5 DEF CachedIsOpen
<1>14. ViewsAreAccounted'
    BY <1>0, <1>2, <1>3, <1>5 DEF ViewsAreAccounted, AskedIsAwaited
<1>. QED BY <1>4, <1>6, <1>7, <1>8, <1>9, <1>10, <1>11, <1>12, <1>13, <1>14 DEF TabInv

LEMMA HubRefusesHolds ==
    ASSUME TabInv, NEW v \in ViewIds, HubRefuses(v)
    PROVE  TabInv'
<1>. DEFINE at == "closed"
<1>0. /\ TabViewsTypeOK /\ LoadsHaveViews /\ OpeningIsPrivate /\ EntriesAreDistinct
      /\ ReadersArePinned /\ OldViewsAreLost /\ AskedIsAwaited /\ SeenIsGoing
      /\ CachedIsOpen /\ ViewsAreAccounted
    BY DEF TabInv
<1>1. /\ v \in ViewIds /\ at \in {"unused", "asked", "open", "closed"}
      /\ view' = [view EXCEPT ![v].at = at]
    BY <1>0 DEF HubRefuses, TabViewsTypeOK, View
<1>. HIDE DEF at
<1>2. /\ view' \in [ViewIds -> View]
      /\ view'[v].at = at
      /\ \A w \in ViewIds \ {v} : view'[w] = view[w]
      /\ \A w \in ViewIds : view'[w].session = view[w].session
    BY <1>0, <1>1, ViewChanges
<1>3. /\ UNCHANGED <<load, cache, pins, condemned, clearing, cleared, session,
                     disposals, lost, wiped>>
      /\ view[v].at = "asked" /\ at = "closed"
    BY <1>0 DEF HubRefuses, TabViewsTypeOK, View, Causes, at
<1>4. TabViewsTypeOK' BY <1>0, <1>2, <1>3 DEF TabViewsTypeOK
<1>5. \A w : Readers(w)' = Readers(w) /\ (Cached(w)' <=> Cached(w))
    BY <1>3 DEF Readers, Pinned, Cached
<1>6. LoadsHaveViews' BY <1>0, <1>2, <1>3 DEF LoadsHaveViews
<1>7. OpeningIsPrivate' BY <1>0, <1>3, <1>5 DEF OpeningIsPrivate
<1>8. EntriesAreDistinct'
    BY <1>0, <1>2, <1>3, EntriesHaveViews DEF EntriesAreDistinct, TabViewsTypeOK
<1>9. ReadersArePinned' BY <1>0, <1>3, <1>5 DEF ReadersArePinned
<1>10. OldViewsAreLost' BY <1>0, <1>2, <1>3 DEF OldViewsAreLost
<1>11. AskedIsAwaited' BY <1>0, <1>2, <1>3 DEF AskedIsAwaited
<1>12. SeenIsGoing'
    BY <1>0, <1>2, <1>3, EntriesHaveViews
    DEF SeenIsGoing, Going, AskedIsAwaited, OpeningIsPrivate, Cached
<1>13. CachedIsOpen' BY <1>0, <1>2, <1>3, <1>5 DEF CachedIsOpen
<1>14. ViewsAreAccounted'
    BY <1>0, <1>2, <1>3, <1>5 DEF ViewsAreAccounted, AskedIsAwaited
<1>. QED BY <1>4, <1>6, <1>7, <1>8, <1>9, <1>10, <1>11, <1>12, <1>13, <1>14 DEF TabInv

LEMMA HubDisposesHolds ==
    ASSUME TabInv, NEW v \in disposals, HubDisposes(v)
    PROVE  TabInv'
<1>. DEFINE at == IF view[v].at = "open" THEN "closed" ELSE view[v].at
<1>0. /\ TabViewsTypeOK /\ LoadsHaveViews /\ OpeningIsPrivate /\ EntriesAreDistinct
      /\ ReadersArePinned /\ OldViewsAreLost /\ AskedIsAwaited /\ SeenIsGoing
      /\ CachedIsOpen /\ ViewsAreAccounted
    BY DEF TabInv
<1>1. /\ v \in ViewIds /\ at \in {"unused", "asked", "open", "closed"}
      /\ view' = [view EXCEPT ![v].at = at]
    BY <1>0 DEF HubDisposes, TabViewsTypeOK, View
<1>. HIDE DEF at
<1>2. /\ view' \in [ViewIds -> View]
      /\ view'[v].at = at
      /\ \A w \in ViewIds \ {v} : view'[w] = view[w]
      /\ \A w \in ViewIds : view'[w].session = view[w].session
    BY <1>0, <1>1, ViewChanges
<1>3. /\ UNCHANGED <<load, cache, pins, condemned, clearing, cleared, session, lost,
                     wiped>>
      /\ v \in disposals /\ disposals' = disposals \ {v}
      /\ at # "open" /\ (at = view[v].at \/ at = "closed")
    BY <1>0 DEF HubDisposes, TabViewsTypeOK, View, Causes, at
<1>4. TabViewsTypeOK' BY <1>0, <1>2, <1>3 DEF TabViewsTypeOK
<1>5. \A w : Readers(w)' = Readers(w) /\ (Cached(w)' <=> Cached(w))
    BY <1>3 DEF Readers, Pinned, Cached
<1>6. LoadsHaveViews' BY <1>0, <1>2, <1>3 DEF LoadsHaveViews
<1>7. OpeningIsPrivate' BY <1>0, <1>3, <1>5 DEF OpeningIsPrivate
<1>8. EntriesAreDistinct'
    BY <1>0, <1>2, <1>3, EntriesHaveViews DEF EntriesAreDistinct, TabViewsTypeOK
<1>9. ReadersArePinned' BY <1>0, <1>3, <1>5 DEF ReadersArePinned
<1>10. OldViewsAreLost' BY <1>0, <1>2, <1>3 DEF OldViewsAreLost
<1>11. AskedIsAwaited' BY <1>0, <1>2, <1>3 DEF AskedIsAwaited
<1>12. SeenIsGoing'
    BY <1>0, <1>2, <1>3, EntriesHaveViews
    DEF SeenIsGoing, Going, AskedIsAwaited, OpeningIsPrivate, Cached
<1>13. CachedIsOpen' BY <1>0, <1>2, <1>3, <1>5 DEF CachedIsOpen
<1>14. ViewsAreAccounted'
    BY <1>0, <1>2, <1>3, <1>5 DEF ViewsAreAccounted, AskedIsAwaited
<1>. QED BY <1>4, <1>6, <1>7, <1>8, <1>9, <1>10, <1>11, <1>12, <1>13, <1>14 DEF TabInv

LEMMA DropHolds ==
    ASSUME TabInv, Drop
    PROVE  TabInv'
<1>0. /\ TabViewsTypeOK /\ LoadsHaveViews /\ OpeningIsPrivate /\ EntriesAreDistinct
      /\ ReadersArePinned /\ OldViewsAreLost /\ AskedIsAwaited /\ SeenIsGoing
      /\ CachedIsOpen /\ ViewsAreAccounted
    BY DEF TabInv
<1>1. /\ UNCHANGED <<load, cache, pins, condemned, clearing, cleared, lost, wiped>>
      /\ disposals' = {} /\ session' = session + 1 /\ session + 1 \in Sessions
    BY <1>0, TabViewsAssumption DEF Drop, TabViewsTypeOK, Sessions
<1>2. ASSUME NEW w \in ViewIds
      PROVE  /\ view'[w] \in View /\ view'[w].session = view[w].session
             /\ view'[w].at = IF view[w].at = "open" /\ view[w].session = session
                              THEN "closed" ELSE view[w].at
    <2>1. view[w] \in View BY <1>0 DEF TabViewsTypeOK
    <2>2. view'[w] = IF view[w].at = "open" /\ view[w].session = session
                     THEN [view[w] EXCEPT !.at = "closed"] ELSE view[w]
        BY DEF Drop
    <2>. QED BY <2>1, <2>2 DEF View
<1>3. view' \in [ViewIds -> View]
    <2>1. DOMAIN view' = ViewIds /\ view' = [w \in DOMAIN view' |-> view'[w]] BY DEF Drop
    <2>. QED BY <2>1, <1>2
<1>4. TabViewsTypeOK' BY <1>0, <1>1, <1>3 DEF TabViewsTypeOK
<1>5. \A w : Readers(w)' = Readers(w) /\ (Cached(w)' <=> Cached(w))
    BY <1>1 DEF Readers, Pinned, Cached
<1>6. LoadsHaveViews' BY <1>0, <1>1, <1>2 DEF LoadsHaveViews
<1>7. OpeningIsPrivate' BY <1>0, <1>1, <1>5 DEF OpeningIsPrivate
<1>8. EntriesAreDistinct'
    BY <1>0, <1>1, <1>2, EntriesHaveViews DEF EntriesAreDistinct, TabViewsTypeOK
<1>9. ReadersArePinned' BY <1>0, <1>1, <1>5 DEF ReadersArePinned
<1>10. \A w \in ViewIds : view[w].session \in Nat /\ session \in Nat
    BY <1>0, TabViewsAssumption DEF TabViewsTypeOK, View, Sessions
<1>11. OldViewsAreLost' BY <1>0, <1>1, <1>2, <1>10 DEF OldViewsAreLost
<1>12. AskedIsAwaited' BY <1>0, <1>1, <1>2 DEF AskedIsAwaited
<1>13. \A w \in ViewIds : view'[w].at = "open" => lost[w] # "no"
    BY <1>0, <1>2 DEF OldViewsAreLost
<1>14. SeenIsGoing'
    BY <1>0, <1>1, <1>13, EntriesHaveViews DEF SeenIsGoing, Going
<1>15. CachedIsOpen' BY <1>0, <1>1, <1>2, <1>10 DEF CachedIsOpen, OldViewsAreLost
<1>16. ViewsAreAccounted' BY <1>1, <1>13 DEF ViewsAreAccounted
<1>. QED BY <1>4, <1>6, <1>7, <1>8, <1>9, <1>11, <1>12, <1>14, <1>15, <1>16 DEF TabInv

LEMMA MissHolds ==
    ASSUME TabInv, NEW l \in Loads, NEW q \in Signatures, Miss(l, q)
    PROVE  TabInv'
<1>0. /\ TabViewsTypeOK /\ LoadsHaveViews /\ OpeningIsPrivate /\ EntriesAreDistinct
      /\ ReadersArePinned /\ OldViewsAreLost /\ AskedIsAwaited /\ SeenIsGoing
      /\ CachedIsOpen /\ ViewsAreAccounted
    BY DEF TabInv
<1>1. PICK v \in ViewIds :
         /\ view[v].at = "unused"
         /\ view' = [view EXCEPT ![v] = [at |-> "asked", session |-> session]]
         /\ load' = [load EXCEPT ![l] = [at |-> "opening", query |-> q, view |-> v,
                                         victim |-> NoView, session |-> session]]
    BY DEF Miss
<1>2. /\ load[l].at = "idle"
      /\ UNCHANGED <<cache, pins, condemned, clearing, cleared, session, disposals, lost, wiped>>
    BY DEF Miss
<1>3. /\ view' \in [ViewIds -> View] /\ load' \in [Loads -> Load]
      /\ view'[v].at = "asked" /\ view'[v].session = session
      /\ \A w \in ViewIds \ {v} : view'[w] = view[w]
      /\ load'[l].at = "opening" /\ load'[l].view = v
      /\ \A m \in Loads \ {l} : load'[m] = load[m]
    BY <1>0, <1>1 DEF TabViewsTypeOK, View, Load, LoadAt
<1>4. TabViewsTypeOK' BY <1>0, <1>2, <1>3 DEF TabViewsTypeOK
<1>5. \A w : Readers(w)' = Readers(w) /\ (Cached(w)' <=> Cached(w))
    BY <1>2, <1>3 DEF Readers, Pinned, Cached
<1>6. v \notin disposals /\ ~Cached(v)
    BY <1>0, <1>1 DEF EntriesAreDistinct, Cached
<1>7. \A m \in Loads : load[m].at \in InUse => load[m].view # v
    BY <1>0, <1>1 DEF LoadsHaveViews
<1>8. LoadsHaveViews' BY <1>0, <1>2, <1>3 DEF LoadsHaveViews, InUse
<1>9. OpeningIsPrivate'
    BY <1>0, <1>2, <1>3, <1>5, <1>6, <1>7 DEF OpeningIsPrivate, InUse
<1>10. EntriesAreDistinct'
    BY <1>0, <1>2, <1>3, EntriesHaveViews DEF EntriesAreDistinct, TabViewsTypeOK
<1>11. ReadersArePinned' BY <1>0, <1>2, <1>5 DEF ReadersArePinned
<1>12. session \in Nat
    BY <1>0, TabViewsAssumption DEF TabViewsTypeOK, Sessions
<1>13. OldViewsAreLost' BY <1>0, <1>2, <1>3, <1>12 DEF OldViewsAreLost
<1>14. AskedIsAwaited' BY <1>0, <1>2, <1>3 DEF AskedIsAwaited
<1>15. SeenIsGoing'
    BY <1>0, <1>2, <1>3, EntriesHaveViews DEF SeenIsGoing, Going
<1>16. Readers(v) = {} BY <1>7 DEF Readers, Pinned, InUse
<1>17. CachedIsOpen' BY <1>0, <1>2, <1>3, <1>5, <1>6, <1>16 DEF CachedIsOpen
<1>18. ViewsAreAccounted' BY <1>0, <1>2, <1>3, <1>5 DEF ViewsAreAccounted
<1>. QED BY <1>4, <1>8, <1>9, <1>10, <1>11, <1>13, <1>14, <1>15, <1>17, <1>18 DEF TabInv

\* A load that gives up an open forgets the view it asked for.
LEMMA OpenTimeoutHolds ==
    ASSUME TabInv, NEW l \in Loads, load[l].at = "opening",
           load' = [load EXCEPT ![l] = Idle],
           lost' = [lost EXCEPT ![load[l].view] = IF @ = "no" THEN "late" ELSE @],
           UNCHANGED <<pins, condemned, disposals, wiped, cache, clearing, cleared, view, session>>
    PROVE  TabInv'
<1>0. /\ TabViewsTypeOK /\ LoadsHaveViews /\ OpeningIsPrivate /\ EntriesAreDistinct
      /\ ReadersArePinned /\ OldViewsAreLost /\ AskedIsAwaited /\ SeenIsGoing
      /\ CachedIsOpen /\ ViewsAreAccounted
    BY DEF TabInv
<1>1. load[l].view \in ViewIds BY <1>0 DEF LoadsHaveViews, InUse
<1>2. /\ load' \in [Loads -> Load] /\ load'[l].at = "idle"
      /\ \A m \in Loads \ {l} : load'[m] = load[m]
    BY <1>0, IdleIsLoad DEF TabViewsTypeOK
<1>3. /\ lost' \in [ViewIds -> Causes] /\ lost'[load[l].view] # "no"
      /\ \A w \in ViewIds : lost[w] # "no" => lost'[w] # "no"
    BY <1>0, <1>1 DEF TabViewsTypeOK, Causes
<1>4. TabViewsTypeOK' BY <1>0, <1>2, <1>3 DEF TabViewsTypeOK
<1>5. \A w : Readers(w)' = Readers(w) /\ (Cached(w)' <=> Cached(w))
    BY <1>2 DEF Readers, Pinned, Cached
<1>6. LoadsHaveViews' BY <1>0, <1>2 DEF LoadsHaveViews, InUse
<1>7. OpeningIsPrivate' BY <1>0, <1>2, <1>5 DEF OpeningIsPrivate, InUse
<1>8. EntriesAreDistinct' BY <1>0 DEF EntriesAreDistinct
<1>9. ReadersArePinned' BY <1>0, <1>5 DEF ReadersArePinned
<1>10. OldViewsAreLost' BY <1>0, <1>3 DEF OldViewsAreLost
<1>11. AskedIsAwaited' BY <1>0, <1>2, <1>3 DEF AskedIsAwaited
<1>12. SeenIsGoing' BY <1>0, <1>3, EntriesHaveViews DEF SeenIsGoing, Going
<1>13. CachedIsOpen' BY <1>0, <1>5 DEF CachedIsOpen
<1>14. ViewsAreAccounted' BY <1>0, <1>2, <1>3, <1>5 DEF ViewsAreAccounted
<1>. QED BY <1>4, <1>6, <1>7, <1>8, <1>9, <1>10, <1>11, <1>12, <1>13, <1>14 DEF TabInv

\* A load that leaves an eviction, or a last disposal, keeps its pin.
LEMMA LeaveHolds ==
    ASSUME TabInv, NEW l \in Loads, load[l].at \in {"evicting", "unpinning"},
           load' = [load EXCEPT ![l] = Idle],
           UNCHANGED <<pins, condemned, disposals, lost, wiped, cache, clearing, cleared,
                       view, session>>
    PROVE  TabInv'
<1>0. /\ TabViewsTypeOK /\ LoadsHaveViews /\ OpeningIsPrivate /\ EntriesAreDistinct
      /\ ReadersArePinned /\ OldViewsAreLost /\ AskedIsAwaited /\ SeenIsGoing
      /\ CachedIsOpen /\ ViewsAreAccounted
    BY DEF TabInv
<1>1. /\ load' \in [Loads -> Load] /\ load'[l].at = "idle"
      /\ \A m \in Loads \ {l} : load'[m] = load[m]
    BY <1>0, IdleIsLoad DEF TabViewsTypeOK
<1>2. TabViewsTypeOK' BY <1>0, <1>1 DEF TabViewsTypeOK
<1>3. \A w : Readers(w)' \subseteq Readers(w) /\ (Cached(w)' <=> Cached(w))
    BY <1>1 DEF Readers, Pinned, Cached
<1>4. LoadsHaveViews' BY <1>0, <1>1 DEF LoadsHaveViews, InUse
<1>5. OpeningIsPrivate' BY <1>0, <1>1, <1>3 DEF OpeningIsPrivate, InUse
<1>6. EntriesAreDistinct' BY <1>0 DEF EntriesAreDistinct
<1>7. ReadersArePinned'
    BY <1>0, <1>3, NoReaderMore DEF ReadersArePinned, TabViewsTypeOK
<1>8. OldViewsAreLost' BY <1>0 DEF OldViewsAreLost
<1>9. AskedIsAwaited' BY <1>0, <1>1 DEF AskedIsAwaited
<1>10. SeenIsGoing' BY <1>0 DEF SeenIsGoing, Going
<1>11. CachedIsOpen' BY <1>0, <1>3 DEF CachedIsOpen
<1>12. ViewsAreAccounted' BY <1>0, <1>1, <1>3 DEF ViewsAreAccounted
<1>. QED BY <1>2, <1>4, <1>5, <1>6, <1>7, <1>8, <1>9, <1>10, <1>11, <1>12 DEF TabInv

LEMMA UnpinHolds ==
    ASSUME TabInv, NEW l \in Loads, NEW v, load[l].at = "reading", v = load[l].view, Unpin(l),
           UNCHANGED <<cache, clearing, cleared, view, session, lost>>
    PROVE  TabInv'
<1>. DEFINE last == pins[v] = 1 /\ v \in condemned
<1>0. /\ TabViewsTypeOK /\ LoadsHaveViews /\ OpeningIsPrivate /\ EntriesAreDistinct
      /\ ReadersArePinned /\ OldViewsAreLost /\ AskedIsAwaited /\ SeenIsGoing
      /\ CachedIsOpen /\ ViewsAreAccounted
    BY DEF TabInv
<1>1. v \in ViewIds /\ view[v].at # "unused" BY <1>0 DEF LoadsHaveViews, InUse
<1>2. l \in Readers(v) BY DEF Readers, Pinned
<1>3. /\ load' \in [Loads -> Load] /\ load'[l].at \in {"idle", "unpinning"}
      /\ \A m \in Loads \ {l} : load'[m] = load[m]
    <2>1. Idle \in Load /\ Idle.at = "idle" /\ load[l] \in Load
        BY <1>0, IdleIsLoad DEF TabViewsTypeOK
    <2>2. CASE last
        <3>2. load' = [load EXCEPT ![l] = [at |-> "unpinning", query |-> load[l].query,
                                           view |-> v, victim |-> v, session |-> session]]
            BY <2>2 DEF Unpin
        <3>. QED BY <1>0, <1>1, <2>1, <3>2 DEF Load, LoadAt, TabViewsTypeOK
    <2>3. CASE ~last
        <3>1. load' = [load EXCEPT ![l] = Idle] BY <2>3 DEF Unpin
        <3>. QED BY <1>0, <2>1, <3>1 DEF TabViewsTypeOK
    <2>. QED BY <2>2, <2>3
<1>4. /\ pins' = [pins EXCEPT ![v] = @ - 1]
      /\ last => condemned' = condemned \ {v} /\ disposals' = disposals \cup {v}
                 /\ wiped' = wiped \cup {v}
      /\ ~last => UNCHANGED <<condemned, disposals, wiped>>
    BY DEF Unpin, Dispose
<1>5. \A w : /\ Readers(w)' \subseteq Readers(w) /\ (Cached(w)' <=> Cached(w))
             /\ w = v => Readers(w)' \subseteq Readers(w) \ {l}
    BY <1>3 DEF Readers, Pinned, Cached
<1>6. /\ pins[v] \in Nat /\ Cardinality(Readers(v)) <= pins[v]
      /\ pins' \in [ViewIds -> Int] /\ pins'[v] = pins[v] - 1
      /\ \A w \in ViewIds \ {v} : pins'[w] = pins[w]
    BY <1>0, <1>1, <1>4 DEF ReadersArePinned, TabViewsTypeOK
<1>7. pins[v] - 1 \in Nat /\ Cardinality(Readers(v)') <= pins[v] - 1
    <2>1. Readers(v)' \subseteq Readers(v) \ {l} BY <1>5
    <2>2. pins[v] \in Nat /\ Cardinality(Readers(v)) <= pins[v] BY <1>6
    <2>. QED BY <1>2, <2>1, <2>2, OneReaderLess
<1>8. pins' \in [ViewIds -> Nat] BY <1>0, <1>6, <1>7 DEF TabViewsTypeOK
<1>9. TabViewsTypeOK' BY <1>0, <1>1, <1>3, <1>4, <1>8 DEF TabViewsTypeOK
<1>10. LoadsHaveViews' BY <1>0, <1>3 DEF LoadsHaveViews, InUse
<1>11. \A m \in Loads : load[m].at = "opening" => load[m].view # v
    BY <1>0 DEF OpeningIsPrivate, InUse
<1>12. OpeningIsPrivate'
    BY <1>0, <1>3, <1>4, <1>5, <1>11 DEF OpeningIsPrivate, InUse
<1>13. EntriesAreDistinct' BY <1>0, <1>1, <1>4 DEF EntriesAreDistinct
<1>14. ReadersArePinned'
    <2>1. ASSUME NEW w \in ViewIds, w # v PROVE Cardinality(Readers(w)') <= pins'[w]
        <3>1. pins[w] \in Nat /\ Cardinality(Readers(w)) <= pins[w] /\ pins'[w] = pins[w]
            BY <1>0, <1>6, <2>1 DEF ReadersArePinned, TabViewsTypeOK
        <3>2. Readers(w)' \subseteq Readers(w) BY <1>5
        <3>3. Cardinality(Readers(w)') <= pins[w] BY <3>1, <3>2, NoReaderMore
        <3>. QED BY <3>1, <3>3
    <2>. QED BY <2>1, <1>6, <1>7 DEF ReadersArePinned
<1>15. OldViewsAreLost' BY <1>0 DEF OldViewsAreLost
<1>16. AskedIsAwaited' BY <1>0, <1>3 DEF AskedIsAwaited
<1>17. \A w \in ViewIds : w \in condemned /\ pins[w] > 0
                          => (w \in condemned' /\ pins'[w] > 0) \/ w \in disposals'
    BY <1>4, <1>6, <1>7
<1>18. disposals \subseteq disposals' BY <1>4
<1>19. SeenIsGoing' BY <1>0, <1>17, <1>18, EntriesHaveViews DEF SeenIsGoing, Going
<1>20. CachedIsOpen' BY <1>0, <1>4, <1>5 DEF CachedIsOpen
<1>21. ViewsAreAccounted' BY <1>0, <1>3, <1>5, <1>17, <1>18 DEF ViewsAreAccounted
<1>. QED BY <1>9, <1>10, <1>12, <1>13, <1>14, <1>15, <1>16, <1>19, <1>20, <1>21 DEF TabInv

LEMMA BeginClearHolds ==
    ASSUME TabInv, BeginClear
    PROVE  TabInv'
<1>0. /\ TabViewsTypeOK /\ LoadsHaveViews /\ OpeningIsPrivate /\ EntriesAreDistinct
      /\ ReadersArePinned /\ OldViewsAreLost /\ AskedIsAwaited /\ SeenIsGoing
      /\ CachedIsOpen /\ ViewsAreAccounted
    BY DEF TabInv
<1>1. /\ UNCHANGED <<load, pins, condemned, view, session, disposals, lost, wiped>>
      /\ clearing' = [at |-> "walking", victim |-> NoView]
      /\ cleared' \in 0 .. MaxUpsets
    BY <1>0, TabViewsAssumption DEF BeginClear, TabViewsTypeOK, Sessions
<1>2. /\ DOMAIN cache' = DOMAIN cache
      /\ \A i \in DOMAIN cache : cache'[i] = [cache[i] EXCEPT !.seen = FALSE]
    BY DEF BeginClear
<1>3. \A i \in DOMAIN cache : /\ cache'[i] \in CacheEntry /\ cache'[i].view = cache[i].view
                              /\ ~cache'[i].seen
    BY <1>0, <1>2, EntriesHaveViews DEF CacheEntry
<1>4. cache' \in Seq(CacheEntry)
    <2>1. Len(cache) \in Nat /\ DOMAIN cache = 1 .. Len(cache)
        BY <1>0, LenProperties DEF TabViewsTypeOK
    <2>2. cache' = [i \in 1 .. Len(cache) |-> cache'[i]] BY <2>1 DEF BeginClear
    <2>3. \A i \in 1 .. Len(cache) : cache'[i] \in CacheEntry BY <1>3, <2>1
    <2>4. cache' \in [1 .. Len(cache) -> CacheEntry] BY <2>2, <2>3
    <2>. QED BY <2>1, <2>4
<1>5. TabViewsTypeOK' BY <1>0, <1>1, <1>4 DEF TabViewsTypeOK
<1>6. \A w : Readers(w)' = Readers(w) /\ (Cached(w)' <=> Cached(w))
    BY <1>1, <1>2, <1>3 DEF Readers, Pinned, Cached
<1>7. LoadsHaveViews' BY <1>0, <1>1 DEF LoadsHaveViews
<1>8. OpeningIsPrivate' BY <1>0, <1>1, <1>6 DEF OpeningIsPrivate
<1>9. EntriesAreDistinct' BY <1>0, <1>1, <1>2, <1>3 DEF EntriesAreDistinct, Distinct
<1>10. ReadersArePinned' BY <1>0, <1>1, <1>6 DEF ReadersArePinned
<1>11. OldViewsAreLost' BY <1>0, <1>1 DEF OldViewsAreLost
<1>12. AskedIsAwaited' BY <1>0, <1>1 DEF AskedIsAwaited
<1>13. SeenIsGoing' BY <1>2, <1>3 DEF SeenIsGoing
<1>14. CachedIsOpen' BY <1>0, <1>1, <1>6 DEF CachedIsOpen
<1>15. ViewsAreAccounted' BY <1>0, <1>1, <1>6 DEF ViewsAreAccounted
<1>. QED BY <1>5, <1>7, <1>8, <1>9, <1>10, <1>11, <1>12, <1>13, <1>14, <1>15 DEF TabInv

LEMMA ClearWalksHolds ==
    ASSUME TabInv, ClearWalks
    PROVE  TabInv'
<1>. DEFINE unseen == {i \in DOMAIN cache : ~cache[i].seen}
            next == {i \in unseen : pins[cache[i].view] = 0}
            stop == {i \in next : \A j \in next : i <= j}
            passed == {i \in unseen : \A j \in stop : i < j}
<1>0. /\ TabViewsTypeOK /\ LoadsHaveViews /\ OpeningIsPrivate /\ EntriesAreDistinct
      /\ ReadersArePinned /\ OldViewsAreLost /\ AskedIsAwaited /\ SeenIsGoing
      /\ CachedIsOpen /\ ViewsAreAccounted
    BY DEF TabInv
<1>1. UNCHANGED <<load, pins, cleared, view, session, lost>>
    BY DEF ClearWalks
<1>2. condemned' = condemned \cup {cache[i].view : i \in passed}
    BY DEF ClearWalks
<1>3. Len(cache) \in Nat /\ DOMAIN cache = 1 .. Len(cache)
    BY <1>0, LenProperties DEF TabViewsTypeOK
<1>4. condemned' \subseteq ViewIds
    BY <1>0, <1>2, EntriesHaveViews DEF TabViewsTypeOK
<1>5. \A w : Readers(w)' = Readers(w) BY <1>1 DEF Readers, Pinned
<1>6. stop = {} => next = {}
    <2>1. next \in SUBSET Nat BY <1>3
    <2>. HIDE DEF next
    <2>. QED BY <2>1, LeastNumber
<1>7. \A i \in passed : i \notin next
    <2>1. SUFFICES ASSUME NEW i \in passed, i \in next PROVE FALSE OBVIOUS
    <2>2. next # {} BY <2>1
    <2>3. PICK j \in stop : TRUE BY <2>2, <1>6
    <2>4. i < j /\ j <= i BY <2>1, <2>3
    <2>. QED BY <2>1, <2>3, <2>4, <1>3
<1>8. \A i \in passed : pins[cache[i].view] > 0
    BY <1>0, <1>7, EntriesHaveViews DEF TabViewsTypeOK
<1>9. \A w : Going(w) => \/ w \in condemned' /\ pins[w] > 0
                         \/ w \in disposals \/ lost[w] # "no"
    BY <1>2 DEF Going
<1>10. \A i \in passed : cache[i].view \in condemned' /\ pins[cache[i].view] > 0
    BY <1>2, <1>8
<1>11. clearing.at # "no" BY DEF ClearWalks
<1>12. LoadsHaveViews' BY <1>0, <1>1 DEF LoadsHaveViews
<1>13. ReadersArePinned' BY <1>0, <1>1, <1>5 DEF ReadersArePinned
<1>14. OldViewsAreLost' BY <1>0, <1>1 DEF OldViewsAreLost
<1>15. AskedIsAwaited' BY <1>0, <1>1 DEF AskedIsAwaited
<1>16. CASE stop = {}
    <2>1. /\ cache' = <<>> /\ clearing' = [at |-> "no", victim |-> NoView]
          /\ UNCHANGED <<disposals, wiped>>
        BY <1>16 DEF ClearWalks
    <2>2. \A i \in DOMAIN cache : cache[i].seen \/ i \in passed BY <1>16
    <2>3. \A w : ~Cached(w)' BY <2>1 DEF Cached
    <2>4. TabViewsTypeOK' BY <1>0, <1>1, <1>4, <2>1 DEF TabViewsTypeOK
    <2>5. OpeningIsPrivate' BY <1>0, <1>1, <2>1, <2>3 DEF OpeningIsPrivate
    <2>6. EntriesAreDistinct' BY <1>0, <1>1, <2>1 DEF EntriesAreDistinct, Distinct
    <2>7. SeenIsGoing' BY <2>1 DEF SeenIsGoing
    <2>8. CachedIsOpen' BY <1>0, <1>1, <1>5, <2>1, <2>3 DEF CachedIsOpen
    <2>. HIDE DEF passed
    <2>9. ASSUME NEW i \in DOMAIN cache, view[cache[i].view].at = "open"
          PROVE  \/ cache[i].view \in condemned' /\ pins[cache[i].view] > 0
                 \/ cache[i].view \in disposals \/ lost[cache[i].view] # "no"
        BY <1>0, <1>9, <1>10, <1>11, <2>2, <2>9 DEF SeenIsGoing
    <2>10. ViewsAreAccounted' BY <1>0, <1>1, <1>2, <2>1, <2>9 DEF ViewsAreAccounted, Cached
    <2>. QED BY <1>12, <1>13, <1>14, <1>15, <2>4, <2>5, <2>6, <2>7, <2>8, <2>10 DEF TabInv
<1>17. CASE stop # {}
    <2>1. PICK i \in stop :
            /\ cache' = [j \in DOMAIN cache |->
                            [cache[j] EXCEPT !.seen = @ \/ j \in passed \cup stop]]
            /\ clearing' = [at |-> "waiting", victim |-> cache[i].view]
            /\ disposals' = disposals \cup {cache[i].view}
            /\ wiped' = wiped \cup {cache[i].view}
        BY <1>17 DEF ClearWalks, Dispose
    <2>2. i \in DOMAIN cache /\ cache[i].view \in ViewIds /\ \A j \in stop : j = i
        BY <1>0, <1>3, EntriesHaveViews
    <2>. HIDE DEF stop, passed
    <2>3. \A j \in DOMAIN cache :
            /\ cache'[j] \in CacheEntry /\ cache'[j].view = cache[j].view
            /\ cache'[j].seen => cache[j].seen \/ j \in passed \/ j = i
        BY <1>0, <2>1, <2>2, EntriesHaveViews DEF CacheEntry
    <2>4. DOMAIN cache' = DOMAIN cache BY <2>1
    <2>5. cache' \in Seq(CacheEntry)
        <3>1. cache' = [j \in 1 .. Len(cache) |-> cache'[j]] BY <1>3, <2>1
        <3>2. cache' \in [1 .. Len(cache) -> CacheEntry] BY <1>3, <2>3, <3>1
        <3>. QED BY <1>3, <3>2
    <2>6. TabViewsTypeOK' BY <1>0, <1>1, <1>4, <2>1, <2>2, <2>5 DEF TabViewsTypeOK
    <2>7. \A w : Cached(w)' <=> Cached(w) BY <2>3, <2>4 DEF Cached
    <2>8. OpeningIsPrivate'
        <3>1. \A m \in Loads : load[m].at = "opening" => load[m].view # cache[i].view
            BY <1>0, <2>2 DEF OpeningIsPrivate, Cached
        <3>. QED BY <1>0, <1>1, <2>1, <2>7, <3>1 DEF OpeningIsPrivate
    <2>9. EntriesAreDistinct'
        <3>1. Distinct(cache') BY <1>0, <2>3, <2>4 DEF EntriesAreDistinct, Distinct
        <3>2. \A j \in DOMAIN cache' : view[cache'[j].view].at # "unused"
            BY <1>0, <2>3, <2>4 DEF EntriesAreDistinct
        <3>3. \A w \in disposals' : view[w].at # "unused"
            BY <1>0, <2>1, <2>2 DEF EntriesAreDistinct
        <3>. QED BY <1>1, <3>1, <3>2, <3>3 DEF EntriesAreDistinct, Distinct
    <2>10. SeenIsGoing'
        <3>1. SUFFICES ASSUME NEW j \in DOMAIN cache, cache'[j].seen, view[cache[j].view].at = "open"
                       PROVE  Going(cache[j].view)'
            BY <1>1, <2>3, <2>4 DEF SeenIsGoing, Going
        <3>2. PICK w : w = cache[j].view OBVIOUS
        <3>3. Going(w) \/ j \in passed \/ j = i
            BY <1>0, <1>11, <2>3, <3>1, <3>2 DEF SeenIsGoing
        <3>4. (w \in condemned' /\ pins[w] > 0) \/ w \in disposals' \/ lost[w] # "no"
            BY <3>2, <3>3, <1>9, <1>10, <2>1
        <3>5. cache'[j].view = w BY <2>3, <3>2
        <3>. QED BY <1>1, <3>2, <3>4, <3>5 DEF Going
    <2>11. CachedIsOpen' BY <1>0, <1>1, <1>5, <2>1, <2>7 DEF CachedIsOpen
    <2>12. ViewsAreAccounted' BY <1>0, <1>1, <1>2, <2>1, <2>7 DEF ViewsAreAccounted
    <2>. QED BY <1>12, <1>13, <1>14, <1>15, <2>6, <2>8, <2>9, <2>10, <2>11, <2>12 DEF TabInv
<1>. QED BY <1>16, <1>17

\* The entries of Without(q): those of the cache, except the one of q.
LEMMA EntriesWithout ==
    ASSUME TabViewsTypeOK, Distinct(cache), NEW q
    PROVE  /\ Without(q) \in Seq(CacheEntry)
           /\ Distinct(Without(q))
           /\ \A j \in DOMAIN Without(q) : \E i \in DOMAIN cache :
                 /\ Without(q)[j] = cache[i]
                 /\ Held(q) # {} => i # IndexOfHeld(q)
           /\ \A i \in DOMAIN cache :
                 (Held(q) # {} => i # IndexOfHeld(q)) => \E j \in DOMAIN Without(q) : Without(q)[j] = cache[i]
           /\ Held(q) # {} => IndexOfHeld(q) \in Held(q) /\ IndexOfHeld(q) \in DOMAIN cache
<1>1. cache \in Seq(CacheEntry) BY DEF TabViewsTypeOK
<1>2. CASE Held(q) = {}
    BY <1>1, <1>2 DEF Without
<1>3. CASE Held(q) # {}
    <2>1. IndexOfHeld(q) \in Held(q) BY <1>3 DEF IndexOfHeld
    <2>2. IndexOfHeld(q) \in DOMAIN cache BY <2>1 DEF Held
    <2>3. Without(q) = RemoveAt(cache, IndexOfHeld(q)) BY <1>3 DEF Without
    <2>. QED BY <1>1, <1>3, <2>1, <2>2, <2>3, RemovedEntry
<1>. QED BY <1>2, <1>3

LEMMA HitHolds ==
    ASSUME TabInv, NEW l \in Loads, NEW q \in Signatures, Hit(l, q)
    PROVE  TabInv'
<1>0. /\ TabViewsTypeOK /\ LoadsHaveViews /\ OpeningIsPrivate /\ EntriesAreDistinct
      /\ ReadersArePinned /\ OldViewsAreLost /\ AskedIsAwaited /\ SeenIsGoing
      /\ CachedIsOpen /\ ViewsAreAccounted
    BY DEF TabInv
<1>1. /\ load[l].at = "idle" /\ Held(q) # {}
      /\ UNCHANGED <<condemned, clearing, cleared, view, session, disposals, lost, wiped>>
    BY DEF Hit
<1>2. PICK k : k = IndexOfHeld(q) OBVIOUS
<1>3. PICK v : v = cache[k].view OBVIOUS
<1>4. PICK s : s = Without(q) OBVIOUS
<1>5. /\ cache' = Append(s, Entry(q, v))
      /\ pins' = [pins EXCEPT ![v] = @ + 1]
      /\ load' = [load EXCEPT ![l] = [at |-> "reading", query |-> q, view |-> v,
                                      victim |-> NoView, session |-> session]]
    BY <1>2, <1>3, <1>4 DEF Hit
<1>6. /\ s \in Seq(CacheEntry) /\ Distinct(s)
      /\ \A j \in DOMAIN s : \E i \in DOMAIN cache : s[j] = cache[i] /\ i # k
      /\ \A i \in DOMAIN cache : i # k => \E j \in DOMAIN s : s[j] = cache[i]
      /\ k \in DOMAIN cache
    BY <1>0, <1>1, <1>2, <1>4, EntriesWithout DEF EntriesAreDistinct
<1>7. v \in ViewIds BY <1>0, <1>3, <1>6, EntriesHaveViews
<1>8. /\ Entry(q, v) \in CacheEntry /\ Entry(q, v).view = v /\ ~Entry(q, v).seen
    BY <1>7 DEF Entry, CacheEntry
<1>9. \A j \in DOMAIN s : s[j].view # v
    BY <1>0, <1>3, <1>6 DEF EntriesAreDistinct, Distinct
<1>10. PICK e : e = Entry(q, v) OBVIOUS
<1>11. /\ cache' \in Seq(CacheEntry) /\ Distinct(cache')
       /\ \A j \in DOMAIN cache' : cache'[j] = e \/ \E i \in DOMAIN s : cache'[j] = s[i]
       /\ \A i \in DOMAIN s : \E j \in DOMAIN cache' : cache'[j] = s[i]
       /\ \E j \in DOMAIN cache' : cache'[j] = e
    <2>1. e \in CacheEntry /\ \A i \in DOMAIN s : s[i].view # e.view BY <1>8, <1>9, <1>10
    <2>2. PICK t : t = Append(s, e) OBVIOUS
    <2>3. /\ t \in Seq(CacheEntry) /\ Distinct(t)
          /\ \A j \in DOMAIN t : t[j] = e \/ \E i \in DOMAIN s : t[j] = s[i]
          /\ \A i \in DOMAIN s : \E j \in DOMAIN t : t[j] = s[i]
          /\ \E j \in DOMAIN t : t[j] = e
        <3>1. s \in Seq(CacheEntry) /\ Distinct(s) BY <1>6
        <3>2. Extends(t, s, e) BY <3>1, <2>1, <2>2, AppendedEntry
        <3>. QED BY <3>2 DEF Extends
    <2>4. cache' = t BY <1>5, <1>10, <2>2
    <2>. QED BY <2>3, <2>4 DEF Distinct
<1>12. \A j \in DOMAIN cache' : cache'[j] = e \/ \E i \in DOMAIN cache : cache'[j] = cache[i]
    BY <1>6, <1>11
<1>13. e.view = v /\ ~e.seen BY <1>8, <1>10
<1>14. \A w : Cached(w)' <=> Cached(w)
    <2>1. Cached(v) /\ Cached(v)' BY <1>3, <1>6, <1>11, <1>13 DEF Cached
    <2>2. ASSUME NEW w, w # v PROVE Cached(w)' <=> Cached(w)
        <3>1. Cached(w)' => Cached(w) BY <1>12, <1>13, <2>2 DEF Cached
        <3>2. Cached(w) => Cached(w)' BY <1>3, <1>6, <1>11, <2>2 DEF Cached
        <3>. QED BY <3>1, <3>2
    <2>. QED BY <2>1, <2>2
<1>15. /\ load' \in [Loads -> Load] /\ load'[l].at = "reading" /\ load'[l].view = v
       /\ \A m \in Loads \ {l} : load'[m] = load[m]
    BY <1>0, <1>5, <1>7 DEF TabViewsTypeOK, Load, LoadAt
<1>16. /\ pins \in [ViewIds -> Nat] /\ pins' \in [ViewIds -> Nat] /\ pins'[v] = pins[v] + 1
       /\ \A w \in ViewIds \ {v} : pins'[w] = pins[w]
    BY <1>0, <1>5, <1>7 DEF TabViewsTypeOK
<1>17. /\ \A w : Readers(w)' \subseteq Readers(w) \cup {l}
       /\ \A w : w # v => Readers(w)' \subseteq Readers(w)
    BY <1>1, <1>15 DEF Readers, Pinned
<1>18. TabViewsTypeOK' BY <1>0, <1>1, <1>11, <1>15, <1>16 DEF TabViewsTypeOK
<1>19. Cached(v) /\ view[v].at # "unused"
    BY <1>0, <1>3, <1>6 DEF Cached, EntriesAreDistinct
<1>20. LoadsHaveViews' BY <1>0, <1>1, <1>7, <1>15, <1>19 DEF LoadsHaveViews, InUse
<1>21. OpeningIsPrivate'
    BY <1>0, <1>1, <1>14, <1>15, <1>19 DEF OpeningIsPrivate, InUse
<1>22. EntriesAreDistinct'
    BY <1>0, <1>1, <1>11, <1>12, <1>13, <1>19 DEF EntriesAreDistinct
<1>23. ReadersArePinned'
    <2>1. ASSUME NEW w \in ViewIds, w # v PROVE Cardinality(Readers(w)') <= pins'[w]
        <3>1. Cardinality(Readers(w)') <= pins[w]
            BY <1>0, <1>16, <1>17, <2>1, NoReaderMore DEF ReadersArePinned
        <3>. QED BY <1>16, <2>1, <3>1
    <2>2. Cardinality(Readers(v)') <= pins[v] + 1
        BY <1>0, <1>7, <1>16, <1>17, OneReaderMore DEF ReadersArePinned
    <2>. QED BY <1>16, <2>1, <2>2 DEF ReadersArePinned
<1>24. OldViewsAreLost' BY <1>0, <1>1 DEF OldViewsAreLost
<1>25. AskedIsAwaited' BY <1>0, <1>1, <1>15 DEF AskedIsAwaited
<1>26. \A w \in ViewIds : Going(w) => Going(w)'
    BY <1>1, <1>16 DEF Going
<1>27. SeenIsGoing'
    <2>1. SUFFICES ASSUME clearing.at # "no", NEW j \in DOMAIN cache', cache'[j].seen,
                          view[cache'[j].view].at = "open",
                          NEW w, w = cache'[j].view
                   PROVE  Going(w)'
        BY <1>1 DEF SeenIsGoing, Going
    <2>2. PICK i \in DOMAIN cache : cache'[j] = cache[i] BY <1>12, <1>13, <2>1
    <2>3. w \in ViewIds /\ Going(w)
        BY <1>0, <2>1, <2>2, EntriesHaveViews DEF SeenIsGoing
    <2>. QED BY <2>3, <1>26
<1>28. CachedIsOpen' BY <1>0, <1>1, <1>14, <1>17, <1>19 DEF CachedIsOpen
<1>29. ViewsAreAccounted' BY <1>0, <1>1, <1>14, <1>15, <1>16 DEF ViewsAreAccounted
<1>. QED BY <1>18, <1>20, <1>21, <1>22, <1>23, <1>24, <1>25, <1>27, <1>28, <1>29 DEF TabInv

\* What EvictOrRead leaves in the cache, and whom it disposes.
Fitted(es, uses) ==
    /\ cache' \in Seq(CacheEntry) /\ Distinct(cache')
    /\ \A j \in DOMAIN cache' : \E i \in DOMAIN es : cache'[j] = es[i]
    /\ \/ /\ disposals' = disposals
          /\ \A i \in DOMAIN es : \E j \in DOMAIN cache' : cache'[j] = es[i]
       \/ \E i \in DOMAIN es :
             /\ uses[es[i].view] = 0
             /\ disposals' = disposals \cup {es[i].view}
             /\ \A k \in DOMAIN es : k # i =>
                   \E j \in DOMAIN cache' : cache'[j] = es[k]
             /\ \A j \in DOMAIN cache' : cache'[j].view # es[i].view

LEMMA EvictOrReadFits ==
    ASSUME TabViewsTypeOK, NEW l \in Loads, NEW q \in Signatures, NEW v \in ViewIds,
           NEW es \in Seq(CacheEntry), Distinct(es),
           NEW uses \in [ViewIds -> Nat],
           EvictOrRead(l, q, v, es, uses)
    PROVE  /\ Fitted(es, uses)
           /\ load' \in [Loads -> Load] /\ load'[l].at \in {"evicting", "reading"}
           /\ load'[l].view = v /\ \A m \in Loads \ {l} : load'[m] = load[m]
<1>. DEFINE out == IF Len(es) > CacheMax THEN Victims(es, q, uses) ELSE {}
<1>1. session \in Sessions /\ load \in [Loads -> Load] BY DEF TabViewsTypeOK
<1>2. CASE out = {}
    <2>1. /\ cache' = es /\ disposals' = disposals
          /\ load' = [load EXCEPT ![l] = [at |-> "reading", query |-> q, view |-> v,
                                          victim |-> NoView, session |-> session]]
        BY <1>2 DEF EvictOrRead
    <2>2. load' \in [Loads -> Load] BY <1>1, <2>1 DEF Load, LoadAt
    <2>. QED BY <1>1, <2>1, <2>2 DEF Fitted, Distinct
<1>3. CASE out # {}
    <2>1. PICK i \in out :
            /\ cache' = RemoveAt(es, i)
            /\ load' = [load EXCEPT ![l] = [at |-> "evicting", query |-> q, view |-> v,
                                            victim |-> es[i].view, session |-> session]]
            /\ disposals' = disposals \cup {es[i].view}
        BY <1>3 DEF EvictOrRead, Dispose
    <2>2. i \in DOMAIN es /\ uses[es[i].view] = 0 BY <1>3 DEF Victims
    <2>3. es[i] \in CacheEntry BY <2>2, LenProperties
    <2>4. load' \in [Loads -> Load] BY <1>1, <2>1, <2>3 DEF Load, LoadAt, CacheEntry
    <2>5. /\ cache' \in Seq(CacheEntry) /\ Distinct(cache')
          /\ \A j \in DOMAIN cache' : \E k \in DOMAIN es : k # i /\ cache'[j] = es[k]
          /\ \A k \in DOMAIN es : k # i => \E j \in DOMAIN cache' : cache'[j] = es[k]
        BY <2>1, <2>2, RemovedEntry
    <2>6. \A j \in DOMAIN cache' : cache'[j].view # es[i].view
        BY <2>2, <2>5 DEF Distinct
    <2>. QED BY <1>1, <2>1, <2>2, <2>4, <2>5, <2>6 DEF Fitted
<1>. QED BY <1>2, <1>3

LEMMA EvictedHolds ==
    ASSUME TabInv, NEW l \in Loads, Evicted(l)
    PROVE  TabInv'
<1>0. /\ TabViewsTypeOK /\ LoadsHaveViews /\ OpeningIsPrivate /\ EntriesAreDistinct
      /\ ReadersArePinned /\ OldViewsAreLost /\ AskedIsAwaited /\ SeenIsGoing
      /\ CachedIsOpen /\ ViewsAreAccounted
    BY DEF TabInv
<1>1. /\ load[l].at = "evicting"
      /\ UNCHANGED <<pins, condemned, clearing, cleared, view, session, lost, wiped>>
    BY DEF Evicted
<1>2. PICK v : v = load[l].view OBVIOUS
<1>3. v \in ViewIds /\ load[l].query \in Signatures
    BY <1>0, <1>1, <1>2 DEF LoadsHaveViews, InUse, TabViewsTypeOK, Load
<1>4. /\ cache \in Seq(CacheEntry) /\ Distinct(cache) /\ pins \in [ViewIds -> Nat]
      /\ EvictOrRead(l, load[l].query, v, cache, pins)
    BY <1>0, <1>2 DEF TabViewsTypeOK, EntriesAreDistinct, Evicted
<1>5. /\ Fitted(cache, pins)
      /\ load' \in [Loads -> Load] /\ load'[l].at \in {"evicting", "reading"}
      /\ load'[l].view = v /\ \A m \in Loads \ {l} : load'[m] = load[m]
    BY <1>0, <1>3, <1>4, EvictOrReadFits
<1>6. /\ cache' \in Seq(CacheEntry) /\ Distinct(cache')
      /\ \A j \in DOMAIN cache' : \E i \in DOMAIN cache : cache'[j] = cache[i]
    BY <1>5 DEF Fitted
<1>7. \A w : Readers(w)' = Readers(w)
    BY <1>1, <1>2, <1>5 DEF Readers, Pinned
<1>7a. \A w : (Cached(w) <=> w \in Views(cache)) /\ (Cached(w)' <=> w \in Views(cache'))
    BY DEF Cached, Views
<1>8. Views(cache') \subseteq Views(cache) BY <1>6 DEF Views
<1>9. /\ disposals \subseteq disposals'
      /\ \A w \in disposals' :
            \/ w \in disposals
            \/ w \in Views(cache) /\ w \notin Views(cache') /\ pins[w] = 0 /\ w \in ViewIds
      /\ Views(cache) \subseteq Views(cache') \cup disposals'
    <2>1. CASE /\ disposals' = disposals
               /\ \A i \in DOMAIN cache : \E j \in DOMAIN cache' : cache'[j] = cache[i]
        BY <2>1 DEF Views
    <2>2. ASSUME NEW i \in DOMAIN cache, NEW x, x = cache[i].view,
                 pins[x] = 0, disposals' = disposals \cup {x},
                 \A k \in DOMAIN cache : k # i => \E j \in DOMAIN cache' : cache'[j] = cache[k],
                 \A j \in DOMAIN cache' : cache'[j].view # x
          PROVE  <1>9
        <3>1. x \in Views(cache) /\ x \in ViewIds BY <1>0, <2>2, EntriesHaveViews DEF Views
        <3>2. x \notin Views(cache') BY <2>2 DEF Views
        <3>3. Views(cache) \subseteq Views(cache') \cup {x} BY <2>2 DEF Views
        <3>. QED BY <2>2, <3>1, <3>2, <3>3
    <2>. QED BY <1>5, <2>1, <2>2 DEF Fitted
<1>10. TabViewsTypeOK'
    <2>1. disposals' \subseteq ViewIds BY <1>0, <1>9 DEF TabViewsTypeOK
    <2>. QED BY <1>0, <1>1, <1>5, <1>6, <2>1 DEF TabViewsTypeOK
<1>11. LoadsHaveViews' BY <1>0, <1>1, <1>2, <1>3, <1>5 DEF LoadsHaveViews, InUse
<1>12. OpeningIsPrivate'
    BY <1>0, <1>1, <1>2, <1>5, <1>7a, <1>8, <1>9 DEF OpeningIsPrivate, InUse
<1>13. EntriesAreDistinct'
    <2>1. \A w \in Views(cache) : view[w].at # "unused" BY <1>0 DEF EntriesAreDistinct, Views
    <2>2. \A w \in disposals' : view[w].at # "unused"
        BY <1>0, <1>9, <2>1 DEF EntriesAreDistinct
    <2>3. \A j \in DOMAIN cache' : view[cache'[j].view].at # "unused"
        BY <1>0, <1>6 DEF EntriesAreDistinct
    <2>. QED BY <1>1, <1>6, <2>2, <2>3 DEF EntriesAreDistinct, Distinct
<1>14. ReadersArePinned' BY <1>0, <1>1, <1>7 DEF ReadersArePinned
<1>15. OldViewsAreLost' BY <1>0, <1>1 DEF OldViewsAreLost
<1>16. AskedIsAwaited' BY <1>0, <1>1, <1>5 DEF AskedIsAwaited
<1>17. SeenIsGoing' BY <1>0, <1>1, <1>6, <1>9 DEF SeenIsGoing, Going
<1>18. \A w \in ViewIds : pins[w] = 0 => Readers(w) = {}
    BY <1>0, NoReaders DEF ReadersArePinned
<1>19. CachedIsOpen'
    BY <1>0, <1>1, <1>7, <1>7a, <1>8, <1>9, <1>18 DEF CachedIsOpen
<1>20. ViewsAreAccounted' BY <1>0, <1>1, <1>5, <1>7a, <1>9 DEF ViewsAreAccounted
<1>. QED BY <1>10, <1>11, <1>12, <1>13, <1>14, <1>15, <1>16, <1>17, <1>19, <1>20 DEF TabInv

LEMMA OpenedHolds ==
    ASSUME TabInv, NEW l \in Loads, Opened(l)
    PROVE  TabInv'
<1>0. /\ TabViewsTypeOK /\ LoadsHaveViews /\ OpeningIsPrivate /\ EntriesAreDistinct
      /\ ReadersArePinned /\ OldViewsAreLost /\ AskedIsAwaited /\ SeenIsGoing
      /\ CachedIsOpen /\ ViewsAreAccounted
    BY DEF TabInv
<1>1. /\ load[l].at = "opening"
      /\ UNCHANGED <<condemned, clearing, cleared, view, session, wiped>>
    BY DEF Opened
<1>2. PICK v : v = load[l].view OBVIOUS
<1>3. PICK q : q = load[l].query OBVIOUS
<1>4. v \in ViewIds /\ q \in Signatures
    BY <1>0, <1>1, <1>2, <1>3 DEF LoadsHaveViews, InUse, TabViewsTypeOK, Load
<1>5. PICK k : k = IndexOfHeld(q) OBVIOUS
<1>6. PICK s : s = Without(q) OBVIOUS
<1>7. PICK e : e = Entry(q, v) OBVIOUS
<1>8. PICK t : t = Append(s, e) OBVIOUS
<1>9. /\ view[v].at = "open"
      /\ pins' = [pins EXCEPT ![v] = @ + 1]
      /\ EvictOrRead(l, q, v, t, pins')
      /\ lost' = [w \in ViewIds |->
                    IF \E i \in Held(q) : cache[i].view = w THEN "twin" ELSE lost[w]]
    BY <1>2, <1>3, <1>6, <1>7, <1>8 DEF Opened
<1>10. /\ s \in Seq(CacheEntry) /\ Distinct(s)
       /\ \A j \in DOMAIN s : \E i \in DOMAIN cache : s[j] = cache[i]
       /\ \A i \in DOMAIN cache :
             (Held(q) # {} => i # k) => \E j \in DOMAIN s : s[j] = cache[i]
       /\ Held(q) # {} => k \in Held(q)
    BY <1>0, <1>5, <1>6, EntriesWithout DEF EntriesAreDistinct
<1>11. e \in CacheEntry /\ e.view = v /\ ~e.seen
    BY <1>4, <1>7 DEF Entry, CacheEntry
<1>12. v \notin disposals /\ ~Cached(v)
       /\ \A m \in Loads \ {l} : load[m].at \in InUse => load[m].view # v
    BY <1>0, <1>1, <1>2 DEF OpeningIsPrivate
<1>13. \A j \in DOMAIN s : s[j].view # e.view BY <1>10, <1>11, <1>12 DEF Cached
<1>14. /\ t \in Seq(CacheEntry) /\ Distinct(t)
       /\ \A j \in DOMAIN t : t[j] = e \/ \E i \in DOMAIN s : t[j] = s[i]
       /\ \A i \in DOMAIN s : \E j \in DOMAIN t : t[j] = s[i]
       /\ \E j \in DOMAIN t : t[j] = e
    <2>1. s \in Seq(CacheEntry) /\ Distinct(s) BY <1>10
    <2>2. Extends(t, s, e) BY <2>1, <1>8, <1>11, <1>13, AppendedEntry
    <2>. QED BY <2>2 DEF Extends
<1>15. /\ pins \in [ViewIds -> Nat] /\ pins' \in [ViewIds -> Nat] /\ pins'[v] = pins[v] + 1
       /\ \A w \in ViewIds \ {v} : pins'[w] = pins[w]
    BY <1>0, <1>4, <1>9 DEF TabViewsTypeOK
<1>16. PICK uses \in [ViewIds -> Nat] : uses = pins' BY <1>15
<1>17. /\ Fitted(t, uses)
       /\ load' \in [Loads -> Load] /\ load'[l].at \in {"evicting", "reading"}
       /\ load'[l].view = v /\ \A m \in Loads \ {l} : load'[m] = load[m]
    <2>1. EvictOrRead(l, q, v, t, uses) BY <1>9, <1>16
    <2>. QED BY <1>0, <1>4, <1>14, <1>16, <2>1, EvictOrReadFits
<1>18. /\ cache' \in Seq(CacheEntry) /\ Distinct(cache')
       /\ \A j \in DOMAIN cache' : \E i \in DOMAIN t : cache'[j] = t[i]
    BY <1>17 DEF Fitted
<1>19. \A j \in DOMAIN t : t[j] = e \/ \E i \in DOMAIN cache : t[j] = cache[i]
    BY <1>10, <1>14
<1>20. \A j \in DOMAIN cache' : cache'[j] = e \/ \E i \in DOMAIN cache : cache'[j] = cache[i]
    BY <1>18, <1>19
<1>20a. \A w : (Cached(w) <=> w \in Views(cache)) /\ (Cached(w)' <=> w \in Views(cache'))
    BY DEF Cached, Views
<1>21. Views(cache') \subseteq Views(cache) \cup {v}
    BY <1>11, <1>20 DEF Views
<1>22. /\ disposals \subseteq disposals'
       /\ \A w \in disposals' :
              \/ w \in disposals
              \/ /\ w \in Views(cache) /\ w # v /\ w \notin Views(cache')
                 /\ pins'[w] = 0 /\ w \in ViewIds
    <2>1. v \in ViewIds /\ uses[v] # 0
        <3>1. pins[v] \in Nat /\ uses[v] = pins[v] + 1 BY <1>4, <1>15, <1>16
        <3>. QED BY <1>4, <3>1
    <2>2. CASE disposals' = disposals BY <2>2
    <2>3. ASSUME NEW i \in DOMAIN t, NEW x, x = t[i].view,
                 uses[x] = 0, disposals' = disposals \cup {x},
                 \A j \in DOMAIN cache' : cache'[j].view # x
          PROVE  <1>22
        <3>1. x # v BY <2>1, <2>3
        <3>2. t[i] # e BY <1>11, <2>3, <3>1
        <3>3. x \in Views(cache) /\ x \in ViewIds
            BY <1>0, <1>19, <2>3, <3>2, EntriesHaveViews DEF Views
        <3>4. x \notin Views(cache') BY <2>3 DEF Views
        <3>. QED BY <1>16, <2>3, <3>1, <3>3, <3>4
    <2>. QED BY <1>17, <2>2, <2>3 DEF Fitted
<1>23. v \in Views(cache')
    <2>1. PICK m \in DOMAIN t : t[m] = e BY <1>14
    <2>2. \E j \in DOMAIN cache' : cache'[j] = t[m]
        <3>1. pins[v] \in Nat /\ uses[v] = pins[v] + 1 BY <1>4, <1>15, <1>16
        <3>2. uses[t[m].view] # 0 BY <1>11, <2>1, <3>1
        <3>. QED BY <1>17, <2>1, <3>2 DEF Fitted
    <2>. QED BY <1>11, <2>1, <2>2 DEF Views
<1>24. /\ lost' \in [ViewIds -> Causes]
       /\ \A w \in ViewIds : lost[w] # "no" => lost'[w] # "no"
       /\ \A i \in Held(q) : cache[i].view \in ViewIds => lost'[cache[i].view] # "no"
    BY <1>0, <1>9 DEF TabViewsTypeOK, Causes
<1>25. \A w \in Views(cache) : w \in Views(cache') \/ w \in disposals' \/ lost'[w] # "no"
    <2>1. SUFFICES ASSUME NEW i \in DOMAIN cache, NEW w, cache[i].view = w, lost'[w] = "no"
                   PROVE  w \in Views(cache') \/ w \in disposals'
        BY DEF Views
    <2>. w \in ViewIds BY <1>0, <2>1, EntriesHaveViews
    <2>2. Held(q) # {} => i # k BY <1>10, <1>24, <2>1
    <2>3. PICK j \in DOMAIN s : s[j] = cache[i] BY <1>10, <2>2
    <2>4. PICK m \in DOMAIN t : t[m] = cache[i] BY <1>14, <2>3
    <2>5. CASE \E j2 \in DOMAIN cache' : cache'[j2] = t[m] BY <2>1, <2>4, <2>5 DEF Views
    <2>6. CASE ~\E j2 \in DOMAIN cache' : cache'[j2] = t[m]
        BY <1>17, <2>1, <2>4, <2>6 DEF Fitted
    <2>. QED BY <2>5, <2>6
<1>26. /\ \A w : Readers(w)' \subseteq Readers(w) \cup {l}
       /\ \A w : w # v => Readers(w)' \subseteq Readers(w)
    BY <1>1, <1>17 DEF Readers, Pinned
<1>27. TabViewsTypeOK'
    <2>1. disposals' \subseteq ViewIds BY <1>0, <1>22 DEF TabViewsTypeOK
    <2>. QED BY <1>0, <1>1, <1>15, <1>17, <1>18, <1>24, <2>1 DEF TabViewsTypeOK
<1>28. LoadsHaveViews' BY <1>0, <1>1, <1>4, <1>9, <1>17 DEF LoadsHaveViews, InUse
<1>29. OpeningIsPrivate'
    BY <1>0, <1>1, <1>12, <1>17, <1>20a, <1>21, <1>22 DEF OpeningIsPrivate, InUse
<1>30. EntriesAreDistinct'
    <2>1. \A w \in Views(cache) : view[w].at # "unused" BY <1>0 DEF EntriesAreDistinct, Views
    <2>2. \A w \in disposals' : view[w].at # "unused"
        BY <1>0, <1>22, <2>1 DEF EntriesAreDistinct
    <2>3. \A j \in DOMAIN cache' : view[cache'[j].view].at # "unused"
        BY <1>0, <1>9, <1>11, <1>20 DEF EntriesAreDistinct
    <2>. QED BY <1>1, <1>18, <2>2, <2>3 DEF EntriesAreDistinct, Distinct
<1>31. ReadersArePinned'
    <2>1. ASSUME NEW w \in ViewIds, w # v PROVE Cardinality(Readers(w)') <= pins'[w]
        <3>1. Cardinality(Readers(w)') <= pins[w]
            BY <1>0, <1>15, <1>26, <2>1, NoReaderMore DEF ReadersArePinned
        <3>. QED BY <1>15, <2>1, <3>1
    <2>2. Cardinality(Readers(v)') <= pins[v] + 1
        BY <1>0, <1>4, <1>15, <1>26, OneReaderMore DEF ReadersArePinned
    <2>. QED BY <1>15, <2>1, <2>2 DEF ReadersArePinned
<1>32. OldViewsAreLost' BY <1>0, <1>1, <1>24 DEF OldViewsAreLost
<1>33. AskedIsAwaited'
    BY <1>0, <1>1, <1>2, <1>9, <1>17, <1>24 DEF AskedIsAwaited
<1>34. \A w \in ViewIds : Going(w) => Going(w)'
    BY <1>1, <1>15, <1>22, <1>24 DEF Going
<1>35. SeenIsGoing'
    <2>1. SUFFICES ASSUME clearing.at # "no", NEW j \in DOMAIN cache', cache'[j].seen,
                          view[cache'[j].view].at = "open",
                          NEW w, w = cache'[j].view
                   PROVE  Going(w)'
        BY <1>1 DEF SeenIsGoing, Going
    <2>2. PICK i \in DOMAIN cache : cache'[j] = cache[i] BY <1>11, <1>20, <2>1
    <2>3. w \in ViewIds /\ Going(w)
        BY <1>0, <2>1, <2>2, EntriesHaveViews DEF SeenIsGoing
    <2>. QED BY <2>3, <1>34
<1>36. \A w \in ViewIds : w # v /\ pins'[w] = 0 => Readers(w) = {}
    BY <1>0, <1>15, NoReaders DEF ReadersArePinned
<1>37. CachedIsOpen'
    BY <1>0, <1>1, <1>9, <1>12, <1>20a, <1>21, <1>22, <1>26, <1>36 DEF CachedIsOpen
<1>38. ViewsAreAccounted'
    <2>1. SUFFICES ASSUME NEW w \in ViewIds, view[w].at = "open", lost'[w] = "no"
                   PROVE  \/ \E m \in Loads : load'[m].at = "opening" /\ load'[m].view = w
                          \/ Cached(w)'
                          \/ w \in condemned /\ pins'[w] > 0
                          \/ w \in disposals'
        BY <1>1 DEF ViewsAreAccounted
    <2>2. lost[w] = "no" BY <1>24, <2>1
    <2>3. CASE \E m \in Loads : load[m].at = "opening" /\ load[m].view = w
        BY <1>2, <1>17, <1>20a, <1>23, <2>3
    <2>4. CASE w \in condemned /\ pins[w] > 0
        <3>1. pins[w] \in Nat /\ pins'[w] \in Nat /\ pins'[w] >= pins[w] BY <1>15
        <3>. QED BY <2>4, <3>1
    <2>. QED BY <1>0, <1>20a, <1>22, <1>25, <2>1, <2>2, <2>3, <2>4 DEF ViewsAreAccounted
<1>. QED BY <1>27, <1>28, <1>29, <1>30, <1>31, <1>32, <1>33, <1>35, <1>37, <1>38 DEF TabInv

LEMMA StutterHolds ==
    ASSUME TabInv, UNCHANGED tabViewsVars
    PROVE  TabInv'
<1>1. UNCHANGED <<load, cache, pins, condemned, clearing, cleared, view, session,
                  disposals, lost, wiped>>
    BY DEF tabViewsVars
<1>2. \A w : Readers(w)' = Readers(w) /\ (Cached(w)' <=> Cached(w)) /\ (Going(w)' <=> Going(w))
    BY <1>1 DEF Readers, Pinned, Cached, Going
<1>3. TabViewsTypeOK' /\ LoadsHaveViews' /\ OpeningIsPrivate'
    BY <1>1, <1>2 DEF TabInv, TabViewsTypeOK, LoadsHaveViews, OpeningIsPrivate
<1>4. EntriesAreDistinct' /\ ReadersArePinned' /\ OldViewsAreLost' /\ AskedIsAwaited'
    BY <1>1, <1>2 DEF TabInv, EntriesAreDistinct, Distinct, ReadersArePinned, OldViewsAreLost,
                      AskedIsAwaited
<1>5. SeenIsGoing' /\ CachedIsOpen' /\ ViewsAreAccounted'
    BY <1>1, <1>2 DEF TabInv, SeenIsGoing, Going, CachedIsOpen, ViewsAreAccounted
<1>. QED BY <1>3, <1>4, <1>5 DEF TabInv

\* The views of a tab keep their account, whatever the loads, clears and drops.
THEOREM TabInvariance == TabViewsSpec => []TabInv
<1>1. TabInv /\ [TabViewsNext]_tabViewsVars => TabInv'
    <2>. SUFFICES ASSUME TabInv, [TabViewsNext]_tabViewsVars PROVE TabInv' OBVIOUS
    <2>1. ASSUME NEW l \in Loads, NEW q \in Signatures, Hit(l, q) \/ Miss(l, q) PROVE TabInv'
        BY <2>1, HitHolds, MissHolds
    <2>2. ASSUME NEW l \in Loads, Opened(l) \/ OpenFailed(l) \/ Evicted(l) \/ Unpinned(l) PROVE TabInv'
        BY <2>2, OpenedHolds, OpenFailedHolds, EvictedHolds, UnpinnedHolds
    <2>3. ASSUME NEW l \in Loads, ReadReply(l) PROVE TabInv'
        <3>1. load[l].at = "reading" /\ Unpin(l)
              /\ UNCHANGED <<cache, clearing, cleared, view, session, lost>>
            BY <2>3 DEF ReadReply
        <3>. QED BY <3>1, UnpinHolds
    <2>4. ASSUME NEW l \in Loads, LoadTimeout(l) PROVE TabInv'
        <3>1. CASE load[l].at = "opening"
            <4>1. /\ load' = [load EXCEPT ![l] = Idle]
                  /\ lost' = [lost EXCEPT ![load[l].view] = IF @ = "no" THEN "late" ELSE @]
                  /\ UNCHANGED <<pins, condemned, disposals, wiped, cache, clearing, cleared,
                                 view, session>>
                BY <2>4, <3>1 DEF LoadTimeout
            <4>. QED BY <3>1, <4>1, OpenTimeoutHolds
        <3>2. CASE load[l].at = "reading"
            <4>1. Unpin(l) /\ UNCHANGED <<cache, clearing, cleared, view, session, lost>>
                BY <2>4, <3>2 DEF LoadTimeout
            <4>. QED BY <3>2, <4>1, UnpinHolds
        <3>3. CASE load[l].at \in {"evicting", "unpinning"}
            <4>1. /\ load' = [load EXCEPT ![l] = Idle]
                  /\ UNCHANGED <<pins, condemned, disposals, lost, wiped, cache, clearing, cleared,
                                 view, session>>
                BY <2>4, <3>3 DEF LoadTimeout
            <4>. QED BY <3>3, <4>1, LeaveHolds
        <3>. QED BY <2>4, <3>1, <3>2, <3>3 DEF LoadTimeout
    <2>5. CASE BeginClear \/ ClearWalks \/ ClearResumes \/ ClearTimeout \/ Drop
        BY <2>5, BeginClearHolds, ClearWalksHolds, ClearResumesHolds, ClearTimeoutHolds, DropHolds
    <2>6. ASSUME NEW v \in ViewIds, HubOpens(v) \/ HubRefuses(v) PROVE TabInv'
        BY <2>6, HubOpensHolds, HubRefusesHolds
    <2>7. ASSUME NEW v \in disposals, HubDisposes(v) PROVE TabInv'
        BY <2>7, HubDisposesHolds
    <2>8. CASE UNCHANGED tabViewsVars BY <2>8, StutterHolds
    <2>. QED BY <2>1, <2>2, <2>3, <2>4, <2>5, <2>6, <2>7, <2>8 DEF TabViewsNext
<1>. QED BY <1>1, TabInitHolds, PTL DEF TabViewsSpec

\* ViewsAreAccounted: no open view is beyond reach but by a known way.
THEOREM NoViewIsOrphaned == TabViewsSpec => []ViewsAreAccounted
<1>1. TabInv => ViewsAreAccounted BY DEF TabInv
<1>. QED BY <1>1, TabInvariance, PTL

\* ReadersKeepTheirView: who reads a view keeps it.
THEOREM ViewsOutliveReaders == TabViewsSpec => []ReadersKeepTheirView
<1>1. TabInv => ReadersKeepTheirView
    <2>1. SUFFICES ASSUME TabInv, NEW l \in Loads, NEW v, v = load[l].view, Pinned(l),
                          view[v].session = session, v \notin wiped
                   PROVE  view[v].at = "open" /\ v \notin disposals
        BY DEF ReadersKeepTheirView
    <2>2. v \in ViewIds BY <2>1 DEF TabInv, LoadsHaveViews, InUse, Pinned
    <2>3. l \in Readers(v) BY <2>1 DEF Readers
    <2>. QED BY <2>1, <2>2, <2>3 DEF TabInv, CachedIsOpen
<1>. QED BY <1>1, TabInvariance, PTL

------------------------------------------------------------------------------
(* The bundle store, with imports and exports that run at the same time.    *)

\* What is exported, and what a call holds between its reads and its writes.
Bundles == [version : Nat, sum : Contents, content : Contents]
Exporting == [op : {"export"}, store : Stores, read : Contents, next : Nat \ {0}]
Importing == [op : {"import"}, store : Stores, bundle : {b \in Bundles : VerifyBundle(b)},
              mode : Modes, next : Nat]

\* A store that holds what it imported, whole, has the checksum of it.
StoreInv ==
    /\ content \in [Stores -> Contents]
    /\ meta \in [Stores -> [version : Nat, sum : Contents \cup {NoSum}]]
    /\ whole \in [Stores -> BOOLEAN]
    /\ mail \subseteq Bundles
    /\ step \in [ImportCalls -> {NotCalled} \cup Exporting \cup Importing]
    /\ \A s \in Stores : whole[s] => meta[s].sum = content[s]

LEMMA StoreInitHolds == ConfigInit => StoreInv
<1>. SUFFICES ASSUME ConfigInit PROVE StoreInv OBVIOUS
<1>1. [k \in CollectionNames |-> NoItem] \in Contents BY DEF Contents
<1>2. [version |-> 0, sum |-> NoSum] \in [version : Nat, sum : Contents \cup {NoSum}] OBVIOUS
<1>. QED BY <1>1, <1>2 DEF ConfigInit, StoreInv

\* What a transaction leaves has the collections of a store.
LEMMA WrittenIsContent ==
    ASSUME NEW cs \in Contents, NEW b \in Bundles, NEW mode \in Modes
    PROVE  /\ Written(cs, b, mode) \in Contents
           /\ mode = "replace-all" => Written(cs, b, mode) = b.content
<1>1. b.content \in Contents BY DEF Bundles
<1>2. CASE mode = "replace-all"
    <2>1. Written(cs, b, mode) = [k \in CollectionNames |-> b.content[k]]
        BY <1>2 DEF Written
    <2>2. b.content = [k \in CollectionNames |-> b.content[k]] BY <1>1 DEF Contents
    <2>. QED BY <1>1, <2>1, <2>2
<1>3. CASE mode # "replace-all"
    <2>1. ASSUME NEW k \in CollectionNames
          PROVE  (CASE mode = "replace-all"                          -> b.content[k]
                    [] mode # "replace-all" /\ b.content[k] = NoItem -> cs[k]
                    [] mode = "merge-local" /\ cs[k] # NoItem        -> cs[k]
                    [] OTHER                                         -> b.content[k])
                  \in Items \cup {NoItem}
        <3>1. cs[k] \in Items \cup {NoItem} /\ b.content[k] \in Items \cup {NoItem}
            BY <1>1 DEF Contents
        <3>. QED BY <1>3, <3>1
    <2>. QED BY <1>3, <2>1 DEF Written, Contents
<1>. QED BY <1>2, <1>3

\* Every step keeps the checksum of a store that is whole.
LEMMA StoreStep == StoreInv /\ [ConfigNext]_configVars => StoreInv'
<1>. SUFFICES ASSUME StoreInv, [ConfigNext]_configVars PROVE StoreInv' OBVIOUS
<1>0. /\ content \in [Stores -> Contents]
      /\ meta \in [Stores -> [version : Nat, sum : Contents \cup {NoSum}]]
      /\ whole \in [Stores -> BOOLEAN]
      /\ mail \subseteq Bundles
      /\ step \in [ImportCalls -> {NotCalled} \cup Exporting \cup Importing]
      /\ \A s \in Stores : whole[s] => meta[s].sum = content[s]
    BY DEF StoreInv
<1>1. ASSUME NEW s \in Stores, Edit(s) PROVE StoreInv'
    <2>1. PICK k \in CollectionNames, v \in Items \cup {NoItem} :
             content' = [content EXCEPT ![s][k] = v]
        BY <1>1 DEF Edit
    <2>2. [content[s] EXCEPT ![k] = v] \in Contents BY <1>0 DEF Contents
    <2>3. content' = [content EXCEPT ![s] = [content[s] EXCEPT ![k] = v]] BY <1>0, <2>1
    <2>4. content' \in [Stores -> Contents] BY <1>0, <2>2, <2>3
    <2>5. /\ whole' = [whole EXCEPT ![s] = FALSE] /\ UNCHANGED <<meta, mail, step>>
        BY <1>1 DEF Edit
    <2>6. \A t \in Stores : whole'[t] => meta'[t].sum = content'[t]
        BY <1>0, <2>3, <2>5
    <2>. QED BY <1>0, <2>4, <2>5, <2>6 DEF StoreInv
<1>2. ASSUME NEW c \in ImportCalls, NEW s \in Stores, BeginExport(c, s) PROVE StoreInv'
    <2>1. [op |-> "export", store |-> s, read |-> [k \in CollectionNames |-> NoItem], next |-> 1]
            \in Exporting
        BY DEF Exporting, Contents
    <2>. QED BY <1>0, <1>2, <2>1 DEF BeginExport, StoreInv
<1>3. ASSUME NEW c \in ImportCalls, ReadCollection(c) PROVE StoreInv'
    <2>1. step[c] \in Exporting
        BY <1>0, <1>3 DEF ReadCollection, NotCalled, Importing
    <2>2. PICK n : n = step[c].next OBVIOUS
    <2>3. PICK k : k = Collections[n] OBVIOUS
    <2>4. /\ n \in Nat \ {0} /\ n <= Len(Collections) /\ step[c].store \in Stores
          /\ step[c].read \in Contents
        BY <1>3, <2>1, <2>2 DEF ReadCollection, Exporting
    <2>5. k \in CollectionNames BY <2>3, <2>4 DEF CollectionNames
    <2>6. content[step[c].store][k] \in Items \cup {NoItem}
        BY <1>0, <2>4, <2>5 DEF Contents
    <2>7. step' = [step EXCEPT ![c] = [op |-> "export", store |-> step[c].store,
                       read |-> [step[c].read EXCEPT ![k] = content[step[c].store][k]],
                       next |-> n + 1]]
        BY <1>0, <1>3, <2>1, <2>2, <2>3 DEF ReadCollection, Exporting
    <2>8. [step[c].read EXCEPT ![k] = content[step[c].store][k]] \in Contents
        BY <2>4, <2>6 DEF Contents
    <2>9. step' \in [ImportCalls -> {NotCalled} \cup Exporting \cup Importing]
        BY <1>0, <2>4, <2>7, <2>8 DEF Exporting
    <2>. QED BY <1>0, <1>3, <2>9 DEF ReadCollection, StoreInv
<1>4. ASSUME NEW c \in ImportCalls, FinishExport(c) PROVE StoreInv'
    <2>1. step[c] \in Exporting
        BY <1>0, <1>4 DEF FinishExport, NotCalled, Importing
    <2>2. Bundle(meta[step[c].store].version, step[c].read, step[c].read) \in Bundles
        BY <1>0, <2>1 DEF Exporting, Bundle, Bundles
    <2>. QED BY <1>0, <1>4, <2>2 DEF FinishExport, StoreInv
<1>5. ASSUME NEW b \in mail, TruncateBundle(b) PROVE StoreInv'
    <2>1. PICK k \in CollectionNames : mail' = mail \cup {[b EXCEPT !.content[k] = NoItem]}
        BY <1>5 DEF TruncateBundle
    <2>2. b \in Bundles BY <1>0
    <2>3. [b EXCEPT !.content[k] = NoItem]
            = [version |-> b.version, sum |-> b.sum, content |-> [b.content EXCEPT ![k] = NoItem]]
        BY <2>2 DEF Bundles
    <2>4. [b EXCEPT !.content[k] = NoItem] \in Bundles
        BY <2>2, <2>3 DEF Bundles, Contents
    <2>. QED BY <1>0, <1>5, <2>1, <2>4 DEF TruncateBundle, StoreInv
<1>6. ASSUME NEW c \in ImportCalls, NEW s \in Stores, NEW b \in mail, NEW m \in Modes,
             BeginImport(c, s, b, m)
      PROVE  StoreInv'
    <2>1. b \in Bundles /\ VerifyBundle(b) BY <1>0, <1>6 DEF BeginImport
    <2>2. Larger(meta[s].version, b.version) + 1 \in Nat
        BY <1>0, <2>1 DEF Larger, Bundles
    <2>3. [op |-> "import", store |-> s, bundle |-> b, mode |-> m,
           next |-> Larger(meta[s].version, b.version) + 1] \in Importing
        BY <2>1, <2>2 DEF Importing
    <2>. QED BY <1>0, <1>6, <2>3 DEF BeginImport, StoreInv
<1>7. ASSUME NEW c \in ImportCalls, CommitImport(c) PROVE StoreInv'
    <2>1. step[c] \in Importing
        BY <1>0, <1>7 DEF CommitImport, NotCalled, Exporting
    <2>2. PICK i \in Importing : i = step[c] BY <2>1
    <2>3. /\ i.store \in Stores /\ i.bundle \in Bundles /\ i.bundle.sum = i.bundle.content
          /\ i.mode \in Modes /\ i.next \in Nat /\ i.bundle.sum \in Contents
        BY <2>2 DEF Importing, Bundles, VerifyBundle
    <2>4. PICK w : w = Written(content[i.store], i.bundle, i.mode) OBVIOUS
    <2>5. w \in Contents /\ (i.mode = "replace-all" => w = i.bundle.content)
        BY <1>0, <2>3, <2>4, WrittenIsContent
    <2>6. /\ content' = [content EXCEPT ![i.store] = w]
          /\ meta' = [meta EXCEPT ![i.store] = [version |-> i.next, sum |-> i.bundle.sum]]
          /\ whole' = [whole EXCEPT ![i.store] = (i.mode = "replace-all")]
          /\ step' = [step EXCEPT ![c] = NotCalled] /\ UNCHANGED mail
        BY <1>7, <2>2, <2>4 DEF CommitImport
    <2>7. [version |-> i.next, sum |-> i.bundle.sum] \in [version : Nat, sum : Contents \cup {NoSum}]
        BY <2>3
    <2>8. \A t \in Stores : whole'[t] => meta'[t].sum = content'[t]
        BY <1>0, <2>3, <2>5, <2>6
    <2>9. /\ content' \in [Stores -> Contents] /\ whole' \in [Stores -> BOOLEAN]
          /\ meta' \in [Stores -> [version : Nat, sum : Contents \cup {NoSum}]]
          /\ step' \in [ImportCalls -> {NotCalled} \cup Exporting \cup Importing]
        BY <1>0, <2>5, <2>6, <2>7
    <2>. QED BY <1>0, <2>6, <2>8, <2>9 DEF StoreInv
<1>8. ASSUME NEW c \in ImportCalls, FailImport(c) PROVE StoreInv'
    BY <1>0, <1>8 DEF FailImport, StoreInv
<1>9. CASE UNCHANGED configVars BY <1>0, <1>9 DEF configVars, StoreInv
<1>. QED BY <1>1, <1>2, <1>3, <1>4, <1>5, <1>6, <1>7, <1>8, <1>9 DEF ConfigNext

\* DivergenceIsSignalled: two whole stores with one pair have one content.
THEOREM SamePairSameContent == ConfigSpec => []DivergenceIsSignalled
<1>1. StoreInv => DivergenceIsSignalled
    <2>1. SUFFICES ASSUME StoreInv, NEW s \in Stores, NEW t \in Stores, whole[s], whole[t],
                          ReconcileConfig(meta[s], meta[t]) = "current"
                   PROVE  content[s] = content[t]
        BY DEF DivergenceIsSignalled
    <2>2. /\ meta[s].sum = content[s] /\ meta[t].sum = content[t]
          /\ content[s] \in Contents /\ content[t] \in Contents
          /\ meta[s].version \in Nat /\ meta[t].version \in Nat
        BY <2>1 DEF StoreInv
    <2>3. meta[s].sum # NoSum /\ meta[t].sum # NoSum
        BY <2>2, ConfigAssumption
    <2>4. meta[s].version = meta[t].version
        BY <2>1, <2>2 DEF ReconcileConfig
    <2>5. meta[s].sum = meta[t].sum
        BY <2>1, <2>2, <2>3, <2>4 DEF ReconcileConfig
    <2>. QED BY <2>2, <2>5
<1>. QED BY <1>1, StoreInitHolds, StoreStep, PTL DEF ConfigSpec

------------------------------------------------------------------------------
(* The cache of distinct values, for every time to live and every number of *)
(* filter changes.                                                          *)

USE CacheAssumption

(* An entry was read and stored after its load began, no later than now,    *)
(* and no earlier than the last invalidation of its key: an invalidation    *)
(* takes the entry out, so one that is there came later.                    *)
EntriesInOrder ==
    \A k \in CacheKeys :
        /\ cleansed[k] <= now
        /\ entries[k] # NoEntry =>
              /\ cleansed[k] <= entries[k].at
              /\ entries[k].begun <= entries[k].read
              /\ entries[k].read <= entries[k].at
              /\ entries[k].at <= now
        /\ inflight[k] # NoLoad =>
              /\ inflight[k].begun <= now
              /\ inflight[k].read # Unread =>
                    inflight[k].begun <= inflight[k].read /\ inflight[k].read <= now

CacheInv == CacheTypeOK /\ EntriesInOrder /\ ServedValuesAreRecent

LEMMA CacheInitHolds == CacheInit => CacheInv
BY DEF CacheInit, CacheInv, CacheTypeOK, EntriesInOrder, ServedValuesAreRecent, Times

LEMMA TypeStep ==
    ASSUME CacheTypeOK, CacheNext
    PROVE  CacheTypeOK'
<1> USE DEF CacheTypeOK, Times
<1>1. CASE TimePasses
    BY <1>1 DEF TimePasses
<1>2. ASSUME NEW k \in CacheKeys, Hits(k) PROVE CacheTypeOK'
    BY <1>2 DEF Hits
<1>3. ASSUME NEW k \in CacheKeys, StartsLoad(k) PROVE CacheTypeOK'
    BY <1>3 DEF StartsLoad
<1>4. ASSUME NEW k \in CacheKeys, HubAnswers(k) PROVE CacheTypeOK'
    <2>1. inflight[k] \in [begun : Times, read : Times \cup {Unread}]
        BY <1>4 DEF HubAnswers
    <2> QED BY <1>4, <2>1 DEF HubAnswers
<1>5. ASSUME NEW k \in CacheKeys, Loaded(k) PROVE CacheTypeOK'
    <2>1. inflight[k] \in [begun : Times, read : Times]
        BY <1>5 DEF Loaded
    <2> QED BY <1>5, <2>1 DEF Loaded
<1>6. ASSUME NEW k \in CacheKeys, LoadRejected(k) PROVE CacheTypeOK'
    BY <1>6 DEF LoadRejected
<1>7. ASSUME NEW col \in FilterColumns, FilterChanged(col) PROVE CacheTypeOK'
    BY <1>7 DEF FilterChanged
<1> QED BY <1>1, <1>2, <1>3, <1>4, <1>5, <1>6, <1>7 DEF CacheNext

LEMMA OrderStep ==
    ASSUME CacheTypeOK, EntriesInOrder, CacheNext
    PROVE  EntriesInOrder'
<1> USE DEF CacheTypeOK, EntriesInOrder, Times
<1>0. now \in Nat /\ Ttl \in Nat
    OBVIOUS
<1>1. CASE TimePasses
    BY <1>1 DEF TimePasses
<1>2. ASSUME NEW k \in CacheKeys, Hits(k) PROVE EntriesInOrder'
    BY <1>2 DEF Hits
<1>3. ASSUME NEW k \in CacheKeys, StartsLoad(k) PROVE EntriesInOrder'
    BY <1>3 DEF StartsLoad
<1>4. ASSUME NEW k \in CacheKeys, HubAnswers(k) PROVE EntriesInOrder'
    <2>1. inflight[k] \in [begun : Times, read : Times \cup {Unread}]
        BY <1>4 DEF HubAnswers
    <2>2. inflight'[k].begun = inflight[k].begun /\ inflight'[k].read = now
        BY <1>4, <2>1 DEF HubAnswers
    <2> QED BY <1>4, <2>1, <2>2 DEF HubAnswers
<1>5. ASSUME NEW k \in CacheKeys, Loaded(k) PROVE EntriesInOrder'
    <2>1. inflight[k] \in [begun : Times, read : Times]
        BY <1>5 DEF Loaded
    <2> QED BY <1>5, <2>1 DEF Loaded
<1>6. ASSUME NEW k \in CacheKeys, LoadRejected(k) PROVE EntriesInOrder'
    BY <1>6 DEF LoadRejected
<1>7. ASSUME NEW col \in FilterColumns, FilterChanged(col) PROVE EntriesInOrder'
    BY <1>7 DEF FilterChanged
<1> QED BY <1>1, <1>2, <1>3, <1>4, <1>5, <1>6, <1>7 DEF CacheNext

\* What is served was stored after the last invalidation of its key.
LEMMA ServedStep ==
    ASSUME CacheInv, CacheNext
    PROVE  ServedValuesAreRecent'
<1> USE DEF CacheInv, CacheTypeOK, EntriesInOrder, Times
<1>1. CASE TimePasses
    BY <1>1 DEF TimePasses, ServedValuesAreRecent
<1>2. ASSUME NEW k \in CacheKeys, Hits(k) PROVE ServedValuesAreRecent'
    <2>1. entries[k] # NoEntry /\ now - entries[k].at < Ttl
        BY <1>2 DEF Hits, Fresh
    <2>2. served'.at = now /\ served'.from = entries[k].at /\ served'.since = cleansed[k]
          /\ served'.begun = entries[k].begun /\ served'.read = entries[k].read
        BY <1>2 DEF Hits
    <2> QED BY <2>1, <2>2 DEF ServedValuesAreRecent
<1>3. ASSUME NEW k \in CacheKeys, StartsLoad(k) PROVE ServedValuesAreRecent'
    BY <1>3 DEF StartsLoad, ServedValuesAreRecent
<1>4. ASSUME NEW k \in CacheKeys, HubAnswers(k) PROVE ServedValuesAreRecent'
    BY <1>4 DEF HubAnswers, ServedValuesAreRecent
<1>5. ASSUME NEW k \in CacheKeys, Loaded(k) PROVE ServedValuesAreRecent'
    <2>1. inflight[k] # NoLoad /\ inflight[k].read # Unread
        BY <1>5 DEF Loaded
    <2>2. served'.at = now /\ served'.from = now /\ served'.since = cleansed[k]
          /\ served'.begun = inflight[k].begun /\ served'.read = inflight[k].read
        BY <1>5 DEF Loaded
    <2> QED BY <2>1, <2>2 DEF ServedValuesAreRecent
<1>6. ASSUME NEW k \in CacheKeys, LoadRejected(k) PROVE ServedValuesAreRecent'
    BY <1>6 DEF LoadRejected, ServedValuesAreRecent
<1>7. ASSUME NEW col \in FilterColumns, FilterChanged(col) PROVE ServedValuesAreRecent'
    BY <1>7 DEF FilterChanged, ServedValuesAreRecent
<1> QED BY <1>1, <1>2, <1>3, <1>4, <1>5, <1>6, <1>7 DEF CacheNext

(* The inductive invariant of the cache: types, the order of the moments of *)
(* an entry and of a load, and the property itself.                         *)
THEOREM CacheInvariance == CacheSpec => []CacheInv
<1>1. CacheInit => CacheInv
    BY CacheInitHolds
<1>2. CacheInv /\ [CacheNext]_cacheVars => CacheInv'
    <2> SUFFICES ASSUME CacheInv, [CacheNext]_cacheVars PROVE CacheInv'
        OBVIOUS
    <2>1. CASE CacheNext
        BY <2>1, TypeStep, OrderStep, ServedStep DEF CacheInv
    <2>2. CASE UNCHANGED cacheVars
        BY <2>2 DEF cacheVars, CacheInv, CacheTypeOK, EntriesInOrder, ServedValuesAreRecent, Fresh
    <2> QED BY <2>1, <2>2
<1> QED BY <1>1, <1>2, PTL DEF CacheSpec

(* For every time to live: what a filter is given (Hits, Loaded) is younger *)
(* than that or just loaded, and arrived after the last invalidation of its *)
(* column.                                                                  *)
THEOREM ServedRecent == CacheSpec => []ServedValuesAreRecent
<1>1. CacheInv => ServedValuesAreRecent
    BY DEF CacheInv
<1> QED BY <1>1, CacheInvariance, PTL

------------------------------------------------------------------------------
(* The mirror: what it shows, holds and is sent has been in the table.      *)

\* A replay of deltas, each of which keeps a mirror in A, gives a mirror in
\* A.
LEMMA ReplayStays ==
  ASSUME NEW D, NEW A, NEW ds \in Seq(D), NEW base \in A, \A a \in A, d \in D : ApplyRow(a, d) \in A
  PROVE  ApplyAll(base, ds) \in A
<1>. DEFINE n == Len(ds)
            Is(it) == it = [s \in SUBSET (1 .. n) |-> IF s = {} THEN base ELSE ApplyRow(it[s \ {Max(s)}], ds[Max(s)])]
            iter == CHOOSE it : Is(it)
            G == [x \in A \X (1 .. n) |-> ApplyRow(x[1], ds[x[2]])]
<1>1. n \in Nat /\ DOMAIN ds = 1 .. n OBVIOUS
<1>2. ApplyAll(base, ds) = iter[1 .. n]
  BY <1>1 DEF ApplyAll, FoldLeft, MapThenFoldSet
<1>3. \A a \in A, i \in 1 .. n : ApplyRow(a, ds[i]) \in A
  BY <1>1
<1>4. G \in [A \X (1 .. n) -> A]
  <2>. HIDE DEF n
  <2>. QED BY <1>3
<1>5. PICK it \in [SUBSET (1 .. n) -> A] : IsIteration(it, base, G, n)
  <2>. HIDE DEF n, G
  <2>. QED BY <1>1, <1>4, IterationExists
<1>6. ASSUME NEW s \in SUBSET (1 .. n), s # {}
      PROVE  G[<<it[s \ {Max(s)}], Max(s)>>] = ApplyRow(it[s \ {Max(s)}], ds[Max(s)])
  <2>1. Max(s) \in 1 .. n BY <1>1, <1>6, MaxIsLargest
  <2>2. it[s \ {Max(s)}] \in A BY <1>5
  <2>. HIDE DEF n
  <2>. QED BY <2>1, <2>2
<1>7. Is(it)
  <2>. HIDE DEF G, n
  <2>. QED BY <1>5, <1>6 DEF IsIteration
<1>8. Is(iter)
  <2>. HIDE DEF Is
  <2>. QED BY <1>7
<1>9. iter[{}] = base BY <1>8
<1>10. ASSUME NEW m \in 1 .. n, iter[(1 .. m) \ {Max(1 .. m)}] \in A
       PROVE  iter[1 .. m] \in A
  <2>. HIDE DEF n, iter
  <2>0. m \in Nat /\ n \in Nat /\ 1 <= m /\ m <= n BY <1>1
  <2>1. (1 .. m) \in SUBSET (1 .. n) /\ 1 \in 1 .. m BY <2>0
  <2>2. Max(1 .. m) \in 1 .. n BY <2>0, <2>1, MaxIsLargest
  <2>3. iter[1 .. m] = ApplyRow(iter[(1 .. m) \ {Max(1 .. m)}], ds[Max(1 .. m)])
    BY <1>8, <2>1
  <2>. QED BY <1>3, <1>10, <2>2, <2>3
<1>11. iter[1 .. n] \in A
  <2>. HIDE DEF n, iter, Is
  <2>1. iter[{}] \in A BY <1>9
  <2>. QED BY <1>1, <2>1, <1>10, IterationStays
<1>. QED BY <1>2, <1>11

USE MirrorAssumption

(* Whatever is on its way to the grid, in the window that was read, the     *)
(* deltas, those held back and the transactions, the row has once been.     *)
MirrorInv ==
    /\ MirrorTypeOK
    /\ \A k \in MirrorKeys : {None, Visible(book[k]), rows[k], grid[k]} \subseteq past[k]
    /\ \A i \in DOMAIN reply : \A k \in MirrorKeys : reply[i][k] \in past[k]
    /\ \A i \in DOMAIN deltas : Visible(deltas[i]) \in past[deltas[i].key]
    /\ \A i \in DOMAIN pending : Visible(pending[i]) \in past[pending[i].key]
    /\ \A i \in DOMAIN queue : queue[i].image \in past[queue[i].key]

\* A mirror of rows and transactions that have been, and the deltas that have.
PastRows == {r \in RowsOf : \A k \in MirrorKeys : r[k] \in past[k]}
PastTransactions == {t \in Transaction : t.image \in past[t.key]}
PastDeltas == {d \in Delta : Visible(d) \in past[d.key]}
PastMirror == [rows : PastRows, queue : Seq(PastTransactions)]

\* A delta that has been keeps the mirror to what has been.
LEMMA ApplyRowStays ==
    ASSUME MirrorInv, NEW s \in PastMirror, NEW d \in PastDeltas
    PROVE  ApplyRow(s, d) \in PastMirror
<1>1. /\ d.key \in MirrorKeys /\ d.image \in Images /\ d.gone \in BOOLEAN
      /\ None \in past[d.key] /\ (~d.gone => d.image \in past[d.key])
    BY DEF PastDeltas, Delta, MirrorInv, Visible
<1>2. s.rows \in PastRows /\ s.queue \in Seq(PastTransactions)
    BY DEF PastMirror
<1>3. ASSUME NEW image \in Images \cup {None}, image \in past[d.key]
      PROVE  [s.rows EXCEPT ![d.key] = image] \in PastRows
    BY <1>1, <1>2, <1>3 DEF PastRows, RowsOf
<1>4. ASSUME NEW image \in Images \cup {None}, image \in past[d.key], NEW kind \in {"add", "update", "remove"}
      PROVE  [kind |-> kind, key |-> d.key, image |-> image] \in PastTransactions
    BY <1>1, <1>4 DEF PastTransactions, Transaction
<1>5. ASSUME NEW t \in PastTransactions
      PROVE  Append(s.queue, t) \in Seq(PastTransactions)
    BY <1>2
<1>. DEFINE known == s.rows[d.key] # None
<1>6. CASE d.gone /\ ~known
    BY <1>6 DEF ApplyRow
<1>7. CASE d.gone /\ known
    <2>1. [s.rows EXCEPT ![d.key] = None] \in PastRows
        BY <1>1, <1>3
    <2>2. Append(s.queue, [kind |-> "remove", key |-> d.key, image |-> None]) \in Seq(PastTransactions)
        BY <1>1, <1>4, <1>5
    <2>3. ApplyRow(s, d) = [rows |-> [s.rows EXCEPT ![d.key] = None],
                            queue |-> Append(s.queue, [kind |-> "remove", key |-> d.key, image |-> None])]
        BY <1>7 DEF ApplyRow
    <2>. QED BY <2>1, <2>2, <2>3 DEF PastMirror
<1>8. CASE ~d.gone
    <2>. DEFINE t == [kind |-> IF known THEN "update" ELSE "add", key |-> d.key, image |-> d.image]
    <2>1. [s.rows EXCEPT ![d.key] = d.image] \in PastRows
        BY <1>1, <1>3, <1>8
    <2>2. t \in PastTransactions
        BY <1>1, <1>4, <1>8
    <2>3. Append(s.queue, t) \in Seq(PastTransactions)
        BY <1>5, <2>2
    <2>4. ApplyRow(s, d) = [rows |-> [s.rows EXCEPT ![d.key] = d.image], queue |-> Append(s.queue, t)]
        BY <1>8 DEF ApplyRow
    <2>. QED BY <2>1, <2>3, <2>4 DEF PastMirror
<1>. QED BY <1>1, <1>6, <1>7, <1>8

\* So say the parts of the invariant.
LEMMA PastOfTheState ==
    ASSUME MirrorInv
    PROVE  /\ rows \in PastRows
           /\ queue \in Seq(PastTransactions)
           /\ pending \in Seq(PastDeltas)
           /\ deltas \in Seq(PastDeltas)
           /\ reply # <<>> => Head(reply) \in PastRows
<1>. USE DEF MirrorInv, MirrorTypeOK
<1>1. rows \in PastRows BY DEF PastRows
<1>2. queue \in Seq(PastTransactions) BY DEF PastTransactions
<1>3. pending \in Seq(PastDeltas) BY DEF PastDeltas
<1>4. deltas \in Seq(PastDeltas) BY DEF PastDeltas
<1>5. reply # <<>> => Head(reply) \in PastRows BY DEF PastRows
<1>. QED BY <1>1, <1>2, <1>3, <1>4, <1>5

\* A replay gives a mirror of rows and transactions that have been.
LEMMA ReplayOfThePast ==
    ASSUME MirrorInv, reply # <<>>
    PROVE  ApplyAll([rows |-> Head(reply), queue |-> queue], pending) \in PastMirror
<1>1. [rows |-> Head(reply), queue |-> queue] \in PastMirror
    BY PastOfTheState DEF PastMirror
<1>2. \A s \in PastMirror, d \in PastDeltas : ApplyRow(s, d) \in PastMirror
    BY ApplyRowStays
<1>3. pending \in Seq(PastDeltas)
    BY PastOfTheState
<1>. QED BY <1>1, <1>2, <1>3, ReplayStays

LEMMA MirrorInitHolds == MirrorInit => MirrorInv
<1>. SUFFICES ASSUME MirrorInit PROVE MirrorInv
    OBVIOUS
<1>1. MirrorTypeOK
    <2>1. reply \in Seq(RowsOf) /\ deltas \in Seq(Delta) /\ pending \in Seq(Delta) /\ queue \in Seq(Transaction)
        BY DEF MirrorInit
    <2>2. book \in [MirrorKeys -> [image : Images \cup {None}, gone : BOOLEAN]]
        BY DEF MirrorInit
    <2>3. past \in [MirrorKeys -> SUBSET (Images \cup {None})]
        BY DEF MirrorInit
    <2>4. rows \in RowsOf /\ grid \in RowsOf
        BY DEF MirrorInit, RowsOf
    <2>5. phase \in Phases /\ watching \in BOOLEAN
        BY DEF MirrorInit, Phases
    <2>. QED BY <2>1, <2>2, <2>3, <2>4, <2>5 DEF MirrorTypeOK
<1>2. \A k \in MirrorKeys : {None, Visible(book[k]), rows[k], grid[k]} \subseteq past[k]
    BY DEF MirrorInit, Visible
<1>3. reply = <<>> /\ deltas = <<>> /\ pending = <<>> /\ queue = <<>>
    BY DEF MirrorInit
<1>. QED BY <1>1, <1>2, <1>3 DEF MirrorInv

\* What a step leaves in place when rows, queue and the grid have been.
LEMMA PastIsKept ==
    ASSUME MirrorInv, UNCHANGED <<book, past>>, phase' \in Phases, watching' \in BOOLEAN,
           rows' \in PastRows, grid' \in PastRows, queue' \in Seq(PastTransactions),
           reply' \in Seq(PastRows), deltas' \in Seq(PastDeltas), pending' \in Seq(PastDeltas)
    PROVE  MirrorInv'
<1>1. MirrorTypeOK'
    BY DEF MirrorInv, MirrorTypeOK, PastRows, PastTransactions, PastDeltas
<1>2. \A k \in MirrorKeys : {None, Visible(book[k]), rows[k], grid[k]}' \subseteq past'[k]
    BY DEF MirrorInv, PastRows
<1>3. \A i \in DOMAIN reply' : \A k \in MirrorKeys : reply'[i][k] \in past'[k]
    BY DEF PastRows
<1>4. \A i \in DOMAIN deltas' : Visible(deltas'[i]) \in past'[deltas'[i].key]
    BY DEF PastDeltas
<1>5. \A i \in DOMAIN pending' : Visible(pending'[i]) \in past'[pending'[i].key]
    BY DEF PastDeltas
<1>6. \A i \in DOMAIN queue' : queue'[i].image \in past'[queue'[i].key]
    BY DEF PastTransactions
<1>. QED BY <1>1, <1>2, <1>3, <1>4, <1>5, <1>6 DEF MirrorInv, Visible

\* Every step of the mirror keeps to what has been.
LEMMA MirrorStep ==
    ASSUME MirrorInv, MirrorNext
    PROVE  MirrorInv'
<1>0. /\ rows \in PastRows /\ grid \in PastRows /\ queue \in Seq(PastTransactions)
      /\ reply \in Seq(PastRows) /\ deltas \in Seq(PastDeltas) /\ pending \in Seq(PastDeltas)
      /\ phase \in Phases /\ watching \in BOOLEAN
      /\ \A k \in MirrorKeys : None \in past[k] /\ VisibleBook[k] \in past[k]
      /\ VisibleBook \in RowsOf
    <2>1. grid \in PastRows /\ reply \in Seq(PastRows)
        BY DEF MirrorInv, MirrorTypeOK, PastRows
    <2>2. VisibleBook \in RowsOf /\ \A k \in MirrorKeys : VisibleBook[k] \in past[k]
        BY DEF MirrorInv, MirrorTypeOK, VisibleBook, Visible, RowsOf
    <2>. QED BY <2>1, <2>2, PastOfTheState DEF MirrorInv, MirrorTypeOK
<1>1. ASSUME NEW k \in MirrorKeys, BookChanges(k) PROVE MirrorInv'
    <2>1. PICK gone \in BOOLEAN :
            LET row == [image |-> book[k].image + 1, gone |-> gone] IN
            /\ book' = [book EXCEPT ![k] = row]
            /\ past' = [past EXCEPT ![k] = @ \cup {Visible(row)}]
            /\ deltas' = IF watching
                         THEN Append(deltas, [key |-> k, image |-> row.image, gone |-> gone])
                         ELSE deltas
        BY <1>1 DEF BookChanges
    <2>. DEFINE row == [image |-> book[k].image + 1, gone |-> gone]
                d == [key |-> k, image |-> row.image, gone |-> gone]
    <2>2. UNCHANGED <<phase, watching, reply, pending, rows, queue, grid>>
        BY <1>1 DEF BookChanges
    <2>3. row.image \in Images /\ row.gone \in BOOLEAN
        <3>1. book[k].image \in Images \cup {None} /\ book[k].image < MaxImages
            BY <1>1 DEF BookChanges, MirrorInv, MirrorTypeOK
        <3>2. book[k].image + 1 \in Images
            BY <3>1 DEF Images, None
        <3>. QED BY <3>2
    <2>4. Visible(row) \in Images \cup {None} /\ Visible(d) = Visible(row)
        BY <2>3 DEF Visible
    <2>5. /\ \A j \in MirrorKeys : past[j] \subseteq past'[j]
          /\ Visible(row) \in past'[k]
          /\ past' \in [MirrorKeys -> SUBSET (Images \cup {None})]
        <3>1. past \in [MirrorKeys -> SUBSET (Images \cup {None})]
            BY DEF MirrorInv, MirrorTypeOK
        <3>2. past' = [past EXCEPT ![k] = @ \cup {Visible(row)}]
            BY <2>1
        <3>. HIDE DEF row
        <3>. QED BY <2>4, <3>1, <3>2
    <2>6. deltas' \in Seq(Delta)
        <3>1. d \in Delta BY <2>3 DEF Delta
        <3>. QED BY <2>1, <3>1 DEF MirrorInv, MirrorTypeOK
    <2>7. MirrorTypeOK'
        <3>1. book' = [book EXCEPT ![k] = row] /\ row \in [image : Images \cup {None}, gone : BOOLEAN]
            BY <2>1, <2>3
        <3>. HIDE DEF row
        <3>2. book' \in [MirrorKeys -> [image : Images \cup {None}, gone : BOOLEAN]]
            BY <3>1 DEF MirrorInv, MirrorTypeOK
        <3>. QED BY <2>2, <2>5, <2>6, <3>2 DEF MirrorInv, MirrorTypeOK
    <2>8. \A j \in MirrorKeys : {None, Visible(book[j]), rows[j], grid[j]}' \subseteq past'[j]
        <3>1. \A j \in MirrorKeys : book'[j] = IF j = k THEN row ELSE book[j]
            BY <2>1 DEF MirrorInv, MirrorTypeOK
        <3>. HIDE DEF row
        <3>. QED BY <2>2, <2>5, <3>1 DEF MirrorInv, Visible
    <2>9. \A i \in DOMAIN reply' : \A j \in MirrorKeys : reply'[i][j] \in past'[j]
        BY <2>2, <2>5 DEF MirrorInv
    <2>10. \A i \in DOMAIN deltas' : Visible(deltas'[i]) \in past'[deltas'[i].key]
        <3>1. \A i \in DOMAIN deltas : deltas[i].key \in MirrorKeys /\ Visible(deltas[i]) \in past'[deltas[i].key]
            <4>1. ASSUME NEW i \in DOMAIN deltas PROVE deltas[i] \in Delta
                BY DEF MirrorInv, MirrorTypeOK
            <4>. QED BY <2>5, <4>1 DEF MirrorInv, Delta
        <3>2. d.key = k /\ Visible(d) \in past'[k]
            BY <2>4, <2>5
        <3>. HIDE DEF d
        <3>3. CASE deltas' = deltas
            BY <3>1, <3>3
        <3>4. CASE deltas' = Append(deltas, d)
            BY <3>1, <3>2, <3>4 DEF MirrorInv, MirrorTypeOK
        <3>. QED BY <2>1, <3>3, <3>4 DEF d
    <2>11. \A i \in DOMAIN pending' : Visible(pending'[i]) \in past'[pending'[i].key]
        <3>1. ASSUME NEW i \in DOMAIN pending PROVE pending[i] \in Delta
            BY DEF MirrorInv, MirrorTypeOK
        <3>. QED BY <2>2, <2>5, <3>1 DEF MirrorInv, Delta
    <2>12. \A i \in DOMAIN queue' : queue'[i].image \in past'[queue'[i].key]
        <3>1. ASSUME NEW i \in DOMAIN queue PROVE queue[i] \in Transaction
            BY DEF MirrorInv, MirrorTypeOK
        <3>. QED BY <2>2, <2>5, <3>1 DEF MirrorInv, Transaction
    <2>. HIDE DEF row
    <2>. QED BY <2>7, <2>8, <2>9, <2>10, <2>11, <2>12 DEF MirrorInv, Visible
<1>2. CASE StartMirror
    BY <1>0, <1>2, PastIsKept DEF StartMirror, Phases
<1>3. CASE ViewCreated
    BY <1>0, <1>3, PastIsKept DEF ViewCreated, Phases
<1>4. CASE EngineRegisters
    BY <1>0, <1>4, PastIsKept DEF EngineRegisters
<1>5. CASE EngineReads
    <2>1. VisibleBook \in PastRows
        BY <1>0 DEF PastRows
    <2>2. <<VisibleBook>> \in Seq(PastRows)
        BY <2>1
    <2>. QED BY <1>0, <1>5, <2>2, PastIsKept DEF EngineReads
<1>6. ASSUME reply # <<>>, phase' \in Phases,
             LET s == ApplyAll([rows |-> Head(reply), queue |-> queue], pending) IN
             rows' = s.rows /\ queue' = s.queue,
             grid' = Head(reply), reply' = <<>>, pending' = <<>>,
             UNCHANGED <<book, past, watching, deltas>>
      PROVE  MirrorInv'
    <2>1. rows' \in PastRows /\ queue' \in Seq(PastTransactions)
        BY <1>6, ReplayOfThePast DEF PastMirror
    <2>2. grid' \in PastRows
        BY <1>6, PastOfTheState
    <2>3. reply' \in Seq(PastRows) /\ pending' \in Seq(PastDeltas)
        BY <1>6
    <2>. QED BY <1>0, <1>6, <2>1, <2>2, <2>3, PastIsKept
<1>7. CASE SnapshotArrives
    BY <1>6, <1>7 DEF SnapshotArrives, Phases
<1>8. CASE SnapshotArrivesStopped
    BY <1>0, <1>6, <1>8 DEF SnapshotArrivesStopped
<1>9. CASE SnapshotFails
    <2>1. /\ reply' \in Seq(PastRows) /\ deltas' \in Seq(PastDeltas) /\ pending' \in Seq(PastDeltas)
          /\ phase' \in Phases
        BY <1>9 DEF SnapshotFails, Phases
    <2>. QED BY <1>0, <1>9, <2>1, PastIsKept DEF SnapshotFails
<1>10. CASE DeltaArrives
    <2>1. Head(deltas) \in PastDeltas /\ Tail(deltas) \in Seq(PastDeltas)
        BY <1>0, <1>10 DEF DeltaArrives
    <2>2. CASE phase = "live"
        <3>1. [rows |-> rows, queue |-> queue] \in PastMirror
            BY <1>0 DEF PastMirror
        <3>2. rows' \in PastRows /\ queue' \in Seq(PastTransactions)
            BY <1>10, <2>1, <2>2, <3>1, ApplyRowStays DEF DeltaArrives, PastMirror
        <3>. QED BY <1>0, <1>10, <2>1, <2>2, <3>2, PastIsKept DEF DeltaArrives
    <2>3. CASE phase # "live"
        <3>1. pending' = Append(pending, Head(deltas)) /\ UNCHANGED <<rows, queue>>
            BY <1>10, <2>3 DEF DeltaArrives
        <3>2. pending' \in Seq(PastDeltas)
            BY <1>0, <2>1, <3>1
        <3>. QED BY <1>0, <1>10, <2>1, <3>1, <3>2, PastIsKept DEF DeltaArrives
    <2>. QED BY <2>2, <2>3
<1>11. CASE StopMirror
    <2>1. rows' \in PastRows
        BY <1>0, <1>11 DEF StopMirror, PastRows, RowsOf
    <2>2. deltas' \in Seq(PastDeltas) /\ phase' \in Phases
        BY <1>11 DEF StopMirror, Phases
    <2>. QED BY <1>0, <1>11, <2>1, <2>2, PastIsKept DEF StopMirror
<1>12. CASE GridApplies
    <2>1. Head(queue) \in PastTransactions /\ Tail(queue) \in Seq(PastTransactions)
        BY <1>0, <1>12 DEF GridApplies
    <2>2. Routed(grid, Head(queue)) \in PastRows
        BY <1>0, <2>1 DEF Routed, PastRows, PastTransactions, Transaction, RowsOf
    <2>. QED BY <1>0, <1>12, <2>1, <2>2, PastIsKept DEF GridApplies
<1>. QED BY <1>1, <1>2, <1>3, <1>4, <1>5, <1>7, <1>8, <1>9, <1>10, <1>11, <1>12 DEF MirrorNext

\* What the mirror shows, holds and is sent has been in the table.
THEOREM MirrorInvariance == MirrorSpec => []MirrorInv
<1>1. MirrorInv /\ UNCHANGED mirrorVars => MirrorInv'
    BY DEF mirrorVars, MirrorInv, MirrorTypeOK, Visible
<1>2. MirrorInv /\ [MirrorNext]_mirrorVars => MirrorInv'
    BY <1>1, MirrorStep
<1>. QED BY <1>2, MirrorInitHolds, PTL DEF MirrorSpec

\* Each step of the mirror changes the table, shows what has been, or is none
\* of the copy's business.
LEMMA StepIsLaggingCopys ==
    ASSUME MirrorInv, [MirrorNext]_mirrorVars
    PROVE  [Copy!Change \/ Copy!Show]_Copy!copyVars
<1>. USE DEF Copy!copyVars
<1>1. ASSUME NEW k \in MirrorKeys, BookChanges(k) PROVE Copy!Change
    <2>1. PICK gone \in BOOLEAN :
            LET row == [image |-> book[k].image + 1, gone |-> gone] IN
            /\ book' = [book EXCEPT ![k] = row]
            /\ past' = [past EXCEPT ![k] = @ \cup {Visible(row)}]
        BY <1>1 DEF BookChanges
    <2>. DEFINE row == [image |-> book[k].image + 1, gone |-> gone]
    <2>2. row.image \in Images /\ row.gone \in BOOLEAN /\ grid' = grid
        BY <1>1 DEF BookChanges, MirrorInv, MirrorTypeOK, Images, None
    <2>3. Visible(row) \in Images \cup {None}
        BY <2>2 DEF Visible
    <2>4. VisibleBook' = [VisibleBook EXCEPT ![k] = Visible(row)]
        <3>1. \A j \in MirrorKeys : book'[j] = IF j = k THEN row ELSE book[j]
            BY <2>1 DEF MirrorInv, MirrorTypeOK
        <3>. HIDE DEF row
        <3>. QED BY <3>1 DEF VisibleBook
    <2>5. past' = [past EXCEPT ![k] = @ \cup {Visible(row)}]
        BY <2>1
    <2>. HIDE DEF row
    <2>. QED BY <2>2, <2>3, <2>4, <2>5 DEF Copy!Change
<1>2. ASSUME UNCHANGED <<book, past>>, grid' \in PastRows PROVE [Copy!Show]_Copy!copyVars
    BY <1>2 DEF Copy!Show, VisibleBook, PastRows, RowsOf
<1>3. ASSUME UNCHANGED <<book, past, grid>> PROVE UNCHANGED Copy!copyVars
    BY <1>3 DEF VisibleBook
<1>4. CASE SnapshotArrives
    BY <1>2, <1>4, PastOfTheState DEF SnapshotArrives
<1>5. CASE SnapshotArrivesStopped
    BY <1>2, <1>5, PastOfTheState DEF SnapshotArrivesStopped
<1>6. CASE GridApplies
    <2>1. MirrorInv'
        BY <1>6, MirrorStep DEF MirrorNext
    <2>2. grid' \in PastRows
        BY <1>6, <2>1 DEF MirrorInv, MirrorTypeOK, GridApplies, PastRows, RowsOf, Images
    <2>. QED BY <1>2, <1>6, <2>2 DEF GridApplies
<1>7. CASE StartMirror \/ ViewCreated \/ EngineRegisters \/ EngineReads \/ SnapshotFails
           \/ DeltaArrives \/ StopMirror \/ UNCHANGED mirrorVars
    BY <1>3, <1>7 DEF StartMirror, ViewCreated, EngineRegisters, EngineReads, SnapshotFails,
                      DeltaArrives, StopMirror, mirrorVars
<1>. QED BY <1>1, <1>4, <1>5, <1>6, <1>7 DEF MirrorNext

\* The mirror, its replay and its transactions implement a lagging copy: the
\* grid never shows what the table has not had.
THEOREM MirrorLags == MirrorSpec => GridIsLaggingCopy
<1>1. MirrorInit => Copy!CopyInit
    BY DEF MirrorInit, Copy!CopyInit, VisibleBook, Visible
<1>2. MirrorInv /\ [MirrorNext]_mirrorVars => [Copy!Change \/ Copy!Show]_Copy!copyVars
    BY StepIsLaggingCopys
<1>. QED BY <1>1, <1>2, MirrorInvariance, PTL DEF MirrorSpec, GridIsLaggingCopy, Copy!CopySpec
=============================================================================
