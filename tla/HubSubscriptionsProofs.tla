----------------------- MODULE HubSubscriptionsProofs -----------------------
(* Proofs about the reference counts, for any number of sessions and keys   *)
(* and whatever the clients send: until a session releases a key it does    *)
(* not hold, every subscriber of the key and every subscribe in flight is   *)
(* covered by a reference, and the idle timer takes the table from nobody.  *)
(* After it, too, the tables fit the ceiling.                               *)
(* And about a new bundle that is pushed, for any schema in which each      *)
(* field has a class: what of it the running table works with.              *)
EXTENDS HubSubscriptions, ConfigReload, DataLemmas, FiniteSetTheorems, TLAPS

(* Who has a reference to a key that is its own to give back.               *)
Holders(k) == {s \in Sessions : Holds(s, k)}

Bounded(k) == Cardinality(Holders(k)) + Cardinality(Pending(k)) <= refs[k]

\* The keys that have only been released by sessions that held them.
Sound == Keys \ overdrawn

Covered == \A k \in Sound : Bounded(k)

\* A key has at most one timer, the one that is held, and only while nobody
\* holds a reference.
Timed ==
    \A k \in Sound : timers[k] > 0 => /\ timers[k] = 1 /\ held[k] /\ refs[k] = 0 /\ k \in cached

HeldIsArmed == \A k \in Keys : held[k] => timers[k] > 0

Cached ==
    /\ \A k \in Keys : k \notin cached => refs[k] = 0
    /\ \A k \in Sound : k \notin cached => entry[k] = NoTable

HubTypes == HubTypeOK /\ IsFiniteSet(ops) /\ HeldIsArmed

HubInv == HubTypes /\ Covered /\ Timed /\ Cached

-----------------------------------------------------------------------------
(* Counting.                                                                *)

LEMMA SubsetCount ==
    ASSUME NEW S, IsFiniteSet(S), NEW T, T \subseteq S
    PROVE  IsFiniteSet(T) /\ Cardinality(T) \in Nat /\ Cardinality(S) \in Nat
           /\ Cardinality(T) <= Cardinality(S)
BY FS_Subset, FS_CardinalityType

LEMMA OneMoreCount ==
    ASSUME NEW S, IsFiniteSet(S), NEW x, NEW T, T \subseteq S \cup {x}
    PROVE  IsFiniteSet(T) /\ Cardinality(T) \in Nat /\ Cardinality(S) \in Nat
           /\ Cardinality(T) <= Cardinality(S) + 1
<1>1. IsFiniteSet(S \cup {x}) /\ Cardinality(S \cup {x}) <= Cardinality(S) + 1
      /\ Cardinality(S) \in Nat
    BY FS_AddElement, FS_CardinalityType
<1> QED BY <1>1, SubsetCount

LEMMA OneLessCount ==
    ASSUME NEW S, IsFiniteSet(S), NEW x \in S, NEW T, T \subseteq S \ {x}
    PROVE  Cardinality(T) \in Nat /\ Cardinality(S) \in Nat /\ Cardinality(T) <= Cardinality(S) - 1
           /\ Cardinality(S) >= 1
<1>1. IsFiniteSet(S \ {x}) /\ Cardinality(S \ {x}) = Cardinality(S) - 1
      /\ Cardinality(S) \in Nat /\ Cardinality(S \ {x}) \in Nat
    BY FS_RemoveElement, FS_CardinalityType
<1> QED BY <1>1, SubsetCount

LEMMA HoldersFinite ==
    ASSUME HubTypes, NEW k
    PROVE  /\ IsFiniteSet(Holders(k)) /\ Cardinality(Holders(k)) \in Nat
           /\ IsFiniteSet(Pending(k)) /\ Cardinality(Pending(k)) \in Nat
<1>1. Holders(k) \subseteq Sessions /\ Pending(k) \subseteq ops
    BY DEF Holders, Pending
<1> QED BY <1>1, HubAssumption, SubsetCount DEF HubTypes

LEMMA HolderIsCounted ==
    ASSUME HubInv, NEW k \in Sound, NEW s \in Holders(k)
    PROVE  refs[k] >= 1 /\ refs[k] \in Nat /\ k \in cached /\ timers[k] = 0
<1>1. Cardinality(Holders(k)) >= 1 /\ Cardinality(Pending(k)) \in Nat
      /\ Cardinality(Holders(k)) \in Nat
    BY HoldersFinite, OneLessCount DEF HubInv
<1>2. refs[k] \in Nat /\ timers[k] \in Nat /\ Bounded(k) /\ k \in Keys
    BY HubAssumption DEF HubInv, HubTypes, HubTypeOK, Covered, Sound
<1>3. refs[k] >= 1
    BY <1>1, <1>2 DEF Bounded
<1> QED BY <1>2, <1>3 DEF HubInv, Cached, Timed

\* A step after which fewer hold and fewer wait, for a key.
LEMMA FewerCovered ==
    ASSUME HubTypes, NEW k \in Keys, Bounded(k), refs[k] \in Nat, refs'[k] = refs[k],
           Holders(k)' \subseteq Holders(k), Pending(k)' \subseteq Pending(k)
    PROVE  Bounded(k)'
<1>1. Cardinality(Holders(k)') <= Cardinality(Holders(k)) /\ Cardinality(Holders(k)') \in Nat
      /\ Cardinality(Pending(k)') <= Cardinality(Pending(k)) /\ Cardinality(Pending(k)') \in Nat
      /\ Cardinality(Holders(k)) \in Nat /\ Cardinality(Pending(k)) \in Nat
    BY HoldersFinite, SubsetCount
<1> QED BY <1>1 DEF Bounded

\* What a step leaves to show when the other keys keep their counts.
LEMMA CoveredButOne ==
    ASSUME HubInv, NEW k \in Keys, k \in Sound => Bounded(k)', overdrawn' = overdrawn,
           \A j \in Keys \ {k} : /\ refs'[j] = refs[j]
                                 /\ Holders(j)' \subseteq Holders(j)
                                 /\ Pending(j)' \subseteq Pending(j)
    PROVE  Covered'
<1>1. ASSUME NEW j \in Sound, j # k PROVE Bounded(j)'
    <2>1. j \in Keys /\ refs[j] \in Nat /\ Bounded(j) /\ HubTypes
        BY DEF HubInv, HubTypes, HubTypeOK, Covered, Sound
    <2> QED BY <1>1, <2>1, FewerCovered
<1>2. Sound' = Sound
    BY DEF Sound
<1> QED BY <1>1, <1>2 DEF Covered

LEMMA CoveredAll ==
    ASSUME HubInv, overdrawn' = overdrawn,
           \A j \in Keys : /\ refs'[j] = refs[j]
                           /\ Holders(j)' \subseteq Holders(j)
                           /\ Pending(j)' \subseteq Pending(j)
    PROVE  Covered'
<1>1. ASSUME NEW j \in Sound PROVE Bounded(j)'
    <2>1. j \in Keys /\ refs[j] \in Nat /\ Bounded(j) /\ HubTypes
        BY DEF HubInv, HubTypes, HubTypeOK, Covered, Sound
    <2> QED BY <2>1, FewerCovered
<1>2. Sound' = Sound
    BY DEF Sound
<1> QED BY <1>1, <1>2 DEF Covered

-----------------------------------------------------------------------------
(* Subscribing.                                                             *)

LEMMA AcquireCounts ==
    ASSUME HubInv, NEW k \in Keys, Acquire(k)
    PROVE  /\ cached' \subseteq Keys /\ cached \cup {k} = cached'
           /\ refs' \in [Keys -> Nat] /\ refs'[k] = refs[k] + 1
           /\ \A j \in Keys \ {k} : refs'[j] = refs[j]
           /\ held' \in [Keys -> BOOLEAN] /\ timers' \in [Keys -> 0 .. MaxTimers]
           /\ HeldIsArmed' /\ Timed' /\ overdrawn' = overdrawn
<1>0. overdrawn' = overdrawn /\ Sound' = Sound
    BY DEF Acquire, Sound
<1>1. /\ cached \subseteq Keys /\ refs \in [Keys -> Nat] /\ held \in [Keys -> BOOLEAN]
      /\ timers \in [Keys -> 0 .. MaxTimers] /\ MaxTimers \in Nat
    BY HubAssumption DEF HubInv, HubTypes, HubTypeOK
<1>2. /\ k \in Sound /\ timers[k] > 0 => timers[k] = 1 /\ held[k] /\ refs[k] = 0 /\ k \in cached
      /\ held[k] => timers[k] > 0
      /\ k \notin cached => refs[k] = 0
    BY DEF HubInv, HubTypes, Timed, HeldIsArmed, Cached
<1>3. /\ \A j \in Sound : j # k => (timers[j] > 0 => timers[j] = 1 /\ held[j] /\ refs[j] = 0
                                                  /\ j \in cached)
      /\ \A j \in Keys : held[j] => timers[j] > 0
    BY DEF HubInv, HubTypes, Timed, HeldIsArmed
<1>4. CASE k \in cached
    <2>1. /\ refs' = [refs EXCEPT ![k] = refs[k] + 1] /\ held' = [held EXCEPT ![k] = FALSE]
          /\ timers' = [timers EXCEPT ![k] = IF held[k] THEN timers[k] - 1 ELSE timers[k]]
          /\ cached' = cached
        BY <1>4 DEF Acquire
    <2>2. held'[k] = FALSE /\ (k \in Sound => timers'[k] = 0)
        <3>1. CASE held[k]
            BY <3>1, <2>1, <1>1, <1>2
        <3>2. CASE ~held[k]
            <4>1. timers[k] \in Nat /\ (k \in Sound => ~(timers[k] > 0))
                BY <3>2, <1>1, <1>2
            <4> QED BY <4>1, <3>2, <2>1, <1>1
        <3> QED BY <3>1, <3>2
    <2>3. timers' \in [Keys -> 0 .. MaxTimers]
        <3>1. (IF held[k] THEN timers[k] - 1 ELSE timers[k]) \in 0 .. MaxTimers
            BY <1>1, <1>2
        <3> QED BY <3>1, <2>1, <1>1
    <2>4. \A j \in Keys : j # k => timers'[j] = timers[j] /\ held'[j] = held[j]
        BY <2>1, <1>1
    <2>5. HeldIsArmed'
        BY <2>2, <2>4, <1>3 DEF HeldIsArmed
    <2>6. Timed'
        <3>1. ASSUME NEW j \in Sound, timers'[j] > 0
              PROVE  timers'[j] = 1 /\ held'[j] /\ refs'[j] = 0 /\ j \in cached'
            <4>1. j # k /\ j \in Keys
                BY <3>1, <2>2 DEF Sound
            <4> QED BY <3>1, <4>1, <2>1, <2>4, <1>1, <1>3
        <3> QED BY <3>1, <1>0 DEF Timed
    <2> QED BY <2>1, <2>3, <2>5, <2>6, <1>0, <1>1, <1>4
<1>5. CASE k \notin cached
    <2>1. /\ refs' = [refs EXCEPT ![k] = 1] /\ cached' = cached \cup {k}
          /\ UNCHANGED <<held, timers>>
        BY <1>5 DEF Acquire
    <2>2. k \in Sound => ~(timers[k] > 0)
        BY <1>2, <1>5
    <2>3. HeldIsArmed'
        BY <2>1, <1>2, <1>3 DEF HeldIsArmed
    <2>4. Timed'
        <3>1. ASSUME NEW j \in Sound, timers'[j] > 0
              PROVE  timers'[j] = 1 /\ held'[j] /\ refs'[j] = 0 /\ j \in cached'
            <4>1. j # k /\ j \in Keys
                BY <3>1, <2>1, <2>2 DEF Sound
            <4> QED BY <3>1, <4>1, <2>1, <1>1, <1>3
        <3> QED BY <3>1, <1>0 DEF Timed
    <2> QED BY <2>1, <2>3, <2>4, <1>0, <1>1, <1>2, <1>5
<1> QED BY <1>4, <1>5

LEMMA AttachHolds ==
    ASSUME HubTypeOK, NEW s \in Sessions, NEW k \in Keys, Attach(s, k)
    PROVE  /\ subs' \in [Keys -> SUBSET Sessions] /\ listed' \in [Sessions -> SUBSET Keys]
           /\ open' \in [Sessions -> SUBSET Keys] /\ UNCHANGED <<stopped, gone, closing>>
           /\ Holders(k)' \subseteq Holders(k) \cup {s}
           /\ \A j \in Keys \ {k} : Holders(j)' \subseteq Holders(j)
<1>1. /\ subs' = [subs EXCEPT ![k] = subs[k] \cup {s}]
      /\ listed' = [listed EXCEPT ![s] = listed[s] \cup {k}]
      /\ open' = [open EXCEPT ![s] = IF s \in gone THEN open[s] ELSE open[s] \cup {k}]
      /\ UNCHANGED <<stopped, gone, closing>>
    BY DEF Attach
<1>2. /\ subs \in [Keys -> SUBSET Sessions] /\ listed \in [Sessions -> SUBSET Keys]
      /\ open \in [Sessions -> SUBSET Keys]
    BY DEF HubTypeOK
<1>3. /\ \A j \in Keys : subs'[j] = IF j = k THEN subs[j] \cup {s} ELSE subs[j]
      /\ \A t \in Sessions : listed'[t] = IF t = s THEN listed[t] \cup {k} ELSE listed[t]
      /\ \A t \in Sessions : open'[t] \subseteq IF t = s THEN open[t] \cup {k} ELSE open[t]
    BY <1>1, <1>2
<1>4. subs' \in [Keys -> SUBSET Sessions] /\ listed' \in [Sessions -> SUBSET Keys]
      /\ open' \in [Sessions -> SUBSET Keys]
    BY <1>1, <1>2
<1>5. Holders(k)' \subseteq Holders(k) \cup {s}
    BY <1>1, <1>3 DEF Holders, Holds
<1>6. \A j \in Keys \ {k} : Holders(j)' \subseteq Holders(j)
    BY <1>1, <1>3 DEF Holders, Holds
<1> QED BY <1>1, <1>4, <1>5, <1>6

LEMMA RefuseHolds ==
    ASSUME HubTypeOK, NEW s \in Sessions, NEW k \in Keys, Refuse(s, k), UNCHANGED subs
    PROVE  /\ open' \in [Sessions -> SUBSET Keys] /\ UNCHANGED <<listed, stopped, gone, closing>>
           /\ \A j \in Keys : Holders(j)' \subseteq Holders(j)
<1>1. /\ open' = [open EXCEPT ![s] = open[s] \ {k}] /\ UNCHANGED <<listed, stopped, gone, closing, subs>>
      /\ open \in [Sessions -> SUBSET Keys]
    BY DEF Refuse, HubTypeOK
<1> QED BY <1>1 DEF Holders, Holds

LEMMA StartKeeps ==
    ASSUME HubInv, NEW s \in Sessions, NEW k \in Keys, NEW by \in {"client", "reload"},
           StartSubscribe(s, k, by),
           reload' \in [Keys -> [waiting : {NoTable} \cup Tables, left : SUBSET Sessions]],
           reloads' = reloads
    PROVE  HubInv'
<1>1. /\ Acquire(k) /\ UNCHANGED <<entry, upstream, dying, made>>
      /\ HubTypeOK /\ HubTypes /\ Covered /\ Timed /\ Cached
    BY DEF StartSubscribe, HubInv, HubTypes
<1>2. /\ cached' \subseteq Keys /\ cached \cup {k} = cached'
      /\ refs' \in [Keys -> Nat] /\ refs'[k] = refs[k] + 1
      /\ \A j \in Keys \ {k} : refs'[j] = refs[j]
      /\ held' \in [Keys -> BOOLEAN] /\ timers' \in [Keys -> 0 .. MaxTimers]
      /\ HeldIsArmed' /\ Timed' /\ overdrawn' = overdrawn
    BY <1>1, AcquireCounts
<1>3. Cached'
    BY <1>1, <1>2 DEF Cached, Sound
<1>4. /\ k \in Sound => Bounded(k)
      /\ refs[k] \in Nat
      /\ Cardinality(Holders(k)) \in Nat /\ Cardinality(Pending(k)) \in Nat
      /\ IsFiniteSet(Holders(k)) /\ IsFiniteSet(Pending(k))
    BY <1>1, HoldersFinite DEF Covered, HubTypeOK
<1>5. CASE entry[k] # NoTable /\ Attach(s, k) /\ UNCHANGED ops
    <2>1. /\ subs' \in [Keys -> SUBSET Sessions] /\ listed' \in [Sessions -> SUBSET Keys]
          /\ open' \in [Sessions -> SUBSET Keys] /\ UNCHANGED <<stopped, gone, closing>>
          /\ Holders(k)' \subseteq Holders(k) \cup {s}
          /\ \A j \in Keys \ {k} : Holders(j)' \subseteq Holders(j)
        BY <1>1, <1>5, AttachHolds
    <2>2. \A j \in Keys : Pending(j)' = Pending(j)
        BY <1>5 DEF Pending
    <2>3. k \in Sound => Bounded(k)'
        <3>1. Cardinality(Holders(k)') \in Nat
              /\ Cardinality(Holders(k)') <= Cardinality(Holders(k)) + 1
            BY <2>1, <1>4, OneMoreCount
        <3> QED BY <3>1, <2>2, <1>2, <1>4 DEF Bounded
    <2>4. Covered'
        <3> QED BY <2>1, <2>2, <2>3, <1>2, CoveredButOne
    <2>5. HubTypes'
        BY <2>1, <1>1, <1>2, <1>5 DEF HubTypes, HubTypeOK
    <2> QED BY <2>1, <2>4, <2>5, <1>1, <1>2, <1>3 DEF HubInv
<1>6. CASE ops' = ops \cup {[session |-> s, key |-> k, table |-> NoTable, by |-> by]}
           /\ UNCHANGED <<subs, clients>>
    <2> DEFINE new == [session |-> s, key |-> k, table |-> NoTable, by |-> by]
    <2>1. new \in Op /\ new.key = k
        BY DEF Op
    <2>2. \A j \in Keys : Holders(j)' = Holders(j)
        BY <1>6 DEF Holders, Holds, clients
    <2>3. /\ Pending(k)' \subseteq Pending(k) \cup {new}
          /\ \A j \in Keys \ {k} : Pending(j)' = Pending(j)
        BY <2>1, <1>6 DEF Pending
    <2>4. k \in Sound => Bounded(k)'
        <3>1. Cardinality(Pending(k)') \in Nat
              /\ Cardinality(Pending(k)') <= Cardinality(Pending(k)) + 1
            BY <2>3, <1>4, OneMoreCount
        <3> QED BY <3>1, <2>2, <1>2, <1>4 DEF Bounded
    <2>5. Covered'
        BY <2>2, <2>3, <2>4, <1>2, CoveredButOne
    <2>6. IsFiniteSet(ops') /\ ops' \subseteq Op
        BY <2>1, <1>1, <1>6, FS_AddElement DEF HubTypes, HubTypeOK
    <2>7. HubTypes'
        BY <2>6, <1>1, <1>2, <1>6 DEF HubTypes, HubTypeOK, clients
    <2> QED BY <2>5, <2>7, <1>2, <1>3 DEF HubInv
<1> QED BY <1>5, <1>6 DEF StartSubscribe

\* The engine answers a subscribe, one way or the other.
LEMMA AnswerKeeps ==
    ASSUME HubInv, NEW op \in ops, EngineAnswers(op)
    PROVE  HubInv'
<1> DEFINE k == op.key
           s == op.session
<1>1. /\ HubTypeOK /\ HubTypes /\ Covered /\ Timed /\ Cached
      /\ op \in Op /\ k \in Keys /\ s \in Sessions /\ IsFiniteSet(ops)
    BY DEF HubInv, HubTypes, HubTypeOK, Op
<1>2. /\ k \in Sound => Bounded(k)
      /\ refs[k] \in Nat
      /\ Cardinality(Holders(k)) \in Nat /\ Cardinality(Pending(k)) \in Nat
      /\ IsFiniteSet(Holders(k)) /\ IsFiniteSet(Pending(k)) /\ op \in Pending(k)
    BY <1>1, HoldersFinite DEF Covered, HubTypeOK, Pending
<1>3. Cardinality(Pending(k)) >= 1
    BY <1>2, OneLessCount
<1>4. k \in Sound => k \in cached
    BY <1>1, <1>2, <1>3 DEF Bounded, Cached
<1>5. IsFiniteSet(ops \ {op})
    BY <1>1, FS_RemoveElement
<1>6. UNCHANGED <<registry, reloading>> /\ overdrawn' = overdrawn /\ Sound' = Sound
    BY DEF EngineAnswers, TableCreated, TableWatched, EngineFails, registry, Sound
<1>7. Timed' /\ HeldIsArmed'
    BY <1>1, <1>6 DEF Timed, HubTypes, HeldIsArmed, registry
<1>8. CASE TableCreated(op)
    <2> DEFINE new == [op EXCEPT !.table = made + 1]
    <2>1. /\ made < MaxTables /\ made' = made + 1 /\ entry' = [entry EXCEPT ![k] = made + 1]
          /\ subs' = [subs EXCEPT ![k] = {}] /\ ops' = (ops \ {op}) \cup {new}
          /\ UNCHANGED <<upstream, dying, clients>>
        BY <1>8 DEF TableCreated
    <2>2. made + 1 \in Tables /\ made + 1 \in 0 .. MaxTables
        BY <2>1, <1>1, HubAssumption DEF HubTypeOK, Tables
    <2>3. new \in Op /\ new.key = k
        BY <2>2, <1>1 DEF Op
    <2>4. IsFiniteSet(ops') /\ ops' \subseteq Op
        BY <2>1, <2>3, <1>1, <1>5, FS_AddElement DEF HubTypeOK
    <2>5. \A j \in Keys : subs'[j] \subseteq subs[j]
        BY <2>1, <1>1 DEF HubTypeOK
    <2>6. \A j \in Keys : Holders(j)' \subseteq Holders(j)
        BY <2>1, <2>5 DEF Holders, Holds, clients
    <2>7. /\ Pending(k)' \subseteq (Pending(k) \ {op}) \cup {new}
          /\ \A j \in Keys \ {k} : Pending(j)' \subseteq Pending(j)
        BY <2>1, <2>3 DEF Pending
    <2>8. k \in Sound => Bounded(k)'
        <3>1. IsFiniteSet(Pending(k) \ {op})
              /\ Cardinality(Pending(k) \ {op}) <= Cardinality(Pending(k)) - 1
              /\ Cardinality(Pending(k) \ {op}) \in Nat
            <4> HIDE DEF k
            <4> QED BY <1>2, FS_RemoveElement, OneLessCount
        <3>2. Cardinality(Pending(k)') \in Nat
              /\ Cardinality(Pending(k)') <= Cardinality(Pending(k) \ {op}) + 1
            BY <3>1, <2>7, OneMoreCount
        <3>3. Cardinality(Holders(k)') \in Nat
              /\ Cardinality(Holders(k)') <= Cardinality(Holders(k))
            BY <2>6, <1>1, <1>2, SubsetCount
        <3> QED BY <3>1, <3>2, <3>3, <1>2, <1>6 DEF Bounded, registry
    <2>9. Covered'
        <3>1. \A j \in Keys \ {k} : refs'[j] = refs[j]
            BY <1>6 DEF registry
        <3> QED BY <3>1, <2>6, <2>7, <2>8, <1>1, <1>6, CoveredButOne
    <2>10. HubTypeOK'
        <3>1. entry' \in [Keys -> {NoTable} \cup Tables] /\ subs' \in [Keys -> SUBSET Sessions]
            BY <2>1, <2>2, <1>1 DEF HubTypeOK
        <3> QED BY <3>1, <2>1, <2>2, <2>4, <1>1, <1>6 DEF HubTypeOK, registry, reloading, clients
    <2>11. Cached'
        <3>1. \A j \in Keys \ {k} : entry'[j] = entry[j]
            BY <2>1, <1>1 DEF HubTypeOK
        <3> QED BY <3>1, <1>1, <1>4, <1>6 DEF Cached, Sound, registry
    <2> QED BY <2>4, <2>9, <2>10, <2>11, <1>7 DEF HubInv, HubTypes
<1>9. CASE TableWatched(op) /\ entry[k] # NoTable
    <2>1. /\ op.table # NoTable /\ ops' = ops \ {op} /\ upstream' = upstream \cup {op.table}
          /\ Attach(s, k) /\ UNCHANGED <<entry, dying, made>>
        BY <1>9 DEF TableWatched
    <2>2. /\ subs' \in [Keys -> SUBSET Sessions] /\ listed' \in [Sessions -> SUBSET Keys]
          /\ open' \in [Sessions -> SUBSET Keys] /\ UNCHANGED <<stopped, gone, closing>>
          /\ Holders(k)' \subseteq Holders(k) \cup {s}
          /\ \A j \in Keys \ {k} : Holders(j)' \subseteq Holders(j)
        BY <2>1, <1>1, AttachHolds
    <2>3. /\ Pending(k)' \subseteq Pending(k) \ {op}
          /\ \A j \in Keys \ {k} : Pending(j)' \subseteq Pending(j)
        BY <2>1 DEF Pending
    <2>4. k \in Sound => Bounded(k)'
        <3>1. Cardinality(Holders(k)') \in Nat
              /\ Cardinality(Holders(k)') <= Cardinality(Holders(k)) + 1
            BY <2>2, <1>2, OneMoreCount
        <3>2. Cardinality(Pending(k)') \in Nat
              /\ Cardinality(Pending(k)') <= Cardinality(Pending(k)) - 1
            BY <2>3, <1>2, OneLessCount
        <3> QED BY <3>1, <3>2, <1>2, <1>6 DEF Bounded, registry
    <2>5. Covered'
        <3>1. \A j \in Keys \ {k} : refs'[j] = refs[j]
            BY <1>6 DEF registry
        <3> QED BY <3>1, <2>2, <2>3, <2>4, <1>1, <1>6, CoveredButOne
    <2>6. HubTypeOK'
        <3>1. op.table \in Tables
            BY <2>1, <1>1 DEF Op
        <3>2. upstream' \subseteq Tables /\ ops' \subseteq Op
            BY <3>1, <2>1, <1>1 DEF HubTypeOK
        <3> QED BY <3>2, <2>1, <2>2, <1>1, <1>6 DEF HubTypeOK, registry, reloading
    <2>7. Cached'
        BY <2>1, <1>1, <1>6 DEF Cached, registry
    <2> QED BY <2>1, <2>2, <2>5, <2>6, <2>7, <1>5, <1>7 DEF HubInv, HubTypes
<1>10. CASE EngineFails(op) \/ (TableWatched(op) /\ entry[k] = NoTable)
    <2>1. ops' = ops \ {op} /\ Refuse(s, k) /\ UNCHANGED hub
        BY <1>10 DEF EngineFails, TableWatched, hub
    <2>2. /\ open' \in [Sessions -> SUBSET Keys] /\ UNCHANGED <<listed, stopped, gone, closing>>
          /\ \A j \in Keys : Holders(j)' \subseteq Holders(j)
        BY <2>1, <1>1, RefuseHolds DEF hub
    <2>3. \A j \in Keys : Pending(j)' \subseteq Pending(j) /\ refs'[j] = refs[j]
        BY <2>1, <1>6 DEF Pending, registry
    <2>4. Covered'
        BY <2>2, <2>3, <1>6, CoveredAll
    <2>5. HubTypeOK'
        <3>1. ops' \subseteq Op
            BY <2>1, <1>1 DEF HubTypeOK
        <3> QED BY <3>1, <2>1, <2>2, <1>1, <1>6 DEF HubTypeOK, registry, reloading, hub
    <2>6. Cached'
        BY <2>1, <1>1, <1>6 DEF Cached, registry, hub
    <2> QED BY <2>1, <2>2, <2>4, <2>5, <2>6, <1>5, <1>7 DEF HubInv, HubTypes
<1> QED BY <1>8, <1>9, <1>10 DEF EngineAnswers, TableWatched

-----------------------------------------------------------------------------
(* Leaving: a key that is sound afterwards was released only by a session   *)
(* that held it, and once.                                                  *)

LEMMA ArmedCounts ==
    ASSUME NEW k \in Keys, refs[k] \in Nat, NEW n \in Nat
    PROVE  /\ Armed(k, n) \in Nat
           /\ n = 0 => Armed(k, n) = 0
           /\ n = 1 => Armed(k, n) = IF k \in cached \ Prewarm /\ refs[k] <= 1 THEN 1 ELSE 0
<1> DEFINE at == {i \in 1..n : i >= refs[k]}
<1>1. IsFiniteSet(at) /\ Cardinality(at) \in Nat
    <2>1. 1 \in Int /\ n \in Int /\ at \subseteq 1..n
        OBVIOUS
    <2>2. IsFiniteSet(1..n)
        BY <2>1, FS_Interval
    <2> HIDE DEF at
    <2> QED BY <2>1, <2>2, SubsetCount
<1>2. n = 0 => Cardinality(at) = 0
    BY FS_EmptySet
<1>3. n = 1 => at = IF refs[k] <= 1 THEN {1} ELSE {}
    OBVIOUS
<1>4. n = 1 => Cardinality(at) = IF refs[k] <= 1 THEN 1 ELSE 0
    BY <1>3, FS_EmptySet, FS_Singleton
<1> QED BY <1>1, <1>2, <1>4 DEF Armed

LEMMA LeaveCounts ==
    ASSUME HubInv, NEW s \in Sessions, NEW keys \in SUBSET Keys, NEW times \in [Keys -> Nat],
           Leave(s, keys, times),
           \A k \in cached : times[k] > 0 => s \notin Holders(k)',
           \A k \in Keys : Holders(k)' \subseteq Holders(k)
    PROVE  /\ cached' \subseteq Keys /\ refs' \in [Keys -> Nat] /\ held' \in [Keys -> BOOLEAN]
           /\ timers' \in [Keys -> 0 .. MaxTimers] /\ subs' \in [Keys -> SUBSET Sessions]
           /\ overdrawn' \subseteq Keys
           /\ IsFiniteSet(ops') /\ HeldIsArmed' /\ Timed' /\ Covered' /\ Cached'
           /\ \A k \in Keys : subs'[k] \subseteq subs[k]
<1>1. /\ \A k \in Keys : timers[k] + Armed(k, times[k]) <= MaxTimers
      /\ refs' = [k \in Keys |-> IF k \in cached THEN Lowered(refs[k], times[k]) ELSE refs[k]]
      /\ held' = [k \in Keys |-> Armed(k, times[k]) > 0 \/ held[k]]
      /\ timers' = [k \in Keys |-> timers[k] + Armed(k, times[k])]
      /\ overdrawn' = overdrawn \cup
             {k \in cached : times[k] > (IF Holds(s, k) THEN 1 ELSE 0)}
      /\ subs' = [k \in Keys |-> IF k \in keys THEN subs[k] \ {s} ELSE subs[k]]
      /\ UNCHANGED <<cached, ops, entry>>
    BY DEF Leave, Release
<1>2. /\ cached \subseteq Keys /\ refs \in [Keys -> Nat] /\ held \in [Keys -> BOOLEAN]
      /\ timers \in [Keys -> 0 .. MaxTimers] /\ subs \in [Keys -> SUBSET Sessions]
      /\ overdrawn \subseteq Keys /\ MaxTimers \in Nat /\ IsFiniteSet(ops) /\ HubTypes
      /\ HeldIsArmed /\ Timed /\ Covered /\ Cached
    BY HubAssumption DEF HubInv, HubTypes, HubTypeOK
<1>3. \A k \in Keys :
        /\ Armed(k, times[k]) \in Nat
        /\ times[k] = 0 => Armed(k, times[k]) = 0
        /\ times[k] = 1 =>
               Armed(k, times[k]) = IF k \in cached \ Prewarm /\ refs[k] <= 1 THEN 1 ELSE 0
    BY <1>2, ArmedCounts
<1>4. Sound' \subseteq Sound /\ \A k \in Sound' : k \in Keys /\ k \in Sound
    BY <1>1 DEF Sound
<1>5. ASSUME NEW k \in Sound', ~(times[k] = 1 /\ k \in cached)
      PROVE  refs'[k] = refs[k] /\ held'[k] = held[k] /\ timers'[k] = timers[k]
    <2>1. k \in Keys /\ times[k] \in Nat /\ refs[k] \in Nat /\ timers[k] \in Nat
          /\ held[k] \in BOOLEAN
        BY <1>2, <1>4
    <2>2. CASE k \notin cached
        <3>1. Armed(k, times[k]) = 0
            BY <2>2 DEF Armed
        <3> QED BY <2>1, <2>2, <3>1, <1>1
    <2>3. CASE k \in cached
        <3>1. times[k] = 0
            BY <1>1, <1>5, <2>1, <2>3 DEF Sound
        <3>2. Armed(k, times[k]) = 0 /\ Lowered(refs[k], times[k]) = refs[k]
            BY <2>1, <3>1, <1>3 DEF Lowered
        <3> QED BY <2>1, <2>3, <3>2, <1>1
    <2> QED BY <2>2, <2>3
<1>6. ASSUME NEW k \in Sound', times[k] = 1, k \in cached
      PROVE  /\ s \in Holders(k) /\ refs[k] >= 1 /\ timers[k] = 0 /\ refs'[k] = refs[k] - 1
             /\ (timers'[k] = 1 => held'[k] /\ refs'[k] = 0)
             /\ timers'[k] \in {0, 1}
    <2>1. k \in Keys /\ k \in Sound
        BY <1>4
    <2>2. s \in Holders(k)
        BY <1>1, <1>6, <2>1 DEF Sound, Holders
    <2>3. refs[k] >= 1 /\ timers[k] = 0 /\ refs[k] \in Nat
        BY <2>1, <2>2, HolderIsCounted
    <2>4. Lowered(refs[k], times[k]) = refs[k] - 1
        BY <1>6, <2>3 DEF Lowered
    <2>5. refs'[k] = refs[k] - 1
        BY <1>1, <1>6, <2>1, <2>4
    <2>6. /\ timers'[k] = Armed(k, times[k]) /\ Armed(k, times[k]) \in {0, 1}
          /\ Armed(k, times[k]) = 1 => refs[k] <= 1
        BY <1>1, <1>3, <1>6, <2>1, <2>3
    <2>7. Armed(k, times[k]) > 0 => held'[k]
        BY <1>1, <2>1
    <2> QED BY <2>2, <2>3, <2>5, <2>6, <2>7
<1>7. refs' \in [Keys -> Nat]
    <2>1. \A k \in Keys : Lowered(refs[k], times[k]) \in Nat
        BY <1>2 DEF Lowered
    <2> QED BY <2>1, <1>1, <1>2
<1>8. held' \in [Keys -> BOOLEAN]
    BY <1>1, <1>2, <1>3
<1>9. timers' \in [Keys -> 0 .. MaxTimers]
    <2>1. \A k \in Keys : timers[k] + Armed(k, times[k]) \in 0 .. MaxTimers
        BY <1>1, <1>2, <1>3
    <2> QED BY <2>1, <1>1
<1>10. subs' \in [Keys -> SUBSET Sessions] /\ \A k \in Keys : subs'[k] \subseteq subs[k]
    BY <1>1, <1>2
<1>11. HeldIsArmed'
    <2>1. ASSUME NEW k \in Keys, held'[k] PROVE timers'[k] > 0
        <3>1. /\ timers'[k] = timers[k] + Armed(k, times[k]) /\ Armed(k, times[k]) \in Nat
              /\ timers[k] \in Nat
            BY <1>1, <1>2, <1>3
        <3>2. Armed(k, times[k]) > 0 \/ held[k]
            BY <2>1, <1>1
        <3>3. held[k] => timers[k] > 0
            BY <1>2 DEF HeldIsArmed
        <3> QED BY <3>1, <3>2, <3>3
    <2> QED BY <2>1 DEF HeldIsArmed
<1>12. Timed'
    <2>1. ASSUME NEW k \in Sound', timers'[k] > 0
          PROVE  timers'[k] = 1 /\ held'[k] /\ refs'[k] = 0 /\ k \in cached'
        <3>1. CASE times[k] = 1 /\ k \in cached
            <4>1. timers'[k] \in {0, 1} /\ (timers'[k] = 1 => held'[k] /\ refs'[k] = 0)
                BY <3>1, <1>6
            <4>2. timers'[k] = 1
                BY <2>1, <4>1
            <4> QED BY <3>1, <4>1, <4>2, <1>1
        <3>2. CASE ~(times[k] = 1 /\ k \in cached)
            BY <2>1, <3>2, <1>1, <1>2, <1>4, <1>5 DEF Timed
        <3> QED BY <3>1, <3>2
    <2> QED BY <2>1 DEF Timed
<1>13. Covered'
    <2>1. \A k \in Keys : Pending(k)' = Pending(k)
        BY <1>1 DEF Pending
    <2>2. ASSUME NEW k \in Sound', ~(times[k] = 1 /\ k \in cached) PROVE Bounded(k)'
        <3>1. k \in Keys /\ refs[k] \in Nat /\ Bounded(k) /\ refs'[k] = refs[k]
            BY <2>2, <1>2, <1>4, <1>5 DEF Covered
        <3> QED BY <3>1, <2>1, <1>2, FewerCovered
    <2>3. ASSUME NEW k \in Sound', times[k] = 1, k \in cached PROVE Bounded(k)'
        <3>1. /\ k \in Keys /\ Bounded(k) /\ refs[k] \in Nat /\ Cardinality(Pending(k)) \in Nat
              /\ IsFiniteSet(Holders(k)) /\ s \in Holders(k) /\ refs'[k] = refs[k] - 1
            BY <2>3, <1>2, <1>4, <1>6, HoldersFinite DEF Covered
        <3>2. Holders(k)' \subseteq Holders(k) \ {s}
            BY <2>3, <3>1
        <3>3. /\ Cardinality(Holders(k)') \in Nat /\ Cardinality(Holders(k)) \in Nat
              /\ Cardinality(Holders(k)') <= Cardinality(Holders(k)) - 1
            BY <3>1, <3>2, OneLessCount
        <3> QED BY <3>1, <3>3, <2>1 DEF Bounded
    <2> QED BY <2>2, <2>3 DEF Covered
<1>14. Cached'
    <2>1. \A k \in Keys : k \notin cached' => refs'[k] = 0
        BY <1>1, <1>2 DEF Cached
    <2>2. \A k \in Sound' : k \notin cached' => entry'[k] = NoTable
        BY <1>1, <1>2, <1>4 DEF Cached
    <2> QED BY <2>1, <2>2 DEF Cached
<1>15. overdrawn' \subseteq Keys
    BY <1>1, <1>2
<1> QED BY <1>1, <1>2, <1>7, <1>8, <1>9, <1>10, <1>11, <1>12, <1>13, <1>14, <1>15

LEMMA UnsubscribeKeeps ==
    ASSUME HubInv, NEW s \in Sessions, NEW k \in Keys, Unsubscribe(s, k)
    PROVE  HubInv'
<1> DEFINE times == [j \in Keys |-> IF j = k THEN 1 ELSE 0]
<1>1. /\ s \notin gone /\ Leave(s, {k}, times)
      /\ listed' = [listed EXCEPT ![s] = listed[s] \ {k}]
      /\ open' = [open EXCEPT ![s] = open[s] \ {k}]
      /\ stopped' = [stopped EXCEPT ![s] = IF Repeats THEN stopped[s] \cup {k} ELSE stopped[s]]
      /\ UNCHANGED <<gone, closing>>
    BY DEF Unsubscribe
<1>2. /\ HubTypeOK
      /\ listed \in [Sessions -> SUBSET Keys] /\ open \in [Sessions -> SUBSET Keys]
      /\ subs \in [Keys -> SUBSET Sessions] /\ stopped \in [Sessions -> SUBSET Keys]
    BY DEF HubInv, HubTypes, HubTypeOK
<1>3. /\ subs' = [j \in Keys |-> IF j \in {k} THEN subs[j] \ {s} ELSE subs[j]]
      /\ UNCHANGED <<entry, upstream, dying, made, ops, reloading>>
    BY <1>1 DEF Leave
<1>4. /\ \A t \in Sessions : listed'[t] \subseteq listed[t]
      /\ listed'[s] = listed[s] \ {k}
    BY <1>1, <1>2
<1>5. subs'[k] = subs[k] \ {s} /\ \A j \in Keys \ {k} : subs'[j] = subs[j]
    BY <1>2, <1>3
<1>6. \A j \in Keys : Holders(j)' \subseteq Holders(j)
    <2>1. ASSUME NEW j \in Keys, NEW t \in Holders(j)' PROVE t \in Holders(j)
        <3>1. subs'[j] \subseteq subs[j]
            BY <1>5, <2>1
        <3> QED BY <2>1, <3>1, <1>1, <1>4 DEF Holders, Holds
    <2> QED BY <2>1
<1>7. \A j \in cached : times[j] > 0 => s \notin Holders(j)'
    <2>1. s \notin Holders(k)'
        BY <1>1, <1>4, <1>5 DEF Holders, Holds
    <2>2. ASSUME NEW j \in cached, times[j] > 0 PROVE j = k
        <3>1. j \in Keys
            BY <2>2, <1>2 DEF HubTypeOK
        <3>2. times[j] = IF j = k THEN 1 ELSE 0
            BY <3>1
        <3> QED BY <2>2, <3>2
    <2> QED BY <2>1, <2>2
<1>8. times \in [Keys -> Nat]
    OBVIOUS
<1> HIDE DEF times
<1>9. /\ cached' \subseteq Keys /\ refs' \in [Keys -> Nat] /\ held' \in [Keys -> BOOLEAN]
      /\ timers' \in [Keys -> 0 .. MaxTimers] /\ subs' \in [Keys -> SUBSET Sessions]
      /\ overdrawn' \subseteq Keys
      /\ IsFiniteSet(ops') /\ HeldIsArmed' /\ Timed' /\ Covered' /\ Cached'
    BY <1>1, <1>6, <1>7, <1>8, LeaveCounts
<1>10. HubTypeOK'
    <2>1. listed' \in [Sessions -> SUBSET Keys] /\ open' \in [Sessions -> SUBSET Keys]
          /\ stopped' \in [Sessions -> SUBSET Keys]
        BY <1>1, <1>2
    <2> QED BY <2>1, <1>1, <1>2, <1>3, <1>9 DEF HubTypeOK, reloading
<1> QED BY <1>9, <1>10 DEF HubInv, HubTypes

\* What a session's end leaves: it is gone, and off the tables it released.
LEMMA EndKeeps ==
    ASSUME HubInv, NEW s \in Sessions, NEW keys \in SUBSET Keys, NEW times \in [Keys -> Nat],
           Leave(s, keys, times), \A k \in cached : times[k] > 0 => k \in keys,
           listed' \in [Sessions -> SUBSET Keys], \A t \in Sessions : listed'[t] \subseteq listed[t],
           gone' = gone \cup {s}, closing' \subseteq gone', stopped' = stopped,
           open' \in [Sessions -> SUBSET Keys]
    PROVE  HubInv'
<1>1. HubTypeOK /\ subs \in [Keys -> SUBSET Sessions]
    BY DEF HubInv, HubTypes, HubTypeOK
<1>2. /\ subs' = [k \in Keys |-> IF k \in keys THEN subs[k] \ {s} ELSE subs[k]]
      /\ UNCHANGED <<entry, upstream, dying, made, ops, reloading>>
    BY DEF Leave
<1>3. \A k \in Keys : subs'[k] = IF k \in keys THEN subs[k] \ {s} ELSE subs[k]
    BY <1>1, <1>2
<1>4. \A k \in Keys : Holders(k)' \subseteq Holders(k)
    BY <1>3 DEF Holders, Holds
<1>5. \A k \in cached : times[k] > 0 => s \notin Holders(k)'
    BY <1>1, <1>3 DEF Holders, Holds, HubTypeOK
<1>6. /\ cached' \subseteq Keys /\ refs' \in [Keys -> Nat] /\ held' \in [Keys -> BOOLEAN]
      /\ timers' \in [Keys -> 0 .. MaxTimers] /\ subs' \in [Keys -> SUBSET Sessions]
      /\ overdrawn' \subseteq Keys
      /\ IsFiniteSet(ops') /\ HeldIsArmed' /\ Timed' /\ Covered' /\ Cached'
    BY <1>4, <1>5, LeaveCounts
<1>7. gone' \subseteq Sessions
    BY <1>1 DEF HubTypeOK
<1>8. HubTypeOK'
    BY <1>1, <1>2, <1>6, <1>7 DEF HubTypeOK, reloading
<1> QED BY <1>6, <1>8 DEF HubInv, HubTypes

LEMMA CloseKeeps ==
    ASSUME HubInv, NEW s \in Sessions,
           ReleaseSession(s) \/ SidecarClose(s) \/ SocketCloses(s)
    PROVE  HubInv'
<1>1. /\ listed \in [Sessions -> SUBSET Keys] /\ open \in [Sessions -> SUBSET Keys]
      /\ closing \subseteq gone /\ cached \subseteq Keys
    BY DEF HubInv, HubTypes, HubTypeOK
<1>2. CASE ReleaseSession(s)
    <2> DEFINE times == [k \in Keys |-> IF k \in listed[s] THEN 1 ELSE 0]
    <2>1. /\ gone' = gone \cup {s} /\ open' = [open EXCEPT ![s] = {}] /\ stopped' = stopped
          /\ Leave(s, listed[s], times) /\ listed' = listed /\ closing' = closing
        BY <1>2 DEF ReleaseSession, Disconnect
    <2>2. /\ listed[s] \in SUBSET Keys /\ times \in [Keys -> Nat]
          /\ \A k \in cached : times[k] > 0 => k \in listed[s]
        BY <1>1
    <2>3. /\ open' \in [Sessions -> SUBSET Keys] /\ listed' \in [Sessions -> SUBSET Keys]
          /\ closing' \subseteq gone' /\ \A t \in Sessions : listed'[t] \subseteq listed[t]
        BY <1>1, <2>1
    <2> HIDE DEF times
    <2> QED BY <2>1, <2>2, <2>3, EndKeeps
<1>3. CASE SidecarClose(s) \/ SocketCloses(s)
    <2> DEFINE found == {k \in cached : Stripped(s)[k] > 0}
    <2>1. /\ Leave(s, found, Stripped(s))
          /\ listed' = [listed EXCEPT ![s] = listed[s] \ found]
          /\ gone' = gone \cup {s} /\ stopped' = stopped
          /\ open' = open \/ open' = [open EXCEPT ![s] = {}]
          /\ closing' \subseteq closing \cup {s}
        BY <1>1, <1>3 DEF SidecarClose, SocketCloses, SidecarTeardown, Disconnect
    <2>2. Stripped(s) \in [Keys -> Nat]
        <3>1. ASSUME NEW k \in Keys PROVE Cardinality({j \in listed[s] : BareOf[j] = k}) \in Nat
            <4>1. {j \in listed[s] : BareOf[j] = k} \subseteq Keys
                BY <1>1
            <4> QED BY <4>1, HubAssumption, SubsetCount
        <3> QED BY <3>1 DEF Stripped
    <2>3. found \in SUBSET Keys /\ \A k \in cached : Stripped(s)[k] > 0 => k \in found
        BY <1>1
    <2>4. /\ open' \in [Sessions -> SUBSET Keys] /\ listed' \in [Sessions -> SUBSET Keys]
          /\ closing' \subseteq gone' /\ \A t \in Sessions : listed'[t] \subseteq listed[t]
        BY <1>1, <2>1
    <2> HIDE DEF found
    <2> QED BY <2>1, <2>2, <2>3, <2>4, EndKeeps
<1> QED BY <1>2, <1>3

\* Taking sessions off an entry, with nothing released.
LEMMA DropKeeps ==
    ASSUME HubInv, NEW s \in Sessions, NEW k \in Keys, DropSlow(s, k)
    PROVE  HubInv'
<1>1. /\ subs' = [subs EXCEPT ![k] = subs[k] \ {s}]
      /\ listed' = [listed EXCEPT ![s] = listed[s] \ {k}]
      /\ open' = [open EXCEPT ![s] = open[s] \ {k}]
      /\ UNCHANGED <<registry, entry, upstream, dying, made, ops, stopped, gone, closing, reloading>>
    BY DEF DropSlow
<1>2. /\ HubTypeOK /\ HubTypes /\ Timed /\ Cached /\ HeldIsArmed
      /\ listed \in [Sessions -> SUBSET Keys] /\ open \in [Sessions -> SUBSET Keys]
      /\ subs \in [Keys -> SUBSET Sessions]
    BY DEF HubInv, HubTypes, HubTypeOK
<1>3. /\ \A t \in Sessions : /\ listed'[t] = IF t = s THEN listed[t] \ {k} ELSE listed[t]
                             /\ open'[t] \subseteq open[t]
      /\ \A j \in Keys : subs'[j] = IF j = k THEN subs[j] \ {s} ELSE subs[j]
      /\ \A j \in Keys : refs'[j] = refs[j]
    BY <1>1, <1>2 DEF registry
<1>4. \A j \in Keys : Holders(j)' \subseteq Holders(j) /\ Pending(j)' \subseteq Pending(j)
    BY <1>1, <1>3 DEF Holders, Holds, Pending
<1>5. Covered'
    BY <1>1, <1>3, <1>4, CoveredAll DEF registry
<1>6. HubTypeOK'
    BY <1>1, <1>2 DEF HubTypeOK, registry, reloading
<1>7. Timed' /\ Cached' /\ HeldIsArmed' /\ IsFiniteSet(ops')
    BY <1>1, <1>2, <1>3 DEF Timed, Cached, HeldIsArmed, Sound, registry, HubTypes
<1> QED BY <1>5, <1>6, <1>7 DEF HubInv, HubTypes

-----------------------------------------------------------------------------
(* Tearing down and reloading.                                              *)

LEMMA TeardownHolds ==
    ASSUME HubInv, NEW k \in Keys, Teardown(k), UNCHANGED clients
    PROVE  /\ entry' \in [Keys -> {NoTable} \cup Tables] /\ subs' \in [Keys -> SUBSET Sessions]
           /\ upstream' \subseteq Tables /\ dying' \subseteq Tables
           /\ \A j \in Keys : Holders(j)' \subseteq Holders(j)
           /\ entry'[k] = NoTable /\ \A j \in Keys \ {k} : entry'[j] = entry[j]
<1>1. /\ entry' = [entry EXCEPT ![k] = NoTable] /\ subs' = [subs EXCEPT ![k] = {}]
      /\ upstream' = upstream \ {entry[k]} /\ dying' = dying \cup ({entry[k]} \ {NoTable})
      /\ UNCHANGED <<listed, open, stopped, gone, closing>>
    BY DEF Teardown, clients
<1>2. /\ entry \in [Keys -> {NoTable} \cup Tables] /\ subs \in [Keys -> SUBSET Sessions]
      /\ upstream \subseteq Tables /\ dying \subseteq Tables
    BY DEF HubInv, HubTypes, HubTypeOK
<1>3. \A j \in Keys : subs'[j] \subseteq subs[j]
    BY <1>1, <1>2
<1>4. \A j \in Keys : Holders(j)' \subseteq Holders(j)
    BY <1>1, <1>3 DEF Holders, Holds
<1> QED BY <1>1, <1>2, <1>4

LEMMA TimerKeeps ==
    ASSUME HubInv, NEW k \in Keys, TimerFires(k)
    PROVE  /\ HubInv'
           /\ k \in cached /\ k \notin overdrawn => subs[k] = {} /\ Pending(k) = {}
<1>1. /\ timers[k] > 0 /\ timers' = [timers EXCEPT ![k] = timers[k] - 1]
      /\ cached' = cached \ {k} /\ refs' = [refs EXCEPT ![k] = 0]
      /\ held' = [held EXCEPT ![k] = FALSE] /\ Teardown(k)
      /\ UNCHANGED <<overdrawn, ops, clients, reloading, made>>
    BY DEF TimerFires, Teardown
<1>2. /\ HubTypeOK /\ HubTypes /\ Timed /\ Cached /\ HeldIsArmed /\ Covered /\ IsFiniteSet(ops)
      /\ cached \subseteq Keys /\ refs \in [Keys -> Nat] /\ held \in [Keys -> BOOLEAN]
      /\ timers \in [Keys -> 0 .. MaxTimers] /\ MaxTimers \in Nat
    BY HubAssumption DEF HubInv, HubTypes, HubTypeOK
<1>3. k \in Sound => timers[k] = 1 /\ refs[k] = 0
    BY <1>1, <1>2 DEF Timed
<1>4. /\ entry' \in [Keys -> {NoTable} \cup Tables] /\ subs' \in [Keys -> SUBSET Sessions]
      /\ upstream' \subseteq Tables /\ dying' \subseteq Tables
      /\ \A j \in Keys : Holders(j)' \subseteq Holders(j)
      /\ entry'[k] = NoTable /\ \A j \in Keys \ {k} : entry'[j] = entry[j]
    BY <1>1, TeardownHolds
<1>5. /\ timers'[k] = timers[k] - 1 /\ timers'[k] \in 0 .. MaxTimers /\ ~held'[k] /\ refs'[k] = 0
      /\ \A j \in Keys \ {k} : /\ timers'[j] = timers[j] /\ held'[j] = held[j]
                              /\ refs'[j] = refs[j] /\ (j \in cached' <=> j \in cached)
      /\ timers' \in [Keys -> 0 .. MaxTimers] /\ held' \in [Keys -> BOOLEAN]
      /\ refs' \in [Keys -> Nat]
    BY <1>1, <1>2
<1>6. Sound' = Sound /\ Sound \subseteq Keys
    BY <1>1 DEF Sound
<1>7. \A j \in Keys : Pending(j)' = Pending(j)
    BY <1>1 DEF Pending
<1>8. Covered'
    <2>1. k \in Sound => Bounded(k)'
        <3>1. k \in Sound => refs'[k] = refs[k] /\ Bounded(k) /\ refs[k] \in Nat
            BY <1>2, <1>3, <1>5 DEF Covered
        <3> QED BY <3>1, <1>2, <1>4, <1>7, FewerCovered
    <2> QED BY <2>1, <1>1, <1>4, <1>5, <1>7, CoveredButOne
<1>9. HubTypeOK'
    BY <1>1, <1>2, <1>4, <1>5 DEF HubTypeOK, clients, reloading
<1>10. HeldIsArmed'
    BY <1>2, <1>5 DEF HeldIsArmed
<1>11. Timed'
    <2>1. ASSUME NEW j \in Sound, timers'[j] > 0
          PROVE  timers'[j] = 1 /\ held'[j] /\ refs'[j] = 0 /\ j \in cached'
        <3>1. j # k
            BY <2>1, <1>3, <1>5
        <3> QED BY <2>1, <3>1, <1>2, <1>5, <1>6 DEF Timed
    <2> QED BY <2>1, <1>6 DEF Timed
<1>12. Cached'
    <2>1. \A j \in Keys : j \notin cached' => refs'[j] = 0
        BY <1>2, <1>5 DEF Cached
    <2>2. \A j \in Sound : j \notin cached' => entry'[j] = NoTable
        BY <1>2, <1>4, <1>5, <1>6 DEF Cached
    <2> QED BY <2>1, <2>2, <1>6 DEF Cached
<1>13. k \in Sound => subs[k] = {} /\ Pending(k) = {}
    <2> SUFFICES ASSUME k \in Sound PROVE subs[k] = {} /\ Pending(k) = {}
        OBVIOUS
    <2>1. Cardinality(Holders(k)) + Cardinality(Pending(k)) <= 0
        BY <1>2, <1>3 DEF Covered, Bounded
    <2>2. Cardinality(Holders(k)) = 0 /\ Cardinality(Pending(k)) = 0
          /\ IsFiniteSet(Holders(k)) /\ IsFiniteSet(Pending(k))
        BY <2>1, <1>2, HoldersFinite
    <2>3. Holders(k) = {} /\ Pending(k) = {}
        BY <2>2, FS_EmptySet
    <2>4. subs[k] \subseteq Holders(k)
        BY <1>2 DEF HubTypeOK, Holders, Holds
    <2> QED BY <2>3, <2>4
<1> QED BY <1>1, <1>2, <1>8, <1>9, <1>10, <1>11, <1>12, <1>13 DEF HubInv, HubTypes, Sound

LEMMA ReloadKeeps ==
    ASSUME HubInv, NEW k \in Keys, Reload(k)
    PROVE  HubInv'
<1>1. /\ reloads < MaxReloads /\ reloads' = reloads + 1 /\ Teardown(k)
      /\ reload' = [reload EXCEPT ![k] = [waiting |-> entry[k], left |-> subs[k]]]
      /\ UNCHANGED <<registry, ops, clients, made>>
    BY DEF Reload, Teardown
<1>2. /\ HubTypeOK /\ HubTypes /\ Timed /\ Cached /\ HeldIsArmed /\ IsFiniteSet(ops)
      /\ entry[k] \in {NoTable} \cup Tables /\ subs[k] \in SUBSET Sessions
      /\ MaxReloads \in Nat
    BY HubAssumption DEF HubInv, HubTypes, HubTypeOK
<1>3. /\ entry' \in [Keys -> {NoTable} \cup Tables] /\ subs' \in [Keys -> SUBSET Sessions]
      /\ upstream' \subseteq Tables /\ dying' \subseteq Tables
      /\ \A j \in Keys : Holders(j)' \subseteq Holders(j)
      /\ entry'[k] = NoTable /\ \A j \in Keys \ {k} : entry'[j] = entry[j]
    BY <1>1, TeardownHolds
<1>4. Covered'
    <2>1. \A j \in Keys : Pending(j)' \subseteq Pending(j) /\ refs'[j] = refs[j]
        BY <1>1 DEF Pending, registry
    <2> QED BY <2>1, <1>1, <1>3, CoveredAll DEF registry
<1>5. HubTypeOK'
    <2>1. reload' \in [Keys -> [waiting : {NoTable} \cup Tables, left : SUBSET Sessions]]
          /\ reloads' \in 0 .. MaxReloads
        BY <1>1, <1>2 DEF HubTypeOK
    <2> QED BY <2>1, <1>1, <1>2, <1>3 DEF HubTypeOK, clients, registry
<1>6. HeldIsArmed' /\ Timed' /\ Cached'
    BY <1>1, <1>2, <1>3 DEF HeldIsArmed, Timed, Cached, Sound, registry
<1> QED BY <1>1, <1>2, <1>3, <1>4, <1>5, <1>6 DEF HubInv, HubTypes

LEMMA ResubscribeTypes ==
    ASSUME HubInv, NEW s \in Sessions, NEW k \in Keys, MayResubscribe(s, k)
    PROVE  /\ reload' \in [Keys -> [waiting : {NoTable} \cup Tables, left : SUBSET Sessions]]
           /\ reloads' = reloads
BY DEF MayResubscribe, HubInv, HubTypes, HubTypeOK

LEMMA RefusedKeeps ==
    ASSUME HubInv, NEW s \in Sessions, NEW k \in Keys, ResubscribeRefused(s, k)
    PROVE  HubInv'
<1>1. /\ MayResubscribe(s, k) /\ Refuse(s, k) /\ UNCHANGED <<registry, hub, ops>>
      /\ HubTypeOK /\ HubTypes /\ Timed /\ Cached
    BY DEF ResubscribeRefused, HubInv, HubTypes
<1>2. /\ open' \in [Sessions -> SUBSET Keys] /\ UNCHANGED <<listed, stopped, gone, closing>>
      /\ \A j \in Keys : Holders(j)' \subseteq Holders(j)
    BY <1>1, RefuseHolds DEF hub
<1>3. Covered'
    <2>1. \A j \in Keys : Pending(j)' \subseteq Pending(j) /\ refs'[j] = refs[j]
        BY <1>1 DEF Pending, registry
    <2> QED BY <2>1, <1>1, <1>2, CoveredAll DEF registry
<1>4. HubTypeOK'
    BY <1>1, <1>2, ResubscribeTypes DEF HubTypeOK, registry, hub
<1>5. IsFiniteSet(ops') /\ HeldIsArmed' /\ Timed' /\ Cached'
    BY <1>1, <1>2 DEF HubTypes, HeldIsArmed, Timed, Cached, Sound, registry, hub
<1> QED BY <1>2, <1>3, <1>4, <1>5 DEF HubInv, HubTypes

LEMMA DoneKeeps ==
    ASSUME HubInv, NEW t \in dying, TeardownDone(t)
    PROVE  HubInv'
<1>1. /\ dying' = dying \ {t}
      /\ reload' = [k \in Keys |-> IF reload[k].waiting = t
                                   THEN [reload[k] EXCEPT !.waiting = NoTable] ELSE reload[k]]
      /\ UNCHANGED <<registry, entry, subs, upstream, made, ops, clients, reloads>>
    BY DEF TeardownDone
<1>2. /\ HubTypeOK /\ HubTypes /\ Timed /\ Cached
    BY DEF HubInv, HubTypes
<1>3. Covered'
    <2>1. \A j \in Keys : Pending(j)' \subseteq Pending(j) /\ refs'[j] = refs[j]
                          /\ Holders(j)' \subseteq Holders(j)
        BY <1>1 DEF Pending, Holders, Holds, registry, clients
    <2> QED BY <2>1, <1>1, CoveredAll DEF registry
<1>4. HubTypeOK'
    <2>1. reload' \in [Keys -> [waiting : {NoTable} \cup Tables, left : SUBSET Sessions]]
        BY <1>1, <1>2 DEF HubTypeOK
    <2> QED BY <2>1, <1>1, <1>2 DEF HubTypeOK, registry, clients
<1>5. IsFiniteSet(ops') /\ HeldIsArmed' /\ Timed' /\ Cached'
    BY <1>1, <1>2 DEF HubTypes, HeldIsArmed, Timed, Cached, Sound, registry, clients
<1> QED BY <1>3, <1>4, <1>5 DEF HubInv, HubTypes

-----------------------------------------------------------------------------
LEMMA HubStarts == HubInit => HubInv
<1> SUFFICES ASSUME HubInit PROVE HubInv
    OBVIOUS
<1>1. HubTypeOK
    BY HubAssumption DEF HubInit, HubTypeOK, Idle
<1>2. IsFiniteSet(ops) /\ HeldIsArmed
    BY FS_EmptySet DEF HubInit, HeldIsArmed
<1>3. Covered
    <2>1. \A k \in Keys : Holders(k) = {} /\ Pending(k) = {} /\ refs[k] = 0
        BY DEF HubInit, Holders, Holds, Pending, Sound
    <2> QED BY <2>1, FS_EmptySet DEF Covered, Bounded, Sound
<1>4. Timed /\ Cached
    BY DEF HubInit, Timed, Cached, Sound
<1> QED BY <1>1, <1>2, <1>3, <1>4 DEF HubInv, HubTypes

LEMMA HubStep == HubInv /\ [HubNext]_hubVars => HubInv'
<1> SUFFICES ASSUME HubInv, [HubNext]_hubVars PROVE HubInv'
    OBVIOUS
<1>1. ASSUME NEW s \in Sessions, NEW k \in Keys, Subscribe(s, k) PROVE HubInv'
    <2>1. /\ StartSubscribe(s, k, "client") /\ reloads' = reloads
          /\ reload' \in [Keys -> [waiting : {NoTable} \cup Tables, left : SUBSET Sessions]]
        BY <1>1 DEF Subscribe, reloading, HubInv, HubTypes, HubTypeOK
    <2> QED BY <2>1, StartKeeps
<1>2. ASSUME NEW s \in Sessions, NEW k \in Keys, ResubscribeTab(s, k) PROVE HubInv'
    <2>1. StartSubscribe(s, k, "reload") /\ MayResubscribe(s, k)
        BY <1>2 DEF ResubscribeTab
    <2> QED BY <2>1, StartKeeps, ResubscribeTypes
<1>3. CASE \E s \in Sessions, k \in Keys :
             \/ Subscribe(s, k) \/ Unsubscribe(s, k) \/ DropSlow(s, k)
             \/ ResubscribeTab(s, k) \/ ResubscribeRefused(s, k)
    BY <1>1, <1>2, <1>3, UnsubscribeKeeps, DropKeeps, RefusedKeeps
<1>4. CASE \E s \in Sessions : ReleaseSession(s) \/ SidecarClose(s) \/ SocketCloses(s)
    BY <1>4, CloseKeeps
<1>5. CASE \E op \in ops : EngineAnswers(op)
    BY <1>5, AnswerKeeps
<1>6. CASE \E k \in Keys : TimerFires(k) \/ Reload(k)
    BY <1>6, TimerKeeps, ReloadKeeps
<1>7. CASE \E t \in dying : TeardownDone(t)
    BY <1>7, DoneKeeps
<1>8. CASE UNCHANGED hubVars
    <2>1. UNCHANGED <<cached, refs, held, timers, overdrawn, entry, subs, upstream, dying, made,
                      ops, listed, open, stopped, gone, closing, reload, reloads>>
        BY <1>8 DEF hubVars, registry, hub, clients, reloading
    <2> QED BY <2>1 DEF HubInv, HubTypes, HubTypeOK, HeldIsArmed, Covered, Bounded, Holders,
                        Holds, Pending, Timed, Cached, Sound
<1> QED BY <1>3, <1>4, <1>5, <1>6, <1>7, <1>8 DEF HubNext

-----------------------------------------------------------------------------
(* The invariant: until a session releases a key it does not hold,          *)
(* references cover the holders and timers run only on keys nobody holds    *)
(* (registry.mjs, and the handlers of hub.mjs that call it).                *)
THEOREM HubInvariance == HubSpec => []HubInv
<1>1. HubInit => HubInv
    BY HubStarts
<1>2. HubInv /\ [HubNext]_hubVars => HubInv'
    BY HubStep
<1> QED BY <1>1, <1>2, PTL DEF HubSpec

(* "The refcount in the registry is the mechanism" (hub.mjs): every          *)
(* subscriber of a key's table and every subscribe of it in flight has its   *)
(* reference, whatever the clients and the engine do, unless the key was     *)
(* released by a session that did not hold it.                               *)
THEOREM HoldersAreCovered == HubSpec => []RefsCoverHolders
<1>1. HubInv => RefsCoverHolders
    <2> SUFFICES ASSUME HubInv, NEW k \in Keys \ overdrawn
                 PROVE  Cardinality(subs[k]) + Cardinality(Pending(k)) <= refs[k]
        BY DEF RefsCoverHolders
    <2>1. /\ Bounded(k) /\ refs[k] \in Nat /\ subs[k] \subseteq Sessions /\ HubTypes
        BY DEF HubInv, HubTypes, HubTypeOK, Covered, Sound
    <2>2. subs[k] \subseteq Holders(k)
        BY <2>1 DEF Holders, Holds
    <2>3. IsFiniteSet(Holders(k)) /\ Cardinality(Pending(k)) \in Nat
        BY <2>1, HoldersFinite
    <2>4. Cardinality(subs[k]) <= Cardinality(Holders(k)) /\ Cardinality(subs[k]) \in Nat
          /\ Cardinality(Holders(k)) \in Nat
        BY <2>2, <2>3, SubsetCount
    <2> QED BY <2>1, <2>3, <2>4 DEF Bounded
<1> QED BY <1>1, HubInvariance, PTL

\* Only the idle timer takes an entry out of the registry.
LEMMA OnlyTimersRemove ==
    ASSUME HubInv, HubNext, NEW k \in Keys, k \in cached, k \notin cached'
    PROVE  TimerFires(k)
<1>1. ASSUME NEW j \in Keys, TimerFires(j) PROVE TimerFires(k)
    <2>1. j = k
        BY <1>1 DEF TimerFires
    <2> QED BY <1>1, <2>1
<1>2. ASSUME NEW s \in Sessions, NEW j \in Keys, NEW by, StartSubscribe(s, j, by)
      PROVE  cached \subseteq cached'
    BY <1>2 DEF StartSubscribe, Acquire
<1>3. ASSUME NEW s \in Sessions, NEW keys, NEW times, Leave(s, keys, times)
      PROVE  cached \subseteq cached'
    BY <1>3 DEF Leave, Release
<1>4. ASSUME NEW s \in Sessions, NEW j \in Keys,
             \/ Subscribe(s, j) \/ Unsubscribe(s, j) \/ DropSlow(s, j)
             \/ ResubscribeTab(s, j) \/ ResubscribeRefused(s, j)
      PROVE  cached \subseteq cached'
    BY <1>2, <1>3, <1>4 DEF Subscribe, ResubscribeTab, Unsubscribe, DropSlow, ResubscribeRefused,
                            registry
<1>5. ASSUME NEW s \in Sessions, ReleaseSession(s) \/ SidecarClose(s) \/ SocketCloses(s)
      PROVE  cached \subseteq cached'
    BY <1>3, <1>5 DEF ReleaseSession, SidecarClose, SocketCloses, SidecarTeardown
<1>6. ASSUME NEW op \in ops, EngineAnswers(op) PROVE cached \subseteq cached'
    BY <1>6 DEF EngineAnswers, TableCreated, TableWatched, EngineFails, registry
<1>7. ASSUME NEW j \in Keys, Reload(j) PROVE cached \subseteq cached'
    BY <1>7 DEF Reload, registry
<1>8. ASSUME NEW t \in dying, TeardownDone(t) PROVE cached \subseteq cached'
    BY <1>8 DEF TeardownDone, registry
<1> QED BY <1>1, <1>4, <1>5, <1>6, <1>7, <1>8 DEF HubNext

(* The idle timer finds nobody subscribed to the table it closes and nobody  *)
(* about to be (registry.mjs, hub.mjs), unless the key was released by a     *)
(* session that did not hold it: a lost reference has no other cause.        *)
THEOREM LastLeaveIsLast == HubSpec => LastLeaveCloses
<1> DEFINE Alone(k) == (k \in cached /\ k \notin cached' /\ k \notin overdrawn)
                           => (subs[k] = {} /\ Pending(k) = {})
<1>1. HubInv /\ [HubNext]_hubVars => [\A k \in Keys : Alone(k)]_hubVars
    <2> SUFFICES ASSUME HubInv, HubNext, NEW k \in Keys, k \in cached, k \notin cached',
                        k \notin overdrawn
                 PROVE  subs[k] = {} /\ Pending(k) = {}
        OBVIOUS
    <2>1. TimerFires(k)
        BY OnlyTimersRemove
    <2> QED BY <2>1, TimerKeeps
<1> QED BY <1>1, HubInvariance, PTL DEF HubSpec, LastLeaveCloses

------------------------------------------------------------------------------
(* The memory ceiling.                                                        *)

\* The bytes in use are the sum over the tables there are, so one more table
\* adds its own, and one less takes its own away.
LEMMA UsedChanges ==
    ASSUME cached \in SUBSET Keys, cached' \in SUBSET Keys
    PROVE  /\ UsedBytes \in Nat /\ UsedBytes' \in Nat
           /\ \A k \in Keys : k \notin cached /\ cached' = cached \cup {k} => UsedBytes' = Bytes[k] + UsedBytes
           /\ \A k \in cached : cached' = cached \ {k} => UsedBytes = Bytes[k] + UsedBytes'
           /\ cached' = cached => UsedBytes' = UsedBytes
<1>0. PICK it \in [SUBSET Keys -> Nat] : AddsUp(it, Bytes, Keys)
    BY SumIs, HubAssumption
<1>1. /\ it[{}] = 0
      /\ \A T \in SUBSET Keys : \A x \in T : it[T] = Bytes[x] + it[T \ {x}]
      /\ \A R \in SUBSET Keys : SumOver(Bytes, R) = it[R]
    BY <1>0 DEF AddsUp
<1>2. UsedBytes = SumOver(Bytes, cached)
    BY DEF UsedBytes, MapThenSumSet, MapThenFoldSet, SumOver, IsSum, Chosen
<1>3. UsedBytes' = SumOver(Bytes, cached')
    BY DEF UsedBytes, MapThenSumSet, MapThenFoldSet, SumOver, IsSum, Chosen
<1>4. UsedBytes = it[cached] /\ UsedBytes' = it[cached'] BY <1>1, <1>2, <1>3
<1>5. ASSUME NEW k \in Keys, k \notin cached, cached' = cached \cup {k}
      PROVE  UsedBytes' = Bytes[k] + UsedBytes
    <2>1. k \in cached' /\ cached' \ {k} = cached BY <1>5
    <2>2. it[cached'] = Bytes[k] + it[cached' \ {k}] BY <1>1, <2>1
    <2>. QED BY <1>4, <2>1, <2>2
<1>6. ASSUME NEW k \in cached, cached' = cached \ {k} PROVE UsedBytes = Bytes[k] + UsedBytes'
    BY <1>1, <1>4, <1>6
<1>8. UsedBytes \in Nat /\ UsedBytes' \in Nat BY <1>1, <1>4
<1>9. cached' = cached => UsedBytes' = UsedBytes BY <1>4
<1>. QED BY <1>5, <1>6, <1>8, <1>9

\* Without tables there are no bytes in use.
LEMMA NothingUsed == ASSUME cached = {} PROVE UsedBytes = 0
<1>1. PICK it \in [SUBSET Keys -> Nat] : AddsUp(it, Bytes, Keys)
    BY SumIs, HubAssumption
<1>2. UsedBytes = SumOver(Bytes, cached)
    BY DEF UsedBytes, MapThenSumSet, MapThenFoldSet, SumOver, IsSum, Chosen
<1>3. it[{}] = 0 /\ cached \in SUBSET Keys /\ \A R \in SUBSET Keys : SumOver(Bytes, R) = it[R]
    BY <1>1 DEF AddsUp
<1>. QED BY <1>2, <1>3

\* What has been admitted is of the keys there are, and fits.
Admitted == cached \in SUBSET Keys /\ UsedBytes <= Ceiling

\* registry.acquire admits a new table only when it fits what is left.
LEMMA AcquireFits ==
    ASSUME Admitted, NEW k \in Keys, Acquire(k)
    PROVE  Admitted'
<1>0. /\ cached \in SUBSET Keys /\ UsedBytes <= Ceiling
      /\ Ceiling \in Nat /\ Bytes[k] \in Nat
    BY HubAssumption DEF Admitted
<1>1. CASE k \in cached
    <2>1. cached' = cached BY <1>1 DEF Acquire
    <2>. QED BY <1>0, <2>1, UsedChanges DEF Admitted
<1>2. CASE k \notin cached
    <2>1. cached' = cached \cup {k} /\ Fits(k) BY <1>2 DEF Acquire
    <2>2. cached' \in SUBSET Keys BY <1>0, <2>1
    <2>3. UsedBytes' = Bytes[k] + UsedBytes /\ UsedBytes \in Nat
        BY <1>0, <1>2, <2>1, <2>2, UsedChanges
    <2>4. Bytes[k] <= Ceiling - UsedBytes BY <2>1 DEF Fits
    <2>5. UsedBytes' <= Ceiling BY <1>0, <2>3, <2>4
    <2>. QED BY <2>2, <2>5 DEF Admitted
<1>. QED BY <1>1, <1>2

\* A step that neither admits nor drops a table.
LEMMA SameFits ==
    ASSUME Admitted, cached' = cached
    PROVE  Admitted'
<1>1. cached \in SUBSET Keys BY DEF Admitted
<1>. QED BY <1>1, UsedChanges DEF Admitted

\* The idle timer gives a table's bytes back.
LEMMA TimerFits ==
    ASSUME Admitted, NEW k \in Keys, TimerFires(k)
    PROVE  Admitted'
<1>0. /\ cached \in SUBSET Keys /\ UsedBytes <= Ceiling /\ cached' = cached \ {k}
      /\ Ceiling \in Nat /\ Bytes[k] \in Nat
    BY HubAssumption DEF Admitted, TimerFires
<1>1. CASE k \notin cached
    <2>1. cached' = cached BY <1>0, <1>1
    <2>. QED BY <2>1, SameFits
<1>2. CASE k \in cached
    <2>1. cached' \in SUBSET Keys BY <1>0
    <2>2. UsedBytes = Bytes[k] + UsedBytes' /\ UsedBytes' \in Nat
        BY <1>0, <1>2, <2>1, UsedChanges
    <2>3. UsedBytes' <= Ceiling BY <1>0, <2>2
    <2>. QED BY <2>1, <2>3 DEF Admitted
<1>. QED BY <1>1, <1>2

\* Every step of the hub, with no assumption on what the clients send.
LEMMA AdmittedStep ==
    ASSUME Admitted, [HubNext]_hubVars
    PROVE  Admitted'
<1>1. ASSUME NEW s \in Sessions, NEW k \in Keys, Subscribe(s, k) \/ ResubscribeTab(s, k)
      PROVE  Admitted'
    BY <1>1, AcquireFits DEF Subscribe, ResubscribeTab, StartSubscribe
<1>2. ASSUME NEW s \in Sessions, NEW k \in Keys,
             Unsubscribe(s, k) \/ DropSlow(s, k) \/ ResubscribeRefused(s, k)
      PROVE  Admitted'
    BY <1>2, SameFits DEF Unsubscribe, Leave, Release, DropSlow, ResubscribeRefused, registry
<1>3. ASSUME NEW s \in Sessions, ReleaseSession(s) \/ SidecarClose(s) \/ SocketCloses(s)
      PROVE  Admitted'
    <2>1. ASSUME NEW keys, NEW times, Leave(s, keys, times) PROVE cached' = cached
        BY <2>1 DEF Leave, Release
    <2>2. cached' = cached
        BY <1>3, <2>1 DEF ReleaseSession, SidecarClose, SocketCloses, SidecarTeardown
    <2>. QED BY <2>2, SameFits
<1>4. ASSUME NEW op \in ops, EngineAnswers(op) PROVE Admitted'
    BY <1>4, SameFits DEF EngineAnswers, TableCreated, TableWatched, EngineFails, registry
<1>5. ASSUME NEW k \in Keys, Reload(k) PROVE Admitted'
    BY <1>5, SameFits DEF Reload, registry
<1>6. ASSUME NEW k \in Keys, TimerFires(k) PROVE Admitted' BY <1>6, TimerFits
<1>7. ASSUME NEW t \in dying, TeardownDone(t) PROVE Admitted'
    BY <1>7, SameFits DEF TeardownDone, registry
<1>8. CASE UNCHANGED hubVars BY <1>8, SameFits DEF hubVars, registry
<1>. QED BY <1>1, <1>2, <1>3, <1>4, <1>5, <1>6, <1>7, <1>8 DEF HubNext

\* All tables together are admitted under the ceiling, whatever the clients send.
THEOREM CeilingHolds == HubSpec => []Admitted
<1>1. HubInit => Admitted
    <2>1. SUFFICES ASSUME HubInit PROVE Admitted OBVIOUS
    <2>2. cached = {} BY <2>1 DEF HubInit
    <2>3. UsedBytes = 0 BY <2>2, NothingUsed
    <2>. QED BY <2>2, <2>3, HubAssumption DEF Admitted
<1>. QED BY <1>1, AdmittedStep, PTL DEF HubSpec

\* TablesAreAccounted: so every table in the hub is one the registry has
\* admitted, unless a session that did not hold its key released it: then the
\* registry may have dropped a key whose table is still being made.
THEOREM TablesAreAdmitted == HubSpec => []TablesAreAccounted
<1>1. HubInv /\ Admitted => TablesAreAccounted
    BY DEF HubInv, Cached, Sound, Admitted, TablesAreAccounted
<1>. QED BY <1>1, CeilingHolds, HubInvariance, PTL

------------------------------------------------------------------------------
(* A new bundle pushed to a running hub: the classes of what differs.       *)

\* The strongest of some classes.
LEMMA Orders ==
    /\ Rank("none") = 1 /\ Rank("live") = 2 /\ Rank("resubscribe") = 3
    /\ Rank("rebuild") = 4 /\ Rank("restart") = 5
    /\ Classes = {"none", "live", "resubscribe", "rebuild", "restart"}
<1>1. DOMAIN RELOAD_ORDER = 1 .. 5 BY DEF RELOAD_ORDER
<1>2. /\ RELOAD_ORDER[1] = "none" /\ RELOAD_ORDER[2] = "live" /\ RELOAD_ORDER[3] = "resubscribe"
      /\ RELOAD_ORDER[4] = "rebuild" /\ RELOAD_ORDER[5] = "restart"
    BY DEF RELOAD_ORDER
<1>3. \A i \in 1 .. 5 : i = 1 \/ i = 2 \/ i = 3 \/ i = 4 \/ i = 5 OBVIOUS
<1>4. Classes = {"none", "live", "resubscribe", "rebuild", "restart"}
    BY <1>1, <1>2, <1>3 DEF Classes
<1>5. Rank("none") = 1 BY <1>1, <1>2, <1>3 DEF Rank
<1>6. Rank("live") = 2 BY <1>1, <1>2, <1>3 DEF Rank
<1>7. Rank("resubscribe") = 3 BY <1>1, <1>2, <1>3 DEF Rank
<1>8. Rank("rebuild") = 4 BY <1>1, <1>2, <1>3 DEF Rank
<1>9. Rank("restart") = 5 BY <1>1, <1>2, <1>3 DEF Rank
<1>. QED BY <1>4, <1>5, <1>6, <1>7, <1>8, <1>9

LEMMA StrongestIs ==
    ASSUME NEW cs \in SUBSET Classes
    PROVE  /\ Strongest(cs) \in Classes
           /\ Strongest(cs) = "none" => cs \subseteq {"none"}
           /\ Strongest(cs) = "live" => cs \subseteq {"none", "live"} /\ "live" \in cs
<1>. DEFINE ranks == {1} \cup {Rank(c) : c \in cs}
<1>1. ranks \in SUBSET (1 .. 5) /\ 1 \in ranks BY Orders
<1>2. PICK m : m = Max(ranks) OBVIOUS
<1>3. m \in ranks /\ \A j \in ranks : j <= m
    <2>. HIDE DEF ranks
    <2>. QED BY <1>1, <1>2, MaxIsLargest
<1>4. Strongest(cs) = RELOAD_ORDER[m] BY <1>2 DEF Strongest
<1>5. \A c \in cs : Rank(c) <= m BY <1>3
<1>6. m \in 1 .. 5 BY <1>1, <1>3
<1>7. m = 1 \/ \E c \in cs : Rank(c) = m BY <1>3
<1>. HIDE DEF ranks
<1>8. CASE m = 1
    <2>1. Strongest(cs) = "none" BY <1>4, <1>8 DEF RELOAD_ORDER
    <2>. QED BY <1>5, <1>8, <2>1, Orders
<1>9. CASE m = 2
    <2>1. Strongest(cs) = "live" BY <1>4, <1>9 DEF RELOAD_ORDER
    <2>. QED BY <1>5, <1>7, <1>9, <2>1, Orders
<1>10. CASE m \in 3 .. 5
    <2>1. Strongest(cs) \in {"resubscribe", "rebuild", "restart"} BY <1>4, <1>10 DEF RELOAD_ORDER
    <2>. QED BY <2>1, Orders
<1>. QED BY <1>6, <1>8, <1>9, <1>10

\* A path begins with its parts.
LEMMA PathParts ==
    ASSUME NEW S, NEW f \in Seq(S), NEW m \in 1 .. Len(f)
    PROVE  /\ SubSeq(f, 1, m) \in Seq(S) /\ Len(SubSeq(f, 1, m)) = m /\ SubSeq(f, 1, m)[1] = f[1]
           /\ \A i \in 1 .. m : SubSeq(SubSeq(f, 1, m), 1, i) = SubSeq(f, 1, i)
           /\ IsPrefix(SubSeq(f, 1, m), f)
           /\ SubSeq(f, 1, Len(f)) = f
<1>. DEFINE p == SubSeq(f, 1, m)
<1>1. p \in Seq(S) /\ Len(p) = m /\ \A j \in 1 .. m : p[j] = f[j] OBVIOUS
<1>2. p[1] = f[1] BY <1>1
<1>. HIDE DEF p
<1>3. ASSUME NEW i \in 1 .. m PROVE SubSeq(p, 1, i) = SubSeq(f, 1, i)
    <2>1. /\ SubSeq(p, 1, i) \in Seq(S) /\ Len(SubSeq(p, 1, i)) = i
          /\ \A j \in 1 .. i : SubSeq(p, 1, i)[j] = p[j]
        BY <1>1
    <2>2. /\ SubSeq(f, 1, i) \in Seq(S) /\ Len(SubSeq(f, 1, i)) = i
          /\ \A j \in 1 .. i : SubSeq(f, 1, i)[j] = f[j]
        OBVIOUS
    <2>. QED BY <1>1, <2>1, <2>2, SeqEqual
<1>4. IsPrefix(p, f)
    <2>1. SubSeq(p, 1, m) = SubSeq(f, 1, m) BY <1>3
    <2>. QED BY <1>1, <2>1 DEF IsPrefix
<1>5. SubSeq(f, 1, Len(f)) = f OBVIOUS
<1>. QED BY <1>1, <1>2, <1>3, <1>4, <1>5 DEF p

LEMMA LeastIsThere ==
    ASSUME NEW n \in Nat, NEW T \in SUBSET (1 .. n), T # {}
    PROVE  Min(T) \in T
<1>1. T \in SUBSET Nat OBVIOUS
<1>2. PICK i \in T : \A j \in T : i <= j BY <1>1, LeastNumber
<1>. QED BY <1>2 DEF Min

\* The class of a field, or of a section around it.
LEMMA ClassOf ==
    ASSUME NEW f \in Fields, NEW m \in 1 .. Len(f)
    PROVE  LET class == ReloadClassAt(SubSeq(f, 1, m)) IN
           /\ class \in Classes
           /\ class = "none" => \A i \in 1 .. m : DeclaredAt(SubSeq(f, 1, i)) = {}
           /\ class = "live" => m = Len(f) /\ Annotations[f].target = {"live"}
<1>. DEFINE p == SubSeq(f, 1, m)
            At(i) == SubSeq(f, 1, i)
            known == {i \in 1 .. Len(p) : \A j \in 1 .. i : SubSeq(p, 1, j) \in DOMAIN Annotations}
            saying == {i \in known : AnnotatedAs(Annotations[SubSeq(p, 1, i)]) # {}}
            said == {i \in 1 .. m : AnnotatedAs(Annotations[At(i)]) # {}}
<1>1. /\ f \in Seq(STRING) /\ m \in Nat
      /\ \A i \in 1 .. m : /\ At(i) \in DOMAIN Annotations
                           /\ DeclaredAt(At(i)) \subseteq {"live", "resubscribe", "rebuild", "restart"}
                           /\ "live" \in DeclaredAt(At(i)) =>
                                 i = Len(f) /\ Annotations[At(i)] = [beside |-> {}, target |-> {"live"}]
    BY SchemaAssumption
<1>2. Len(p) = m /\ \A i \in 1 .. m : SubSeq(p, 1, i) = At(i) BY <1>1, PathParts
<1>3. \A i \in 1 .. m : /\ AnnotatedAs(Annotations[At(i)]) \subseteq DeclaredAt(At(i))
                        /\ AnnotatedAs(Annotations[At(i)]) = {} => DeclaredAt(At(i)) = {}
    BY DEF AnnotatedAs, DeclaredAt
<1>. HIDE DEF p, At
<1>4. known = 1 .. m
    <2>1. ASSUME NEW i \in 1 .. m, NEW j \in 1 .. i PROVE SubSeq(p, 1, j) \in DOMAIN Annotations
        <3>1. j \in 1 .. m OBVIOUS
        <3>. QED BY <1>1, <1>2, <3>1
    <2>. QED BY <1>2, <2>1
<1>5. saying = said BY <1>2, <1>4
<1>6. ReloadClassAt(p) = IF said = {} THEN "none" ELSE Strongest(AnnotatedAs(Annotations[At(Max(said))]))
    <2>1. ReloadClassAt(p) = IF saying = {} THEN "none" ELSE Strongest(AnnotatedAs(Annotations[SubSeq(p, 1, Max(saying))]))
        BY DEF ReloadClassAt
    <2>2. said # {} => Max(said) \in 1 .. m
        <3>1. said \in SUBSET (1 .. m) OBVIOUS
        <3>. HIDE DEF said
        <3>. QED BY <1>1, <3>1, MaxIsLargest
    <2>. HIDE DEF said, saying
    <2>. QED BY <1>2, <1>5, <2>1, <2>2
<1>7. CASE said = {}
    <2>1. ReloadClassAt(p) = "none" BY <1>6, <1>7
    <2>2. \A i \in 1 .. m : DeclaredAt(At(i)) = {} BY <1>3, <1>7
    <2>. QED BY <2>1, <2>2, Orders DEF p, At
<1>8. CASE said # {}
    <2>. DEFINE k == Max(said)
                A == AnnotatedAs(Annotations[At(k)])
    <2>1. k \in said
        <3>1. said \in SUBSET (1 .. m) OBVIOUS
        <3>. HIDE DEF said
        <3>. QED BY <1>1, <1>8, <3>1, MaxIsLargest
    <2>. HIDE DEF k
    <2>2. k \in 1 .. m /\ A # {} BY <2>1
    <2>3. ReloadClassAt(p) = Strongest(A)
        <3>. HIDE DEF said
        <3>. QED BY <1>6, <1>8 DEF k
    <2>4. A \subseteq {"live", "resubscribe", "rebuild", "restart"} BY <1>1, <1>3, <2>2
    <2>5. A \in SUBSET Classes BY <2>4, Orders
    <2>6. "live" \in A => k = Len(f) /\ Annotations[At(k)].target = {"live"} BY <1>1, <1>3, <2>2
    <2>. HIDE DEF A, said
    <2>7. Strongest(A) \in Classes /\ Strongest(A) # "none" /\ (Strongest(A) = "live" => "live" \in A)
        <3>1. PICK a : a \in A BY <2>2
        <3>2. a # "none" BY <2>4, <3>1
        <3>3. Strongest(A) = "none" => A \subseteq {"none"} BY <2>5, StrongestIs
        <3>. QED BY <2>5, <3>1, <3>2, <3>3, StrongestIs
    <2>8. k = Len(f) => m = Len(f) /\ At(k) = f
        <3>1. Len(f) \in Nat /\ (k = Len(f) => m = Len(f)) BY <1>1, <2>2
        <3>2. SubSeq(f, 1, Len(f)) = f BY <1>1, PathParts
        <3>. QED BY <3>1, <3>2 DEF At
    <2>. QED BY <2>3, <2>6, <2>7, <2>8 DEF p
<1>. QED BY <1>7, <1>8

\* The path that is reported of a field that differs.
LEMMA ReportedAs ==
    ASSUME NEW before \in Bundles, NEW after \in Bundles, NEW f \in Fields, before[f] # after[f]
    PROVE  \E m \in 1 .. Len(f) :
              /\ ChangedPath(before, after, f) = SubSeq(f, 1, m)
              /\ \/ m = Len(f)
                 \/ /\ m \in 2 .. Len(f) - 1
                    /\ HasSection(before, SubSeq(f, 1, m)) # HasSection(after, SubSeq(f, 1, m))
<1>. DEFINE At(i) == SubSeq(f, 1, i)
            lacking == {i \in 1 .. Len(f) : ~HasSection(before, At(i)) \/ ~HasSection(after, At(i))}
<1>1. f \in Seq(STRING) /\ Len(f) \in Nat /\ Len(f) >= 2 BY SchemaAssumption
<1>2. \A i \in 1 .. Len(f) : HasSection(before, At(i)) \/ HasSection(after, At(i))
    <2>1. before[f] # Unset \/ after[f] # Unset OBVIOUS
    <2>2. \A i \in 1 .. Len(f) : IsPrefix(At(i), f) BY <1>1, PathParts
    <2>. QED BY <2>1, <2>2 DEF HasSection
<1>3. HasSection(before, At(1)) /\ HasSection(after, At(1))
    <2>1. PICK g \in Required : g[1] = f[1] BY SchemaAssumption
    <2>2. g \in Fields /\ before[g] # Unset /\ after[g] # Unset BY <2>1, ReloadAssumption DEF Bundles
    <2>3. g \in Seq(STRING) /\ 1 \in 1 .. Len(g) /\ 1 \in 1 .. Len(f) BY <1>1, <2>2, SchemaAssumption
    <2>4. At(1) = SubSeq(g, 1, 1)
        <3>1. At(1) \in Seq(STRING) /\ Len(At(1)) = 1 /\ At(1)[1] = f[1] BY <1>1, <2>3, PathParts
        <3>2. SubSeq(g, 1, 1) \in Seq(STRING) /\ Len(SubSeq(g, 1, 1)) = 1 /\ SubSeq(g, 1, 1)[1] = g[1]
            BY <2>3, PathParts
        <3>. HIDE DEF At
        <3>. QED BY <2>1, <3>1, <3>2, SeqEqual
    <2>5. IsPrefix(At(1), g) BY <2>3, <2>4, PathParts
    <2>. HIDE DEF At
    <2>. QED BY <2>2, <2>5 DEF HasSection
<1>. HIDE DEF At
<1>4. CASE lacking = {}
    <2>1. ChangedPath(before, after, f) = f BY <1>4 DEF ChangedPath, At
    <2>2. SubSeq(f, 1, Len(f)) = f /\ Len(f) \in 1 .. Len(f) BY <1>1, PathParts
    <2>. QED BY <2>1, <2>2
<1>5. CASE lacking # {}
    <2>. DEFINE m == Min(lacking)
    <2>1. m \in lacking
        <3>1. lacking \in SUBSET (1 .. Len(f)) OBVIOUS
        <3>. HIDE DEF lacking
        <3>. QED BY <1>1, <1>5, <3>1, LeastIsThere
    <2>2. ChangedPath(before, after, f) = At(m) BY <1>5 DEF ChangedPath, At
    <2>. HIDE DEF m
    <2>3. m \in 1 .. Len(f) /\ m # 1 /\ (~HasSection(before, At(m)) \/ ~HasSection(after, At(m)))
        BY <1>3, <2>1
    <2>4. HasSection(before, At(m)) \/ HasSection(after, At(m)) BY <1>2, <2>3
    <2>5. HasSection(before, At(m)) # HasSection(after, At(m)) BY <2>3, <2>4, Zenon
    <2>6. m = Len(f) \/ m \in 2 .. Len(f) - 1 BY <1>1, <2>3
    <2>. QED BY <2>2, <2>3, <2>5, <2>6 DEF At
<1>. QED BY <1>4, <1>5

\* When no plan is structural, no field that differs is reported with a
\* structural class; and when one is reported live there is a plan.
LEMMA PlansTell ==
    ASSUME NEW before \in Bundles, NEW after \in Bundles,
           FirstStructural(ReloadPlan(before, after)) = 0,
           NEW f \in Fields, before[f] # after[f]
    PROVE  LET class == ReloadClassAt(ChangedPath(before, after, f)) IN
           /\ class \in {"none", "live"}
           /\ class = "live" => ReloadPlan(before, after) # <<>>
<1>. DEFINE paths == ChangedPaths(before, after)
            item == f[1]
            of == {ReloadClassAt(p) : p \in {q \in paths : q[1] = item}}
            s == <<PlanOf(before, after, "connections"), PlanOf(before, after, "datasources")>>
            plans == KeepIn(s, Classes \ {"none"})
            class == ReloadClassAt(ChangedPath(before, after, f))
<1>1. \A p \in paths : ReloadClassAt(p) \in Classes
    <2>1. SUFFICES ASSUME NEW g \in Fields, before[g] # after[g]
                   PROVE  ReloadClassAt(ChangedPath(before, after, g)) \in Classes
        BY DEF ChangedPaths
    <2>2. PICK m \in 1 .. Len(g) : ChangedPath(before, after, g) = SubSeq(g, 1, m) BY <2>1, ReportedAs
    <2>. QED BY <2>2, ClassOf
<1>2. class \in of
    <2>1. PICK m \in 1 .. Len(f) : ChangedPath(before, after, f) = SubSeq(f, 1, m) BY ReportedAs
    <2>2. ChangedPath(before, after, f)[1] = item BY <2>1, SchemaAssumption, PathParts
    <2>3. ChangedPath(before, after, f) \in paths BY DEF ChangedPaths
    <2>. HIDE DEF paths, item
    <2>. QED BY <2>2, <2>3
<1>3. item \in {"connections", "datasources"} BY SchemaAssumption
<1>4. ASSUME NEW x PROVE PlanOf(before, after, x) \in Classes
    <2>. DEFINE cs == {ReloadClassAt(p) : p \in {q \in paths : q[1] = x}}
    <2>2. cs \in SUBSET Classes
        <3>. HIDE DEF paths
        <3>. QED BY <1>1
    <2>3. PlanOf(before, after, x) = Strongest(cs) BY DEF PlanOf
    <2>. HIDE DEF cs
    <2>. QED BY <2>2, <2>3, StrongestIs
<1>5. s \in Seq(Classes) /\ Len(s) = 2 /\ \A i \in 1 .. 2 : s[i] \in Classes BY <1>4
<1>6. PICK i \in 1 .. 2 : s[i] = PlanOf(before, after, item) BY <1>3
<1>7. s[i] = Strongest(of) /\ of \in SUBSET Classes
    <2>1. s[i] = Strongest(of) BY <1>6 DEF PlanOf
    <2>2. of \in SUBSET Classes
        <3>. HIDE DEF paths, item
        <3>. QED BY <1>1
    <2>. QED BY <2>1, <2>2
<1>8. plans = ReloadPlan(before, after) BY DEF ReloadPlan
<1>. HIDE DEF s, of, class, item, paths
<1>9. /\ plans \in Seq(Classes)
      /\ s[i] # "none" => \E j \in 1 .. Len(plans) : plans[j] = s[i]
    <2>1. PICK g \in [1 .. Len(plans) -> Nat] : IsPicked(g, plans, s, Classes \ {"none"})
        BY <1>5, KeptIsPicked
    <2>2. plans \in Seq(Classes) BY <1>5, KeptIsPicked
    <2>3. s[i] \in Classes /\ i \in 1 .. Len(s) BY <1>5
    <2>. HIDE DEF plans
    <2>. QED BY <2>1, <2>2, <2>3 DEF IsPicked
<1>. HIDE DEF plans
<1>10. \A j \in 1 .. Len(plans) : plans[j] = "live"
    <2>. DEFINE structural == {j \in DOMAIN plans : plans[j] # "live"}
    <2>1. DOMAIN plans = 1 .. Len(plans) /\ Len(plans) \in Nat BY <1>9
    <2>2. structural = {}
        <3>1. SUFFICES ASSUME structural # {} PROVE FALSE OBVIOUS
        <3>2. structural \in SUBSET (1 .. Len(plans)) BY <2>1
        <3>3. FirstStructural(plans) = Min(structural) BY <3>1 DEF FirstStructural
        <3>. HIDE DEF structural
        <3>4. Min(structural) \in 1 .. Len(plans) BY <2>1, <3>1, <3>2, LeastIsThere
        <3>. QED BY <1>8, <3>3, <3>4
    <2>. QED BY <2>1, <2>2
<1>11. s[i] \in {"none", "live"} /\ (s[i] # "none" => plans # <<>>)
    BY <1>9, <1>10
<1>12. of \subseteq {"none", "live"} /\ (s[i] = "none" => of \subseteq {"none"})
    BY <1>7, <1>11, StrongestIs
<1>. QED BY <1>2, <1>8, <1>11, <1>12 DEF class

\* What a push in place leaves of a table: every field is as the new bundle
\* says, save those that were not before and those that go unheeded.
LEMMA EditsAreHeeded ==
    ASSUME NEW before \in Bundles, NEW after \in Bundles, NEW used, NEW now, NEW f \in TableFields,
           DOMAIN used = TableFields,
           FirstStructural(ReloadPlan(before, after)) = 0,
           \/ ReloadPlan(before, after) # <<>> /\ now = ApplyLive(used, after)
           \/ ReloadPlan(before, after) = <<>> /\ now = used,
           used[f] = before[f], f \notin Unheeded(before, after)
    PROVE  now[f] = after[f]
<1>0. f \in Fields BY DEF TableFields
<1>1. CASE before[f] = after[f] BY <1>1 DEF ApplyLive
<1>2. CASE before[f] # after[f]
    <2>1. PICK m \in 1 .. Len(f) :
              /\ ChangedPath(before, after, f) = SubSeq(f, 1, m)
              /\ \/ m = Len(f)
                 \/ /\ m \in 2 .. Len(f) - 1
                    /\ HasSection(before, SubSeq(f, 1, m)) # HasSection(after, SubSeq(f, 1, m))
        BY <1>0, <1>2, ReportedAs
    <2>2. PICK class : class = ReloadClassAt(SubSeq(f, 1, m)) OBVIOUS
    <2>3. class \in {"none", "live"} /\ (class = "live" => ReloadPlan(before, after) # <<>>)
        BY <1>0, <1>2, <2>1, <2>2, PlansTell
    <2>4. class # "none"
        <3>1. SUFFICES ASSUME class = "none" PROVE FALSE OBVIOUS
        <3>2. \A i \in 1 .. m : DeclaredAt(SubSeq(f, 1, i)) = {} BY <1>0, <2>2, <3>1, ClassOf
        <3>3. m # Len(f) BY <1>0, <3>2, SchemaAssumption
        <3>4. DeclaredAt(SubSeq(f, 1, m)) = {} BY <2>1, <3>2
        <3>5. f \in Unheeded(before, after) BY <1>2, <2>1, <3>3, <3>4 DEF Unheeded, DeclaredAt
        <3>. QED BY <3>5
    <2>5. Annotations[f].target = {"live"} BY <1>0, <2>2, <2>3, <2>4, ClassOf
    <2>6. f \in LiveFields /\ after[f] # Unset BY <1>2, <2>5 DEF Unheeded
    <2>. QED BY <2>3, <2>4, <2>6 DEF ApplyLive
<1>. QED BY <1>1, <1>2

------------------------------------------------------------------------------
(* Pushes and the running table.                                            *)

Settled ==
    /\ inUse # NotRunning => DOMAIN inUse = TableFields
    /\ registered # NotRegistered => DOMAIN registered = EntryFields
    /\ DOMAIN hubWide = HubFields
    /\ flow # NoFlow => DOMAIN flow = HubFields

ReloadInv == bundle \in Bundles /\ Settled /\ EditsTakeEffect

\* Setting what a bundle says of the live fields keeps the shape, sets those it
\* has and leaves the others.
LEMMA LiveSets ==
    ASSUME NEW used, NEW b
    PROVE  /\ DOMAIN ApplyLive(used, b) = DOMAIN used
           /\ \A f \in DOMAIN used :
                 /\ f \in LiveFields /\ b[f] # Unset => ApplyLive(used, b)[f] = b[f]
                 /\ used[f] = b[f] => ApplyLive(used, b)[f] = b[f]
                 /\ f \notin LiveFields => ApplyLive(used, b)[f] = used[f]
BY DEF ApplyLive

\* The hub's own settings and the flow's, when plans are carried out: what is
\* heeded is as the bundle says, and what was already stays so.
LEMMA HubHeeds ==
    ASSUME Settled, NEW p, NEW plans, NEW b, Proceed(p, plans, b), NEW f \in HubFields,
           \/ f \in Heeded(plans, b)
           \/ hubWide[f] = b[f] /\ (flow # NoFlow => flow[f] = b[f])
    PROVE  hubWide'[f] = b[f] /\ (flow' # NoFlow => flow'[f] = b[f])
<1>1. /\ hubWide' = IF GoesLive(plans) THEN ApplyLive(hubWide, b) ELSE hubWide
      /\ flow' = IF attached /\ Reestablishes(plans) THEN NoFlow
                 ELSE IF attached /\ GoesLive(plans) /\ flow # NoFlow THEN ApplyLive(flow, b)
                 ELSE flow
    BY DEF Proceed
<1>2. /\ f \in DOMAIN hubWide /\ (flow # NoFlow => f \in DOMAIN flow)
      /\ f \in LiveFields
    BY ReloadAssumption DEF Settled
<1>3. CASE f \in Heeded(plans, b)
    <2>1. GoesLive(plans) /\ b[f] # Unset /\ (attached \/ flow = NoFlow) BY <1>3 DEF Heeded
    <2>2. hubWide'[f] = b[f] BY <1>1, <1>2, <2>1, LiveSets
    <2>3. flow' # NoFlow => flow' = ApplyLive(flow, b) /\ flow # NoFlow BY <1>1, <2>1
    <2>. QED BY <1>2, <2>1, <2>2, <2>3, LiveSets
<1>4. CASE hubWide[f] = b[f] /\ (flow # NoFlow => flow[f] = b[f])
    <2>1. hubWide'[f] = b[f] BY <1>1, <1>2, <1>4, LiveSets
    <2>2. flow' # NoFlow => flow # NoFlow /\ (flow' = ApplyLive(flow, b) \/ flow' = flow) BY <1>1
    <2>. QED BY <1>2, <1>4, <2>1, <2>2, LiveSets
<1>. QED BY <1>3, <1>4

\* The places keep their shapes.
LEMMA ProceedSettled ==
    ASSUME Settled, NEW p, NEW plans, NEW b, Proceed(p, plans, b)
    PROVE  Settled'
<1>1. inUse' # NotRunning => inUse # NotRunning /\ (inUse' = ApplyLive(inUse, b) \/ inUse' = inUse)
    BY DEF Proceed, Reestablishes, GoesLive
<1>2. hubWide' = ApplyLive(hubWide, b) \/ hubWide' = hubWide BY DEF Proceed
<1>3. flow' # NoFlow => flow # NoFlow /\ (flow' = ApplyLive(flow, b) \/ flow' = flow) BY DEF Proceed
<1>4. registered' = registered BY DEF Proceed
<1>. QED BY <1>1, <1>2, <1>3, <1>4, LiveSets DEF Settled

\* A push that goes on says again what the hub's bundle says.
LEMMA ProceedingKeeps ==
    ASSUME ReloadInv, NEW p, ProceedLater(p), UNCHANGED bundle
    PROVE  ReloadInv'
<1>. DEFINE plans == push[p].plans
<1>1. /\ Proceed(p, plans, bundle) /\ excused' = excused \ Heeded(plans, bundle)
      /\ Settled /\ bundle \in Bundles /\ EditsTakeEffect
    BY DEF ProceedLater, ReloadInv
<1>. HIDE DEF plans
<1>2. ASSUME inUse' # NotRunning, NEW f \in TableFields \ excused' PROVE inUse'[f] = bundle[f]
    <2>1. /\ inUse # NotRunning /\ DOMAIN inUse = TableFields
          /\ inUse' = IF GoesLive(plans) THEN ApplyLive(inUse, bundle) ELSE inUse
        <3>1. inUse' = IF Reestablishes(plans) THEN NotRunning
                       ELSE IF GoesLive(plans) THEN ApplyLive(inUse, bundle) ELSE inUse
            BY <1>1, Zenon DEF Proceed
        <3>2. ~Reestablishes(plans) BY <1>2, <3>1
        <3>3. inUse' = IF GoesLive(plans) THEN ApplyLive(inUse, bundle) ELSE inUse BY <3>1, <3>2
        <3>4. inUse # NotRunning BY <1>2, <3>3 DEF GoesLive
        <3>. QED BY <1>1, <3>2, <3>3, <3>4 DEF Settled, Reestablishes
    <2>2. CASE f \in Heeded(plans, bundle)
        BY <2>1, <2>2, LiveSets DEF Heeded
    <2>3. CASE f \notin Heeded(plans, bundle)
        <3>1. inUse[f] = bundle[f] BY <1>1, <1>2, <2>1, <2>3 DEF EditsTakeEffect
        <3>. QED BY <2>1, <3>1, LiveSets
    <2>. QED BY <2>2, <2>3
<1>3. ASSUME registered' # NotRegistered, NEW f \in EntryFields \ excused'
      PROVE  registered'[f] = bundle[f]
    <2>1. registered' = registered BY <1>1 DEF Proceed
    <2>2. f \notin Heeded(plans, bundle) BY <1>3, ReloadAssumption DEF Heeded
    <2>. QED BY <1>1, <1>3, <2>1, <2>2 DEF EditsTakeEffect
<1>4. ASSUME NEW f \in HubFields \ excused'
      PROVE  hubWide'[f] = bundle[f] /\ (flow' # NoFlow => flow'[f] = bundle[f])
    <2>1. f \in Heeded(plans, bundle) \/ f \notin excused BY <1>1, <1>4
    <2>2. \/ f \in Heeded(plans, bundle)
          \/ hubWide[f] = bundle[f] /\ (flow # NoFlow => flow[f] = bundle[f])
        BY <1>1, <1>4, <2>1 DEF EditsTakeEffect
    <2>. QED BY <1>1, <1>4, <2>2, HubHeeds
<1>5. Settled' BY <1>1, ProceedSettled
<1>. QED BY <1>1, <1>2, <1>3, <1>4, <1>5 DEF ReloadInv, EditsTakeEffect

\* What a subscribe begins: a new entry in the registry, made with the bundle.
LEMMA BeginsKeeps ==
    ASSUME ReloadInv, NEW c, Begins(c), UNCHANGED bundle
    PROVE  ReloadInv'
<1>1. UNCHANGED <<inUse, hubWide, flow>> BY DEF Begins
<1>2. CASE registered # NotRegistered
    BY <1>1, <1>2 DEF Begins, ReloadInv, Settled, EditsTakeEffect
<1>3. CASE registered = NotRegistered
    <2>1. registered' = [f \in EntryFields |-> bundle[f]] /\ excused' = excused \ EntryFields
        BY <1>3 DEF Begins
    <2>2. TableFields \cap EntryFields = {} /\ HubFields \cap EntryFields = {}
        BY ReloadAssumption DEF TableFields
    <2>3. /\ TableFields \ excused' = TableFields \ excused
          /\ HubFields \ excused' = HubFields \ excused
        BY <2>1, <2>2
    <2>4. Settled' BY <1>1, <2>1 DEF ReloadInv, Settled
    <2>5. EditsTakeEffect' BY <1>1, <2>1, <2>3 DEF ReloadInv, EditsTakeEffect
    <2>. QED BY <2>4, <2>5 DEF ReloadInv
<1>. QED BY <1>2, <1>3

LEMMA PushKeeps ==
    ASSUME ReloadInv, NEW p, NEW b \in Bundles, ApplyConfig(p, b)
    PROVE  ReloadInv'
<1>. DEFINE plans == ReloadPlan(bundle, b)
            edited == {f \in Fields : bundle[f] # b[f]}
<1>1. /\ bundle' = b /\ Proceed(p, plans, b)
      /\ excused' = (excused
                       \cup (edited \cap HubFields)
                       \cup (IF registered = NotRegistered THEN {} ELSE edited \cap EntryFields)
                       \cup (IF inUse = NotRunning THEN {} ELSE Unheeded(bundle, b)))
                    \ Heeded(plans, b)
      /\ Settled /\ bundle \in Bundles /\ EditsTakeEffect
    BY DEF ApplyConfig, ReloadInv
<1>0. plans = ReloadPlan(bundle, b) OBVIOUS
<1>. HIDE DEF plans
<1>2. ASSUME inUse' # NotRunning, NEW f \in TableFields \ excused' PROVE inUse'[f] = b[f]
    <2>1. /\ inUse # NotRunning /\ DOMAIN inUse = TableFields /\ FirstStructural(plans) = 0
          /\ inUse' = IF GoesLive(plans) THEN ApplyLive(inUse, b) ELSE inUse
        <3>1. inUse' = IF Reestablishes(plans) THEN NotRunning
                       ELSE IF GoesLive(plans) THEN ApplyLive(inUse, b) ELSE inUse
            BY <1>1, Zenon DEF Proceed
        <3>2. ~Reestablishes(plans) BY <1>2, <3>1
        <3>3. inUse' = IF GoesLive(plans) THEN ApplyLive(inUse, b) ELSE inUse BY <3>1, <3>2
        <3>4. inUse # NotRunning BY <1>2, <3>3 DEF GoesLive
        <3>. QED BY <1>1, <3>2, <3>3, <3>4 DEF Settled, Reestablishes
    <2>2. CASE f \in Heeded(plans, b)
        BY <2>1, <2>2, LiveSets DEF Heeded
    <2>3. CASE f \notin Heeded(plans, b)
        <3>1. f \notin excused /\ f \notin Unheeded(bundle, b) BY <1>1, <1>2, <2>1, <2>3
        <3>2. inUse[f] = bundle[f] BY <1>1, <1>2, <2>1, <3>1 DEF EditsTakeEffect
        <3>3. \/ plans # <<>> /\ inUse' = ApplyLive(inUse, b)
              \/ plans = <<>> /\ inUse' = inUse
            BY <2>1 DEF GoesLive
        <3>. QED BY <1>0, <1>1, <1>2, <2>1, <3>1, <3>2, <3>3, EditsAreHeeded
    <2>. QED BY <2>2, <2>3
<1>3. ASSUME registered' # NotRegistered, NEW f \in EntryFields \ excused'
      PROVE  registered'[f] = b[f]
    <2>1. registered' = registered BY <1>1 DEF Proceed
    <2>2. f \notin Heeded(plans, b) /\ f \in Fields BY <1>3, ReloadAssumption DEF Heeded
    <2>3. f \notin excused /\ f \notin edited BY <1>1, <1>3, <2>1, <2>2
    <2>. QED BY <1>1, <1>3, <2>1, <2>2, <2>3 DEF EditsTakeEffect
<1>4. ASSUME NEW f \in HubFields \ excused'
      PROVE  hubWide'[f] = b[f] /\ (flow' # NoFlow => flow'[f] = b[f])
    <2>1. f \in Fields BY ReloadAssumption
    <2>2. f \in Heeded(plans, b) \/ (f \notin excused /\ f \notin edited) BY <1>1, <1>4
    <2>3. \/ f \in Heeded(plans, b)
          \/ hubWide[f] = b[f] /\ (flow # NoFlow => flow[f] = b[f])
        BY <1>1, <1>4, <2>1, <2>2 DEF EditsTakeEffect
    <2>. QED BY <1>1, <1>4, <2>3, HubHeeds
<1>5. Settled' BY <1>1, ProceedSettled
<1>. QED BY <1>1, <1>2, <1>3, <1>4, <1>5 DEF ReloadInv, EditsTakeEffect

LEMMA CreatedKeeps ==
    ASSUME ReloadInv, NEW c, TableIsCreated(c)
    PROVE  ReloadInv'
<1>1. /\ inUse' = [f \in TableFields |->
                      IF f[1] = "datasources" THEN creating[c][f] ELSE bundle[f]]
      /\ excused' = (excused \ TableFields) \cup
            {f \in TableFields : f[1] = "datasources" /\ creating[c][f] # bundle[f]}
      /\ UNCHANGED <<bundle, registered, hubWide, flow>>
    BY DEF TableIsCreated
<1>2. TableFields \cap EntryFields = {} /\ TableFields \cap HubFields = {} BY DEF TableFields
<1>3. /\ EntryFields \ excused' = EntryFields \ excused
      /\ HubFields \ excused' = HubFields \ excused
    BY <1>1, <1>2
<1>4. \A f \in TableFields \ excused' : inUse'[f] = bundle[f] BY <1>1
<1>5. Settled' BY <1>1 DEF ReloadInv, Settled
<1>. QED BY <1>1, <1>3, <1>4, <1>5 DEF ReloadInv, EditsTakeEffect

LEMMA ReloadStep == ReloadInv /\ [ReloadNext]_reloadVars => ReloadInv'
<1>. SUFFICES ASSUME ReloadInv, [ReloadNext]_reloadVars PROVE ReloadInv' OBVIOUS
<1>1. ASSUME NEW p \in Pushes, NEW b \in Bundles, ApplyConfig(p, b) PROVE ReloadInv'
    BY <1>1, PushKeeps
<1>2. ASSUME NEW p \in Pushes, TornDown(p) PROVE ReloadInv'
    BY <1>2, BeginsKeeps, ProceedingKeeps DEF TornDown
<1>3. ASSUME NEW p \in Pushes, Resubscribed(p) PROVE ReloadInv'
    BY <1>3, ProceedingKeeps DEF Resubscribed
<1>4. CASE TabSubscribes BY <1>4, BeginsKeeps DEF TabSubscribes
<1>5. ASSUME NEW c \in Callers, TableIsCreated(c) PROVE ReloadInv'
    BY <1>5, CreatedKeeps
<1>6. ASSUME NEW c \in Callers, CreationFails(c) PROVE ReloadInv'
    BY <1>6 DEF CreationFails, settings, ReloadInv, Settled, EditsTakeEffect
<1>7. CASE TabLeaves BY <1>7 DEF TabLeaves, settings, ReloadInv, Settled, EditsTakeEffect
<1>8. CASE IdleTeardown BY <1>8 DEF IdleTeardown, ReloadInv, Settled, EditsTakeEffect
<1>9. CASE FlowStarts BY <1>9 DEF FlowStarts, ReloadInv, Settled, EditsTakeEffect
<1>10. CASE UNCHANGED reloadVars
    BY <1>10 DEF reloadVars, settings, ReloadInv, Settled, EditsTakeEffect
<1>. QED BY <1>1, <1>2, <1>3, <1>4, <1>5, <1>6, <1>7, <1>8, <1>9, <1>10 DEF ReloadNext

(* What runs works with the bundle the hub has, but for the edits that are   *)
(* known to go unheeded, for every schema in which each field has a class    *)
(* and "live" is said of single fields: a push that changes a field of a     *)
(* table in place sets it, and any other takes the table down; the           *)
(* registry's entry is as the bundle says while no push edits what it took;  *)
(* and so are the hub's interval and the tab's flow after a push in place    *)
(* that the tab was there for (reload.mjs, registry.mjs, Hub.applyConfig).   *)
THEOREM EditsReachTheTable == ReloadSpec => []EditsTakeEffect
<1>1. ReloadInit => ReloadInv BY DEF ReloadInit, ReloadInv, Settled, EditsTakeEffect
<1>2. ReloadInv => EditsTakeEffect BY DEF ReloadInv
<1>. QED BY <1>1, <1>2, ReloadStep, PTL DEF ReloadSpec
==============================================================================
