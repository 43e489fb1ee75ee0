-------------------------- MODULE HubWatchesProofs --------------------------
(* Proofs about what a session keeps open in the engine, for any number of  *)
(* views, group watches, alerts and calls under way: unless two calls for a *)
(* key overlap, or the session disconnects during one, every view it opened *)
(* is disposed at the latest when it has left.                              *)
EXTENDS HubWatches, FiniteSetTheorems, SequenceTheorems, TLAPS

At(i, k) == call[i].stage # "none" /\ call[i].key = k

\* A view nothing has gone wrong for.
Kept(v) == openViews[v] # "deleted" /\ openViews[v] \notin leaky

(* Who will dispose it: the session's set of managed views, the slot of its *)
(* key - and then a call for that key is about to do it - or the call that  *)
(* is going to put it there.                                                *)
Owned(v) ==
    LET k == openViews[v] IN
    \/ k = Managed /\ v \in managed
    \/ /\ k \in WatchKeys /\ slot[k].view = v
       /\ \A i \in CallIds : At(i, k) => /\ call[i].stage \in {"stopping", "removing"}
                                         /\ call[i].view = v
    \/ /\ k \in WatchKeys
       /\ \E i \in CallIds : At(i, k) /\ call[i].stage = "watching" /\ call[i].view = v

(* The walk of a session that has left has it still ahead.                  *)
Ahead(v) ==
    LET k == openViews[v] IN
    \/ closing.stage = "open"
    \/ closing.stage = "views" /\ (k \in WatchKeys \/ v \in closing.left)
    \/ closing.stage = "groups" /\ (k \in RuleIds \/ (k \in GroupKeys /\ k \in closing.left))
    \/ closing.stage = "alerts" /\ k \in RuleIds /\ k \in closing.left

WatchTypes ==
    /\ created \in 0 .. MaxWatches
    /\ openViews \in [Watches -> WatchKeys \cup {Managed, "deleted"}]
    /\ slot \in [WatchKeys -> [view : Watches \cup {NoWatch}, sig : Sigs \cup {"none"}]]
    /\ call \in [CallIds -> [op : {"none", "open", "groups", "alert"},
                             key : WatchKeys \cup {Managed}, sig : Sigs \cup {"none"},
                             stage : Stages, view : Watches \cup {NoWatch}]]
    /\ closing \in [stage : {"open", "views", "groups", "alerts", "closed"},
                    left : SUBSET (Watches \cup WatchKeys), current : {NoWatch}]
    /\ managed \subseteq Watches

CallsFit ==
    \A i \in CallIds : call[i].stage # "none" =>
        /\ call[i].op = "open" => call[i].key = Managed /\ call[i].stage = "creating"
        /\ call[i].op # "open" => call[i].key \in WatchKeys

Exclusive ==
    \A i, j \in CallIds, k \in WatchKeys : At(i, k) /\ At(j, k) /\ k \notin leaky => i = j

LeftBehind ==
    closing.stage # "open" =>
        \A i \in CallIds : call[i].stage # "none" => call[i].key \in leaky

Accounted == \A v \in Watches : Kept(v) => Owned(v) /\ Ahead(v)

WatchInv == WatchTypes /\ CallsFit /\ Exclusive /\ LeftBehind /\ Accounted

-----------------------------------------------------------------------------
LEMMA NamesDiffer ==
    /\ Managed \notin WatchKeys /\ "deleted" \notin WatchKeys /\ Managed # "deleted"
    /\ NoWatch \notin Watches /\ GroupKeys \cap RuleIds = {} /\ MaxWatches \in Nat
BY WatchAssumption DEF WatchKeys, Managed, NoWatch, Watches

LEMMA WatchStarts == HubWatchesInit => WatchInv
<1> SUFFICES ASSUME HubWatchesInit PROVE WatchInv
    OBVIOUS
<1>1. WatchTypes
    BY NamesDiffer DEF HubWatchesInit, WatchTypes, Vacant, NoCall, Stages, Watches
<1>2. CallsFit /\ Exclusive /\ LeftBehind /\ Accounted
    BY DEF HubWatchesInit, CallsFit, Exclusive, LeftBehind, Accounted, At, NoCall, Kept
<1> QED BY <1>1, <1>2 DEF WatchInv

\* The engine's samples and the watchers touch none of it.
LEMMA SamplesKeep ==
    ASSUME WatchInv, UNCHANGED <<created, openViews, slot, managed, call, closing, leaky>>
    PROVE  WatchInv'
BY DEF WatchInv, WatchTypes, CallsFit, Exclusive, LeftBehind, Accounted, Kept, Owned, Ahead, At

\* Deleting a view takes it off the account, whoever asks for it.
LEMMA DeletedTypes ==
    ASSUME WatchTypes, NEW v \in Watches \cup {NoWatch}, Deleted(v)
    PROVE  /\ openViews' \in [Watches -> WatchKeys \cup {Managed, "deleted"}]
           /\ \A w \in Watches : openViews'[w] = openViews[w] \/ openViews'[w] = "deleted"
           /\ v \in Watches => openViews'[v] = "deleted"
BY NamesDiffer DEF WatchTypes, Deleted

-----------------------------------------------------------------------------
(* A call begins: the only one for its key, or the key is given up.         *)

LEMMA BeginKeeps ==
    ASSUME WatchInv, NEW i \in CallIds, NEW k \in WatchKeys \cup {Managed},
           NEW op \in {"open", "groups", "alert"}, NEW sig \in Sigs \cup {"none"},
           NEW stage \in {"creating", "stopping", "removing"}, NEW view \in Watches \cup {NoWatch},
           Begin(i, op, k, sig, stage, view),
           op = "open" => k = Managed /\ stage = "creating",
           op # "open" => k \in WatchKeys /\ view = slot[k].view,
           op # "open" /\ stage = "creating" => slot[k] = Vacant
    PROVE  WatchInv'
<1> DEFINE c == [op |-> op, key |-> k, sig |-> sig, stage |-> stage, view |-> view]
<1>1. /\ closing.stage = "open" /\ call[i].stage = "none"
      /\ call' = [call EXCEPT ![i] = c]
      /\ leaky' = IF k # Managed /\ Busy(k) THEN leaky \cup {k} ELSE leaky
      /\ UNCHANGED <<created, openViews, slot, managed, closing>>
    BY DEF Begin
<1>2. WatchTypes /\ CallsFit /\ Exclusive /\ Accounted
    BY DEF WatchInv
<1>3. call'[i] = c /\ \A j \in CallIds \ {i} : call'[j] = call[j]
    BY <1>1, <1>2 DEF WatchTypes
<1>4. WatchTypes'
    <2>1. c \in [op : {"none", "open", "groups", "alert"}, key : WatchKeys \cup {Managed},
                 sig : Sigs \cup {"none"}, stage : Stages, view : Watches \cup {NoWatch}]
        BY DEF Stages
    <2> QED BY <2>1, <1>1, <1>2 DEF WatchTypes
<1>5. CallsFit'
    BY <1>2, <1>3 DEF CallsFit
<1>6. Exclusive'
    <2> SUFFICES ASSUME NEW a \in CallIds, NEW b \in CallIds, NEW j \in WatchKeys,
                        At(a, j)', At(b, j)', j \notin leaky'
                 PROVE  a = b
        BY DEF Exclusive
    <2>1. CASE a # i /\ b # i
        BY <2>1, <1>1, <1>2, <1>3 DEF Exclusive, At
    <2>2. ASSUME NEW d \in CallIds \ {i}, At(d, j)', At(i, j)' PROVE FALSE
        <3>1. j = k /\ At(d, k)
            BY <2>2, <1>3 DEF At
        <3>2. Busy(k) /\ k # Managed
            BY <3>1, NamesDiffer DEF At, Busy
        <3> QED BY <3>1, <3>2, <1>1
    <2> QED BY <2>1, <2>2
<1>7. LeftBehind'
    BY <1>1 DEF LeftBehind
<1>8. ASSUME NEW v \in Watches, Kept(v)' PROVE Owned(v)' /\ Ahead(v)'
    <2>1. Kept(v) /\ Owned(v)
        BY <1>8, <1>1, <1>2 DEF Kept, Accounted
    <2>2. Ahead(v)'
        BY <1>1 DEF Ahead
    <2>3. CASE openViews[v] # k
        <3>1. \A j \in CallIds : /\ At(j, openViews[v])' <=> At(j, openViews[v])
                                 /\ At(j, openViews[v]) => call'[j] = call[j]
            BY <1>1, <1>3, <2>3 DEF At
        <3>2. Owned(v)'
            BY <2>1, <3>1, <1>1 DEF Owned
        <3> QED BY <2>2, <3>2
    <2>4. CASE openViews[v] = k /\ k = Managed
        <3>1. v \in managed
            BY <2>1, <2>4, NamesDiffer DEF Owned
        <3> QED BY <3>1, <2>2, <2>4, <1>1 DEF Owned
    <2>5. CASE openViews[v] = k /\ k # Managed
        <3>1. ~Busy(k) /\ k \in WatchKeys
            BY <2>5, <1>8, <1>1 DEF Kept
        <3>2. \A j \in CallIds : ~At(j, k)
            BY <3>1 DEF Busy, At
        <3>3. slot[k].view = v
            BY <2>1, <2>5, <3>2 DEF Owned
        <3>4. op # "open" /\ stage # "creating" /\ view = v
            BY <3>1, <3>3, <2>5, NamesDiffer DEF Vacant
        <3>5. \A j \in CallIds : At(j, k)' => call'[j].stage \in {"stopping", "removing"}
                                             /\ call'[j].view = v
            BY <3>2, <3>4, <1>3 DEF At
        <3>6. Owned(v)'
            BY <2>5, <3>1, <3>3, <3>5, <1>1 DEF Owned
        <3> QED BY <2>2, <3>6
    <2> QED BY <2>3, <2>4, <2>5
<1> QED BY <1>4, <1>5, <1>6, <1>7, <1>8 DEF WatchInv, Accounted

-----------------------------------------------------------------------------
(* A call goes on or ends.  Its key is its own unless it is given up.       *)

\* What a call may leave to the views of its key once it is the only one.
LEMMA AdvanceKeeps ==
    ASSUME WatchInv, NEW i \in CallIds, call[i].stage # "none",
           NEW c \in [op : {"none", "open", "groups", "alert"}, key : WatchKeys \cup {Managed},
                      sig : Sigs \cup {"none"}, stage : Stages, view : Watches \cup {NoWatch}],
           call' = [call EXCEPT ![i] = c],
           c.stage # "none" => c.key = call[i].key /\ c.op = call[i].op /\ c.op # "open",
           UNCHANGED <<closing, leaky>>,
           WatchTypes', managed \subseteq managed',
           \A k \in WatchKeys \ {call[i].key} : slot'[k] = slot[k],
           \A v \in Watches : \/ openViews'[v] \in {openViews[v], "deleted"}
                              \/ openViews'[v] = call[i].key,
           \A v \in Watches : openViews'[v] = call[i].key =>
               \/ call[i].key \in leaky
               \/ call[i].key = Managed /\ v \in managed' /\ closing.stage = "open"
               \/ /\ call[i].key \in WatchKeys /\ closing.stage = "open"
                  /\ \/ c.stage = "none" /\ slot'[call[i].key].view = v
                     \/ c.stage = "watching" /\ c.view = v
    PROVE  WatchInv'
<1>1. WatchTypes /\ CallsFit /\ Exclusive /\ LeftBehind /\ Accounted
    BY DEF WatchInv
<1>2. call'[i] = c /\ \A j \in CallIds \ {i} : call'[j] = call[j]
    BY <1>1 DEF WatchTypes
<1>3. CallsFit'
    BY <1>1, <1>2 DEF CallsFit
<1>4. \A j \in CallIds, k \in WatchKeys : At(j, k)' => At(j, k)
    BY <1>2 DEF At
<1>5. Exclusive'
    BY <1>1, <1>4 DEF Exclusive
<1>6. LeftBehind'
    BY <1>1, <1>2 DEF LeftBehind
<1>7. ASSUME NEW v \in Watches, Kept(v)' PROVE Owned(v)' /\ Ahead(v)'
    <2>1. CASE openViews'[v] = call[i].key
        <3>1. call[i].key \notin leaky
            BY <1>7, <2>1 DEF Kept
        <3>2. closing.stage = "open"
            BY <2>1, <3>1
        <3>3. Ahead(v)'
            BY <3>2 DEF Ahead
        <3>4. CASE call[i].key = Managed
            BY <3>1, <3>3, <3>4, <2>1, NamesDiffer DEF Owned
        <3>5. CASE call[i].key \in WatchKeys
            <4>1. \A j \in CallIds \ {i} : ~At(j, call[i].key)
                BY <3>1, <3>5, <1>1 DEF Exclusive, At
            <4>2. \A j \in CallIds \ {i} : call'[j].stage = "none" \/ call'[j].key # call[i].key
                BY <4>1, <1>2 DEF At
            <4>3. CASE c.stage = "none" /\ slot'[call[i].key].view = v
                <5>1. \A j \in CallIds : ~(call'[j].stage # "none" /\ call'[j].key = openViews'[v])
                    BY <4>2, <4>3, <1>2, <2>1
                <5> QED BY <5>1, <4>3, <3>3, <3>5, <2>1 DEF Owned, At
            <4>4. CASE c.stage = "watching" /\ c.view = v
                <5>1. call'[i].stage # "none" /\ call'[i].key = openViews'[v]
                      /\ call'[i].stage = "watching" /\ call'[i].view = v
                    BY <4>4, <1>2, <2>1
                <5> QED BY <5>1, <3>3, <3>5, <2>1 DEF Owned, At
            <4> QED BY <4>3, <4>4, <2>1, <3>1, <3>5, NamesDiffer
        <3> QED BY <3>4, <3>5, <1>1 DEF WatchTypes
    <2>2. CASE openViews'[v] # call[i].key
        <3>1. openViews'[v] = openViews[v] /\ Kept(v)
            BY <1>7, <2>2 DEF Kept
        <3>2. Owned(v) /\ Ahead(v)
            BY <3>1, <1>1 DEF Accounted
        <3>3. \A j \in CallIds : /\ At(j, openViews[v]) => j # i /\ call'[j] = call[j]
                                 /\ (call'[j].stage # "none" /\ call'[j].key = openViews[v])
                                        <=> At(j, openViews[v])
            BY <3>1, <2>2, <1>2 DEF At
        <3>4. Owned(v)'
            <4>1. openViews[v] \in WatchKeys => slot'[openViews[v]] = slot[openViews[v]]
                BY <2>2, <3>1
            <4> QED BY <3>1, <3>2, <3>3, <4>1 DEF Owned, At
        <3>5. Ahead(v)'
            BY <3>1, <3>2 DEF Ahead
        <3> QED BY <3>4, <3>5
    <2> QED BY <2>1, <2>2
<1> QED BY <1>3, <1>5, <1>6, <1>7 DEF WatchInv, Accounted

\* Where a call stands tells which views its key may have.
LEMMA CallOwns ==
    ASSUME WatchInv, NEW i \in CallIds, call[i].stage # "none", NEW v \in Watches,
           openViews[v] = call[i].key, call[i].key \notin leaky, call[i].key # Managed
    PROVE  /\ call[i].stage # "creating" /\ call[i].view = v /\ closing.stage = "open"
           /\ call[i].key \in WatchKeys
<1>1. call[i].key \in WatchKeys /\ WatchTypes
    BY DEF WatchInv, WatchTypes
<1>2. Kept(v) /\ At(i, call[i].key)
    BY <1>1, NamesDiffer DEF Kept, At
<1>3. Owned(v) /\ closing.stage = "open"
    BY <1>2 DEF WatchInv, Accounted, LeftBehind
<1>4. \A j \in CallIds : At(j, call[i].key) => j = i
    BY <1>1, <1>2 DEF WatchInv, Exclusive
<1> QED BY <1>1, <1>2, <1>3, <1>4, NamesDiffer DEF Owned

LEMMA OldStoppedKeeps == ASSUME WatchInv, NEW i \in CallIds, OldStopped(i) PROVE WatchInv'
<1> DEFINE c == [call[i] EXCEPT !.stage = "creating", !.view = NoWatch]
<1>1. /\ call[i].stage = "stopping" /\ Deleted(call[i].view)
      /\ slot' = IF call[i].op = "groups" THEN [slot EXCEPT ![call[i].key] = Vacant] ELSE slot
      /\ call' = [call EXCEPT ![i] = c]
      /\ UNCHANGED <<created, managed, closing, leaky>>
    BY DEF OldStopped
<1>2. WatchTypes /\ call[i].op # "open" /\ call[i].key \in WatchKeys
    BY <1>1 DEF WatchInv, CallsFit
<1>3. /\ call[i] \in [op : {"none", "open", "groups", "alert"}, key : WatchKeys \cup {Managed},
                      sig : Sigs \cup {"none"}, stage : Stages, view : Watches \cup {NoWatch}]
      /\ c \in [op : {"none", "open", "groups", "alert"}, key : WatchKeys \cup {Managed},
                sig : Sigs \cup {"none"}, stage : Stages, view : Watches \cup {NoWatch}]
      /\ c.key = call[i].key /\ c.op = call[i].op
    BY <1>2 DEF WatchTypes, Stages
<1>4. /\ openViews' \in [Watches -> WatchKeys \cup {Managed, "deleted"}]
      /\ \A w \in Watches : openViews'[w] = openViews[w] \/ openViews'[w] = "deleted"
      /\ call[i].view \in Watches => openViews'[call[i].view] = "deleted"
    BY <1>1, <1>2, <1>3, DeletedTypes
<1>5. slot' \in [WatchKeys -> [view : Watches \cup {NoWatch}, sig : Sigs \cup {"none"}]]
      /\ \A k \in WatchKeys \ {call[i].key} : slot'[k] = slot[k]
    BY <1>1, <1>2 DEF WatchTypes, Vacant
<1>6. WatchTypes'
    BY <1>1, <1>2, <1>3, <1>4, <1>5 DEF WatchTypes
<1>7. ASSUME NEW v \in Watches, openViews'[v] = call[i].key PROVE call[i].key \in leaky
    <2>1. openViews[v] = call[i].key /\ call[i].view # v
        BY <1>7, <1>2, <1>4, NamesDiffer
    <2> QED BY <2>1, <1>1, <1>2, CallOwns, NamesDiffer
<1> QED BY <1>1, <1>2, <1>3, <1>4, <1>5, <1>6, <1>7, AdvanceKeeps

LEMMA RemovedKeeps == ASSUME WatchInv, NEW i \in CallIds, Removed(i) PROVE WatchInv'
<1>1. /\ call[i].stage = "removing" /\ Deleted(call[i].view)
      /\ slot' = [slot EXCEPT ![call[i].key] = Vacant] /\ call' = [call EXCEPT ![i] = NoCall]
      /\ UNCHANGED <<created, managed, closing, leaky>>
    BY DEF Removed
<1>2. WatchTypes /\ call[i].key \in WatchKeys /\ call[i].view \in Watches \cup {NoWatch}
    BY <1>1 DEF WatchInv, CallsFit, WatchTypes
<1>3. /\ openViews' \in [Watches -> WatchKeys \cup {Managed, "deleted"}]
      /\ \A w \in Watches : openViews'[w] = openViews[w] \/ openViews'[w] = "deleted"
      /\ call[i].view \in Watches => openViews'[call[i].view] = "deleted"
    BY <1>1, <1>2, DeletedTypes
<1>4. /\ slot' \in [WatchKeys -> [view : Watches \cup {NoWatch}, sig : Sigs \cup {"none"}]]
      /\ \A k \in WatchKeys \ {call[i].key} : slot'[k] = slot[k]
      /\ NoCall \in [op : {"none", "open", "groups", "alert"}, key : WatchKeys \cup {Managed},
                     sig : Sigs \cup {"none"}, stage : Stages, view : Watches \cup {NoWatch}]
      /\ NoCall.stage = "none"
    BY <1>1, <1>2 DEF WatchTypes, Vacant, NoCall, Stages
<1>5. WatchTypes'
    BY <1>1, <1>2, <1>3, <1>4 DEF WatchTypes
<1>6. ASSUME NEW v \in Watches, openViews'[v] = call[i].key PROVE call[i].key \in leaky
    <2>1. openViews[v] = call[i].key /\ call[i].view # v
        BY <1>6, <1>2, <1>3, NamesDiffer
    <2> QED BY <2>1, <1>1, <1>2, CallOwns, NamesDiffer
<1> QED BY <1>1, <1>3, <1>4, <1>5, <1>6, AdvanceKeeps

LEMMA ViewMadeKeeps == ASSUME WatchInv, NEW i \in CallIds, ViewMade(i) PROVE WatchInv'
<1> DEFINE new == created + 1
           c == IF call[i].op = "open" THEN NoCall
                ELSE [call[i] EXCEPT !.stage = "watching", !.view = new]
<1>1. /\ call[i].stage = "creating" /\ created < MaxWatches /\ created' = new
      /\ openViews' = [openViews EXCEPT ![new] = call[i].key]
      /\ managed' = IF call[i].op = "open" THEN managed \cup {new} ELSE managed
      /\ call' = [call EXCEPT ![i] = c]
      /\ UNCHANGED <<slot, closing, leaky>>
    BY DEF ViewMade
<1>2. WatchTypes /\ CallsFit /\ LeftBehind /\ call[i].key \in WatchKeys \cup {Managed}
    BY DEF WatchInv, WatchTypes
<1>3. new \in Watches /\ new \in 0 .. MaxWatches
    BY <1>1, <1>2, NamesDiffer DEF WatchTypes, Watches
<1>4. c \in [op : {"none", "open", "groups", "alert"}, key : WatchKeys \cup {Managed},
             sig : Sigs \cup {"none"}, stage : Stages, view : Watches \cup {NoWatch}]
    <2>1. call[i] \in [op : {"none", "open", "groups", "alert"}, key : WatchKeys \cup {Managed},
                       sig : Sigs \cup {"none"}, stage : Stages, view : Watches \cup {NoWatch}]
        BY <1>2 DEF WatchTypes
    <2> QED BY <2>1, <1>3 DEF NoCall, Stages
<1>5. /\ call[i].op = "open" => call[i].key = Managed /\ c.stage = "none"
      /\ call[i].op # "open" => /\ call[i].key \in WatchKeys /\ c.stage = "watching" /\ c.view = new
                                /\ c.key = call[i].key /\ c.op = call[i].op
    <2>1. call[i] \in [op : {"none", "open", "groups", "alert"}, key : WatchKeys \cup {Managed},
                       sig : Sigs \cup {"none"}, stage : Stages, view : Watches \cup {NoWatch}]
        BY <1>2 DEF WatchTypes
    <2> QED BY <2>1, <1>1, <1>2 DEF CallsFit, NoCall
<1>6. WatchTypes'
    BY <1>1, <1>2, <1>3, <1>4 DEF WatchTypes
<1>7. \A v \in Watches : openViews'[v] = IF v = new THEN call[i].key ELSE openViews[v]
    BY <1>1, <1>2 DEF WatchTypes
<1>8. ASSUME NEW v \in Watches, openViews'[v] = call[i].key, call[i].key \notin leaky
      PROVE  /\ closing.stage = "open"
             /\ \/ call[i].key = Managed /\ v \in managed'
                \/ call[i].key \in WatchKeys /\ c.stage = "watching" /\ c.view = v
    <2>1. closing.stage = "open"
        BY <1>1, <1>2, <1>8 DEF LeftBehind
    <2>2. CASE call[i].op = "open"
        <3>1. call[i].key = Managed
            BY <2>2, <1>5
        <3>2. v = new \/ v \in managed
            <4>1. CASE openViews[v] = Managed /\ v # new
                <5>1. Kept(v)
                    BY <4>1, <3>1, <1>8, NamesDiffer DEF Kept
                <5>2. Owned(v)
                    BY <5>1 DEF WatchInv, Accounted
                <5> QED BY <5>2, <4>1, NamesDiffer DEF Owned
            <4> QED BY <4>1, <3>1, <1>7, <1>8
        <3> QED BY <2>1, <2>2, <3>1, <3>2, <1>1
    <2>3. CASE call[i].op # "open"
        <3>1. call[i].key \in WatchKeys /\ c.stage = "watching" /\ c.view = new
            BY <2>3, <1>5
        <3>2. v = new
            BY <3>1, <1>1, <1>7, <1>8, CallOwns, NamesDiffer
        <3> QED BY <2>1, <3>1, <3>2
    <2> QED BY <2>2, <2>3
<1>9. \A k \in WatchKeys \ {call[i].key} : slot'[k] = slot[k]
    BY <1>1
<1>10. managed \subseteq managed'
    BY <1>1
<1>11. call[i].stage # "none" /\ call' = [call EXCEPT ![i] = c] /\ UNCHANGED <<closing, leaky>>
    BY <1>1
<1>12. c.stage # "none" => c.key = call[i].key /\ c.op = call[i].op /\ c.op # "open"
    BY <1>5
<1>13. \A v \in Watches : \/ openViews'[v] \in {openViews[v], "deleted"}
                         \/ openViews'[v] = call[i].key
    BY <1>7
<1>14. \A v \in Watches : openViews'[v] = call[i].key =>
          \/ call[i].key \in leaky
          \/ call[i].key = Managed /\ v \in managed' /\ closing.stage = "open"
          \/ /\ call[i].key \in WatchKeys /\ closing.stage = "open"
             /\ \/ c.stage = "none" /\ slot'[call[i].key].view = v
                \/ c.stage = "watching" /\ c.view = v
    BY <1>8
<1> HIDE DEF c, new
<1> QED BY <1>4, <1>6, <1>9, <1>10, <1>11, <1>12, <1>13, <1>14, AdvanceKeeps

LEMMA ViewRefusedKeeps == ASSUME WatchInv, NEW i \in CallIds, ViewRefused(i) PROVE WatchInv'
<1>1. /\ call[i].stage = "creating" /\ call' = [call EXCEPT ![i] = NoCall]
      /\ UNCHANGED <<created, openViews, slot, managed, closing, leaky>>
    BY DEF ViewRefused
<1>2. WatchTypes /\ call[i].key \in WatchKeys \cup {Managed} /\ LeftBehind
    BY DEF WatchInv, WatchTypes
<1>3. /\ NoCall \in [op : {"none", "open", "groups", "alert"}, key : WatchKeys \cup {Managed},
                     sig : Sigs \cup {"none"}, stage : Stages, view : Watches \cup {NoWatch}]
      /\ NoCall.stage = "none"
    BY DEF NoCall, Stages
<1>4. WatchTypes'
    BY <1>1, <1>2, <1>3 DEF WatchTypes
<1>5. ASSUME NEW v \in Watches, openViews'[v] = call[i].key, call[i].key \notin leaky
      PROVE  call[i].key = Managed /\ v \in managed' /\ closing.stage = "open"
    <2>1. openViews[v] = call[i].key /\ closing.stage = "open"
        BY <1>1, <1>2, <1>5 DEF LeftBehind
    <2>2. call[i].key = Managed
        BY <2>1, <1>1, <1>5, CallOwns
    <2>3. Kept(v)
        BY <2>1, <2>2, <1>5, NamesDiffer DEF Kept
    <2>4. Owned(v)
        BY <2>3 DEF WatchInv, Accounted
    <2> QED BY <2>1, <2>2, <2>4, <1>1, NamesDiffer DEF Owned
<1> QED BY <1>1, <1>3, <1>4, <1>5, AdvanceKeeps

LEMMA WatchSetKeeps == ASSUME WatchInv, NEW i \in CallIds, WatchSet(i) PROVE WatchInv'
<1>1. /\ call[i].stage = "watching" /\ call' = [call EXCEPT ![i] = NoCall]
      /\ slot' = [slot EXCEPT ![call[i].key] = [view |-> call[i].view, sig |-> call[i].sig]]
      /\ UNCHANGED <<created, openViews, managed, closing, leaky>>
    BY DEF WatchSet
<1>2. WatchTypes /\ call[i].key \in WatchKeys
      /\ call[i].view \in Watches \cup {NoWatch} /\ call[i].sig \in Sigs \cup {"none"}
    BY <1>1 DEF WatchInv, CallsFit, WatchTypes
<1>3. /\ NoCall \in [op : {"none", "open", "groups", "alert"}, key : WatchKeys \cup {Managed},
                     sig : Sigs \cup {"none"}, stage : Stages, view : Watches \cup {NoWatch}]
      /\ NoCall.stage = "none"
    BY DEF NoCall, Stages
<1>4. /\ slot' \in [WatchKeys -> [view : Watches \cup {NoWatch}, sig : Sigs \cup {"none"}]]
      /\ \A k \in WatchKeys \ {call[i].key} : slot'[k] = slot[k]
      /\ slot'[call[i].key].view = call[i].view
    BY <1>1, <1>2 DEF WatchTypes
<1>5. WatchTypes'
    BY <1>1, <1>2, <1>3, <1>4 DEF WatchTypes
<1>6. ASSUME NEW v \in Watches, openViews'[v] = call[i].key, call[i].key \notin leaky
      PROVE  closing.stage = "open" /\ slot'[call[i].key].view = v
    BY <1>1, <1>2, <1>4, <1>6, CallOwns, NamesDiffer
<1>7. \A v \in Watches : openViews'[v] = call[i].key =>
          \/ call[i].key \in leaky
          \/ call[i].key = Managed /\ v \in managed' /\ closing.stage = "open"
          \/ /\ call[i].key \in WatchKeys /\ closing.stage = "open"
             /\ \/ NoCall.stage = "none" /\ slot'[call[i].key].view = v
                \/ NoCall.stage = "watching" /\ NoCall.view = v
    BY <1>2, <1>3, <1>6
<1>8. /\ managed \subseteq managed' /\ UNCHANGED <<closing, leaky>>
      /\ \A v \in Watches : \/ openViews'[v] \in {openViews[v], "deleted"}
                            \/ openViews'[v] = call[i].key
      /\ NoCall.stage # "none" =>
             NoCall.key = call[i].key /\ NoCall.op = call[i].op /\ NoCall.op # "open"
      /\ call[i].stage # "none" /\ call' = [call EXCEPT ![i] = NoCall]
    BY <1>1, <1>3
<1>9. /\ NoCall \in [op : {"none", "open", "groups", "alert"}, key : WatchKeys \cup {Managed},
                     sig : Sigs \cup {"none"}, stage : Stages, view : Watches \cup {NoWatch}]
      /\ \A k \in WatchKeys \ {call[i].key} : slot'[k] = slot[k]
    BY <1>3, <1>4
<1> QED BY <1>5, <1>7, <1>8, <1>9, AdvanceKeeps

-----------------------------------------------------------------------------
(* Disposing, and the walk of a session that has left.                      *)

\* Views are deleted, and whatever stays open stays with its owner.
LEMMA DisposalKeeps ==
    ASSUME WatchInv, UNCHANGED <<created, call, leaky, slot>>, closing.stage = closing'.stage,
           WatchTypes', NEW w \in Watches \cup {NoWatch}, Deleted(w),
           managed \ {w} \subseteq managed',
           closing.stage = "views" => closing.left \ closing'.left \subseteq {w},
           closing.stage # "views" =>
               closing.left \ closing'.left \subseteq {k \in WatchKeys : slot[k].view = w}
    PROVE  WatchInv'
<1>1. WatchTypes /\ CallsFit /\ Exclusive /\ LeftBehind /\ Accounted
    BY DEF WatchInv
<1>2. CallsFit' /\ Exclusive' /\ LeftBehind'
    BY <1>1 DEF CallsFit, Exclusive, LeftBehind, At
<1>3. /\ \A v \in Watches : openViews'[v] = openViews[v] \/ openViews'[v] = "deleted"
      /\ w \in Watches => openViews'[w] = "deleted"
    BY <1>1, DeletedTypes
<1>4. ASSUME NEW v \in Watches, Kept(v)' PROVE Owned(v)' /\ Ahead(v)'
    <2>1. openViews'[v] = openViews[v] /\ Kept(v) /\ v # w
        BY <1>3, <1>4 DEF Kept
    <2>2. Owned(v) /\ Ahead(v)
        BY <2>1, <1>1 DEF Accounted
    <2>3. Owned(v)'
        BY <2>1, <2>2 DEF Owned, At
    <2>4. CASE closing.stage = "open"
        BY <2>3, <2>4 DEF Ahead
    <2>5. CASE closing.stage # "open"
        <3>1. \A i \in CallIds : ~At(i, openViews[v])
            BY <2>1, <2>5, <1>1 DEF LeftBehind, At, Kept
        <3>2. openViews[v] \in WatchKeys => slot[openViews[v]].view # w
            BY <2>1, <2>2, <3>1, NamesDiffer DEF Owned
        <3>3. CASE closing.stage = "views"
            BY <2>1, <2>2, <2>3, <3>3 DEF Ahead
        <3>4. CASE closing.stage # "views"
            <4>1. openViews[v] \in WatchKeys
                BY <2>2, <2>5, <3>4 DEF Ahead, WatchKeys
            <4>2. openViews[v] \in closing.left => openViews[v] \in closing'.left
                BY <3>2, <3>4, <4>1
            <4> QED BY <2>1, <2>2, <2>3, <2>5, <3>4, <4>2 DEF Ahead
        <3> QED BY <3>3, <3>4
    <2> QED BY <2>4, <2>5
<1> QED BY <1>2, <1>4 DEF WatchInv, Accounted

LEMMA DisposeKeeps ==
    ASSUME WatchInv, NEW v \in Watches, DisposeManagedView(v) \/ WalkDisposes(v)
    PROVE  WatchInv'
<1>1. /\ managed' = managed \ {v} /\ Deleted(v) /\ UNCHANGED <<created, slot, call, leaky>>
      /\ \/ UNCHANGED closing
         \/ closing.stage = "views" /\ closing' = [closing EXCEPT !.left = closing.left \ {v}]
    BY DEF DisposeManagedView, WalkDisposes
<1>2. WatchTypes
    BY DEF WatchInv
<1>3. /\ closing' \in [stage : {"open", "views", "groups", "alerts", "closed"},
                       left : SUBSET (Watches \cup WatchKeys), current : {NoWatch}]
      /\ closing'.stage = closing.stage
      /\ closing.left \ closing'.left \subseteq {v}
      /\ closing.stage # "views" => closing' = closing
    BY <1>1, <1>2 DEF WatchTypes
<1>4. WatchTypes'
    BY <1>1, <1>2, <1>3, DeletedTypes DEF WatchTypes
<1>5. /\ closing.stage = "views" => closing.left \ closing'.left \subseteq {v}
      /\ closing.stage # "views" =>
             closing.left \ closing'.left \subseteq {k \in WatchKeys : slot[k].view = v}
      /\ closing.stage = closing'.stage /\ managed \ {v} \subseteq managed'
      /\ v \in Watches \cup {NoWatch} /\ UNCHANGED <<created, call, leaky, slot>>
    BY <1>1, <1>3
<1> QED BY <1>1, <1>4, <1>5, DisposalKeeps

LEMMA WalkStopsKeeps ==
    ASSUME WatchInv, NEW k \in WatchKeys, WalkStops(k)
    PROVE  WatchInv'
<1>1. /\ closing.stage \in {"groups", "alerts"}
      /\ closing' = [closing EXCEPT !.left = closing.left \ {k}]
      /\ Deleted(slot[k].view) /\ UNCHANGED <<created, slot, managed, call, leaky>>
    BY DEF WalkStops
<1>2. WatchTypes /\ slot[k].view \in Watches \cup {NoWatch}
    BY DEF WatchInv, WatchTypes
<1>3. closing' \in [stage : {"open", "views", "groups", "alerts", "closed"},
                    left : SUBSET (Watches \cup WatchKeys), current : {NoWatch}]
      /\ closing'.stage = closing.stage
      /\ closing.left \ closing'.left \subseteq {j \in WatchKeys : slot[j].view = slot[k].view}
    BY <1>1, <1>2 DEF WatchTypes
<1>4. WatchTypes'
    BY <1>1, <1>2, <1>3, DeletedTypes DEF WatchTypes
<1> QED BY <1>1, <1>2, <1>3, <1>4, DisposalKeeps

\* The next map is walked: of the one before, nothing is left that is kept.
LEMMA WalkTurnsKeeps == ASSUME WatchInv, WalkTurns PROVE WatchInv'
<1>1. /\ closing.stage \in {"views", "groups", "alerts"} /\ closing.left = {}
      /\ slot' = IF closing.stage = "views" THEN slot
                 ELSE [k \in WatchKeys |-> IF k \in SlotsOf(closing.stage) THEN Vacant
                                           ELSE slot[k]]
      /\ UNCHANGED <<created, openViews, managed, call, leaky>>
    BY DEF WalkTurns, NextStage
<1>2. /\ closing.stage = "views" => closing'.stage = "groups" /\ closing'.left = GroupKeys
      /\ closing.stage = "groups" => closing'.stage = "alerts" /\ closing'.left = RuleIds
      /\ closing.stage = "alerts" => closing'.stage = "closed" /\ closing'.left = {}
      /\ closing' \in [stage : {"open", "views", "groups", "alerts", "closed"},
                       left : SUBSET (Watches \cup WatchKeys), current : {NoWatch}]
    <2> DEFINE next == NextStage[closing.stage]
    <2>1. closing' = [closing EXCEPT !.stage = next,
                                     !.left = IF closing.stage = "alerts" THEN {}
                                              ELSE SlotsOf(next)]
        BY DEF WalkTurns
    <2>2. /\ closing.stage = "views" => next = "groups"
          /\ closing.stage = "groups" => next = "alerts"
          /\ closing.stage = "alerts" => next = "closed"
        BY DEF NextStage
    <2>3. closing \in [stage : {"open", "views", "groups", "alerts", "closed"},
                      left : SUBSET (Watches \cup WatchKeys), current : {NoWatch}]
        BY DEF WatchInv, WatchTypes
    <2> HIDE DEF next
    <2>4. CASE closing.stage = "alerts"
        BY <2>1, <2>2, <2>3, <2>4
    <2>5. CASE closing.stage \in {"views", "groups"}
        BY <2>1, <2>2, <2>3, <2>5 DEF SlotsOf, WatchKeys
    <2> QED BY <1>1, <2>4, <2>5
<1>3. WatchTypes /\ CallsFit /\ Exclusive /\ LeftBehind /\ Accounted
    BY DEF WatchInv
<1>4. WatchTypes'
    BY <1>1, <1>2, <1>3 DEF WatchTypes, Vacant
<1>5. CallsFit' /\ Exclusive' /\ LeftBehind'
    BY <1>1, <1>3 DEF CallsFit, Exclusive, LeftBehind, At
<1>6. ASSUME NEW v \in Watches, Kept(v)' PROVE Owned(v)' /\ Ahead(v)'
    <2>1. openViews'[v] = openViews[v] /\ Kept(v) /\ Owned(v) /\ Ahead(v)
        BY <1>1, <1>3, <1>6 DEF Kept, Accounted
    <2>2. openViews[v] \in WatchKeys /\ (closing.stage # "views" => openViews[v] \in RuleIds)
          /\ closing.stage # "alerts"
        BY <1>1, <2>1 DEF Ahead, WatchKeys
    <2>3. Ahead(v)'
        BY <1>1, <1>2, <2>1, <2>2 DEF Ahead, WatchKeys
    <2>4. slot'[openViews[v]] = slot[openViews[v]]
        BY <1>1, <2>2, NamesDiffer DEF SlotsOf
    <2>5. Owned(v)'
        BY <1>1, <2>1, <2>4 DEF Owned, At
    <2> QED BY <2>3, <2>5
<1> QED BY <1>4, <1>5, <1>6 DEF WatchInv, Accounted

LEMMA ReleaseKeeps == ASSUME WatchInv, ReleaseWatches PROVE WatchInv'
<1>1. /\ closing.stage = "open"
      /\ closing' = [stage |-> "views", left |-> managed, current |-> NoWatch]
      /\ leaky' = leaky \cup {call[i].key : i \in {j \in CallIds : call[j].stage # "none"}}
      /\ UNCHANGED <<created, openViews, slot, managed, call>>
    BY DEF ReleaseWatches
<1>2. WatchTypes /\ CallsFit /\ Exclusive /\ Accounted
    BY DEF WatchInv
<1>3. ASSUME NEW v \in Watches, Kept(v)' PROVE Owned(v)' /\ Ahead(v)'
    <2>1. openViews'[v] = openViews[v] /\ Kept(v) /\ Owned(v)
        BY <1>1, <1>2, <1>3 DEF Kept, Accounted
    <2>2. Owned(v)'
        BY <1>1, <2>1 DEF Owned, At
    <2>3. openViews[v] \in WatchKeys \/ v \in managed
        BY <2>1 DEF Owned
    <2> QED BY <1>1, <2>1, <2>2, <2>3 DEF Ahead
<1>4. CallsFit' /\ Exclusive' /\ LeftBehind'
    BY <1>1, <1>2 DEF CallsFit, Exclusive, LeftBehind, At
<1> QED BY <1>1, <1>2, <1>3, <1>4 DEF WatchInv, Accounted, WatchTypes
LEMMA WatchStep == WatchInv /\ [HubWatchesNext]_watchVars => WatchInv'
<1> SUFFICES ASSUME WatchInv, [HubWatchesNext]_watchVars PROVE WatchInv'
    OBVIOUS
<1>1. CASE RowMoves
    BY <1>1, SamplesKeep DEF RowMoves
<1>2. ASSUME NEW v \in Watches,
             \/ SampleRead(v) \/ AlertFeeds(v) \/ GroupFeeds(v)
             \/ DisposeManagedView(v) \/ WalkDisposes(v)
      PROVE  WatchInv'
    <2>1. CASE SampleRead(v) \/ AlertFeeds(v) \/ GroupFeeds(v)
        BY <2>1, SamplesKeep DEF SampleRead, AlertFeeds, GroupFeeds
    <2> QED BY <1>2, <2>1, DisposeKeeps
<1>3. ASSUME NEW i \in CallIds, OpenManagedView(i) PROVE WatchInv'
    <2>1. Begin(i, "open", Managed, "none", "creating", NoWatch)
        BY <1>3 DEF OpenManagedView
    <2> QED BY <2>1, BeginKeeps
<1>4. ASSUME NEW i \in CallIds, NEW k \in GroupKeys, NEW sig \in Sigs, WatchGroups(i, k, sig)
      PROVE  WatchInv'
    <2>1. PICK stage \in {"creating", "stopping"} :
              /\ Begin(i, "groups", k, sig, stage, slot[k].view)
              /\ stage = "creating" => slot[k] = Vacant
        BY <1>4 DEF WatchGroups
    <2>2. k \in WatchKeys /\ slot[k].view \in Watches \cup {NoWatch}
        BY DEF WatchKeys, WatchInv, WatchTypes
    <2> QED BY <2>1, <2>2, BeginKeeps
<1>5. ASSUME NEW i \in CallIds, NEW k \in RuleIds, SubscribeAlert(i, k) \/ UnsubscribeAlert(i, k)
      PROVE  WatchInv'
    <2>1. PICK stage \in {"creating", "stopping", "removing"} :
              /\ Begin(i, "alert", k, "none", stage, slot[k].view)
              /\ stage = "creating" => slot[k] = Vacant
        BY <1>5 DEF SubscribeAlert, UnsubscribeAlert
    <2>2. k \in WatchKeys /\ slot[k].view \in Watches \cup {NoWatch}
        BY DEF WatchKeys, WatchInv, WatchTypes
    <2> QED BY <2>1, <2>2, BeginKeeps
<1>6. ASSUME NEW i \in CallIds,
             OldStopped(i) \/ Removed(i) \/ ViewMade(i) \/ ViewRefused(i) \/ WatchSet(i)
      PROVE  WatchInv'
    BY <1>6, OldStoppedKeeps, RemovedKeeps, ViewMadeKeeps, ViewRefusedKeeps, WatchSetKeeps
<1>7. CASE ReleaseWatches \/ WalkTurns \/ \E k \in WatchKeys : WalkStops(k)
    BY <1>7, ReleaseKeeps, WalkTurnsKeeps, WalkStopsKeeps
<1>8. CASE UNCHANGED watchVars
    BY <1>8, SamplesKeep DEF watchVars
<1> QED BY <1>1, <1>2, <1>3, <1>4, <1>5, <1>6, <1>7, <1>8 DEF HubWatchesNext

-----------------------------------------------------------------------------
(* Who owns each view of a session: openView, watchGroups, subscribeAlert   *)
(* and releaseSession (hub.mjs), for any number of calls under way.         *)
THEOREM WatchInvariance == HubWatchesSpec => []WatchInv
BY WatchStarts, WatchStep, PTL DEF HubWatchesSpec

(* Every engine view of a session is still to be disposed, and none is left *)
(* when it is gone (hub.mjs disposeSessionViews and the walks after it),    *)
(* except those of keys two calls wanted at once or one was still at when   *)
(* the session disconnected.                                                *)
THEOREM NoViewIsForgotten == HubWatchesSpec => []WatchesAreAccounted
<1>1. WatchInv => WatchesAreAccounted
    <2> SUFFICES ASSUME WatchInv, NEW v \in Watches, Kept(v)
                 PROVE  v \in Registered \cup InCalls
        BY DEF WatchesAreAccounted, Kept
    <2>1. Owned(v) /\ Ahead(v)
        BY DEF WatchInv, Accounted
    <2>2. closing.stage # "closed"
        BY <2>1 DEF Ahead
    <2>3. CASE v \in managed
        BY <2>2, <2>3 DEF Registered
    <2>4. CASE \E k \in WatchKeys : slot[k].view = v
        BY <2>2, <2>4 DEF Registered
    <2>5. CASE \E i \in CallIds : call[i].view = v
        BY <2>5 DEF InCalls
    <2> QED BY <2>1, <2>3, <2>4, <2>5 DEF Owned
<1> QED BY <1>1, WatchInvariance, PTL

------------------------------------------------------------------------------
(* The watchers. Between the row and what has been reported of it are the   *)
(* crossings counted, the samples read and not fed, and the sample that is  *)
(* due. An alert's reports and the rises still among its samples are        *)
(* covered by the crossings.                                                *)

\* The samples that rise over the line, when the one before them was m.
Before(m, s, i) == IF i = 1 THEN m ELSE OverLine(s[i - 1])
RisesAt(m, s) == {i \in 1 .. Len(s) : OverLine(s[i]) /\ ~Before(m, s, i)}
Rises(m, s) == Cardinality(RisesAt(m, s))
\* Whether the last sample is over the line.
Last(m, s) == IF s = <<>> THEN m ELSE OverLine(s[Len(s)])
Samples == Seq(0 .. Top)
\* One when it holds.
One(p) == IF p THEN 1 ELSE 0

\* The rises can be counted.
LEMMA RisesAreFinite ==
    ASSUME NEW m, NEW s \in Samples
    PROVE  IsFiniteSet(RisesAt(m, s)) /\ Rises(m, s) \in Nat
<1>1. Len(s) \in Nat /\ RisesAt(m, s) \in SUBSET (1 .. Len(s)) BY LenProperties DEF Samples, RisesAt
<1>2. IsFiniteSet(1 .. Len(s)) BY <1>1, FS_Interval
<1>3. IsFiniteSet(RisesAt(m, s)) BY <1>1, <1>2, FS_Subset
<1>. QED BY <1>3, FS_CardinalityType DEF Rises

\* A sample that is read rises when it is over the line and the last was not.
LEMMA RisesOfAppend ==
    ASSUME NEW m \in BOOLEAN, NEW s \in Samples, NEW x \in 0 .. Top
    PROVE  /\ Append(s, x) \in Samples
           /\ Rises(m, Append(s, x)) <= Rises(m, s) + One(OverLine(x) /\ ~Last(m, s))
           /\ Last(m, Append(s, x)) = OverLine(x)
           /\ Append(s, x) # <<>>
<1>. DEFINE t == Append(s, x)
            n == Len(s)
<1>1. /\ n \in Nat /\ t \in Samples /\ Len(t) = n + 1 /\ t[n + 1] = x
      /\ \A i \in 1 .. n : t[i] = s[i]
    BY DEF Samples
<1>2. t # <<>> BY <1>1
<1>. HIDE DEF t, n
<1>3. \A i \in 1 .. n : Before(m, t, i) = Before(m, s, i) BY <1>1 DEF Before
<1>4. RisesAt(m, t) \subseteq RisesAt(m, s) \cup {n + 1}
    <2>1. SUFFICES ASSUME NEW i \in RisesAt(m, t), i # n + 1 PROVE i \in RisesAt(m, s)
        OBVIOUS
    <2>2. i \in 1 .. n /\ i \in 1 .. Len(s) BY <1>1, <2>1 DEF RisesAt, n
    <2>. QED BY <1>1, <1>3, <2>1, <2>2 DEF RisesAt
<1>5. n + 1 \in RisesAt(m, t) => OverLine(x) /\ ~Last(m, s)
    <2>1. CASE s = <<>>
        <3>1. n = 0 BY <2>1 DEF n
        <3>. QED BY <1>1, <2>1, <3>1 DEF RisesAt, Before, Last
    <2>2. CASE s # <<>>
        <3>1. n # 0 BY <2>2, EmptySeq DEF n, Samples
        <3>2. Before(m, t, n + 1) = OverLine(s[n]) BY <1>1, <3>1 DEF Before
        <3>. QED BY <1>1, <2>2, <3>2 DEF RisesAt, Last, n
    <2>. QED BY <2>1, <2>2
<1>6. IsFiniteSet(RisesAt(m, s)) /\ Rises(m, s) \in Nat /\ Rises(m, t) \in Nat
    BY <1>1, RisesAreFinite
<1>7. Rises(m, t) <= Rises(m, s) + One(OverLine(x) /\ ~Last(m, s))
    <2>1. CASE OverLine(x) /\ ~Last(m, s)
        <3>1. /\ IsFiniteSet(RisesAt(m, s) \cup {n + 1})
              /\ Cardinality(RisesAt(m, s) \cup {n + 1}) =
                    IF n + 1 \in RisesAt(m, s) THEN Rises(m, s) ELSE Rises(m, s) + 1
            BY <1>6, FS_AddElement DEF Rises
        <3>2. Rises(m, t) <= Cardinality(RisesAt(m, s) \cup {n + 1})
            BY <1>4, <3>1, FS_Subset DEF Rises
        <3>. QED BY <1>6, <2>1, <3>1, <3>2 DEF One
    <2>2. CASE ~(OverLine(x) /\ ~Last(m, s))
        <3>1. RisesAt(m, t) \in SUBSET RisesAt(m, s) BY <1>4, <1>5, <2>2
        <3>2. Rises(m, t) <= Rises(m, s) BY <1>6, <3>1, FS_Subset DEF Rises
        <3>. QED BY <1>6, <2>2, <3>2 DEF One
    <2>. QED BY <2>1, <2>2
<1>8. Last(m, t) = OverLine(x) BY <1>1, <1>2 DEF Last
<1>. QED BY <1>1, <1>2, <1>7, <1>8 DEF t

\* A sample that is fed was one of the rises when it was over the line.
LEMMA RisesOfTail ==
    ASSUME NEW m \in BOOLEAN, NEW s \in Samples, s # <<>>
    PROVE  LET x == OverLine(Head(s)) IN
           /\ Head(s) \in 0 .. Top /\ Tail(s) \in Samples
           /\ Rises(x, Tail(s)) + One(x /\ ~m) <= Rises(m, s)
           /\ Last(x, Tail(s)) = Last(m, s)
<1>. DEFINE t == Tail(s)
            n == Len(s)
            x == OverLine(Head(s))
            f == [i \in RisesAt(x, t) |-> i + 1]
<1>1. /\ n \in Nat \ {0} /\ Head(s) \in 0 .. Top /\ Head(s) = s[1]
      /\ t \in Samples /\ Len(t) = n - 1
      /\ \A i \in 1 .. n - 1 : t[i] = s[i + 1]
    <2>1. n \in Nat \ {0} BY EmptySeq DEF Samples
    <2>2. /\ Head(s) \in 0 .. Top /\ t \in Samples /\ Len(t) = n - 1
          /\ \A i \in 1 .. Len(t) : t[i] = s[i + 1]
        BY HeadTailProperties DEF Samples
    <2>3. Head(s) = s[1] BY DEF Samples
    <2>. HIDE DEF n, t
    <2>. QED BY <2>1, <2>2, <2>3
<1>. HIDE DEF t, n
<1>x. x = OverLine(s[1]) BY <1>1
<1>2. \A i \in 1 .. n - 1 : Before(x, t, i) = Before(m, s, i + 1)
    <2>1. SUFFICES ASSUME NEW i \in 1 .. n - 1 PROVE Before(x, t, i) = Before(m, s, i + 1) OBVIOUS
    <2>2. CASE i = 1 BY <1>1, <1>x, <2>2 DEF Before
    <2>3. CASE i # 1
        <3>1. i - 1 \in 1 .. n - 1 /\ i - 1 + 1 = i /\ i + 1 - 1 = i /\ i + 1 # 1
            BY <1>1, <2>3
        <3>2. t[i - 1] = s[i] BY <1>1, <3>1
        <3>. QED BY <2>3, <3>1, <3>2 DEF Before
    <2>. QED BY <2>2, <2>3
<1>. HIDE DEF x
<1>3. \A i \in RisesAt(x, t) : i + 1 \in RisesAt(m, s) \ {1} /\ i \in Nat
    <2>1. SUFFICES ASSUME NEW i \in RisesAt(x, t) PROVE i + 1 \in RisesAt(m, s) \ {1} /\ i \in Nat
        OBVIOUS
    <2>2. i \in 1 .. n - 1 /\ OverLine(t[i]) /\ ~Before(x, t, i) BY <1>1 DEF RisesAt
    <2>3. i + 1 \in 1 .. n /\ i + 1 # 1 /\ i \in Nat BY <1>1, <2>2
    <2>4. OverLine(s[i + 1]) /\ ~Before(m, s, i + 1) BY <1>1, <1>2, <2>2
    <2>. QED BY <2>3, <2>4 DEF RisesAt, n
<1>4. f \in Injection(RisesAt(x, t), RisesAt(m, s) \ {1})
    <2>1. f \in [RisesAt(x, t) -> RisesAt(m, s) \ {1}] BY <1>3
    <2>2. \A i, j \in RisesAt(x, t) : f[i] = f[j] => i = j BY <1>3
    <2>. QED BY <2>1, <2>2 DEF Injection, IsInjective
<1>5. /\ IsFiniteSet(RisesAt(m, s)) /\ Rises(m, s) \in Nat
      /\ IsFiniteSet(RisesAt(x, t)) /\ Rises(x, t) \in Nat
    BY <1>1, RisesAreFinite
<1>6. /\ IsFiniteSet(RisesAt(m, s) \ {1})
      /\ Cardinality(RisesAt(m, s) \ {1}) = IF 1 \in RisesAt(m, s) THEN Rises(m, s) - 1 ELSE Rises(m, s)
    BY <1>5, FS_RemoveElement DEF Rises
<1>7. Rises(x, t) <= Cardinality(RisesAt(m, s) \ {1})
    BY <1>4, <1>5, <1>6, FS_Injection DEF Rises
<1>8. x /\ ~m => 1 \in RisesAt(m, s)
    <2>1. 1 \in 1 .. Len(s) BY <1>1 DEF n
    <2>2. Before(m, s, 1) = m BY DEF Before
    <2>. QED BY <1>x, <2>1, <2>2 DEF RisesAt
<1>9. Rises(x, t) + One(x /\ ~m) <= Rises(m, s)
    BY <1>5, <1>6, <1>7, <1>8 DEF One
<1>10. Last(x, t) = Last(m, s)
    <2>1. CASE n = 1
        <3>1. t = <<>> BY <1>1, <2>1, EmptySeq DEF Samples
        <3>. QED BY <1>x, <2>1, <3>1 DEF Last, n
    <2>2. CASE n # 1
        <3>1. t # <<>> /\ Len(t) \in 1 .. n - 1 /\ Len(t) + 1 = n
            BY <1>1, <2>2, EmptySeq DEF Samples
        <3>2. t[Len(t)] = s[n] BY <1>1, <3>1
        <3>. QED BY <3>1, <3>2 DEF Last, n
    <2>. QED BY <2>1, <2>2
<1>. QED BY <1>1, <1>9, <1>10 DEF t, x

-----------------------------------------------------------------------------

\* What a watched view has been fed, is to be fed, and has reported.
Feed == [on : BOOLEAN, dirty : BOOLEAN, samples : Samples, fed : BOOLEAN, prev : Int,
         matching : BOOLEAN, fires : Nat, crossings : Nat, shown : Int, quiet : Nat]

\* An alert has been sent, or can be, at most once for each crossing.
AlertFollows(f, x) ==
    /\ f.fires + Rises(f.matching, f.samples) + One(OverLine(x) /\ ~Last(f.matching, f.samples))
         <= f.crossings
    /\ (f.fed \/ f.samples # <<>>) /\ ~f.dirty => Last(f.matching, f.samples) = OverLine(x)

\* What was last reported of a group is as far off as the samples since allow.
GroupFollows(f) ==
    f.fed => /\ f.shown - f.prev <= Epsilon * f.quiet
             /\ f.prev - f.shown <= Epsilon * f.quiet

\* The feed of a view, while its watch is on.
FeedOK(v) ==
    /\ feed[v] \in Feed
    /\ feed[v].dirty => feed[v].on
    /\ feed[v].fed \/ feed[v].samples # <<>> => feed[v].on
    /\ v > created => feed[v] = Unfed /\ openViews[v] = "deleted"
    /\ openViews[v] \in RuleIds => AlertFollows(feed[v], value)
    /\ openViews[v] \in GroupKeys => GroupFollows(feed[v])

FeedInv == /\ value \in 0 .. Top
           /\ feed \in [Watches -> Feed]
           /\ \A v \in Watches : FeedOK(v)

\* A view a call is about to watch has been opened.
CallsAreMade == \A i \in CallIds : call[i].stage = "watching" => call[i].view <= created

\* A view that is not watched has reported nothing.
LEMMA UnfedFollows ==
    /\ Unfed \in Feed /\ ~Unfed.dirty /\ ~Unfed.fed /\ Unfed.samples = <<>>
    /\ ~Unfed.matching /\ Unfed.fires = 0 /\ Unfed.crossings = 0
BY EmptySeq DEF Unfed, Feed, Samples

\* A sample is over the line or is not.
LEMMA LineDivides ==
    /\ \A x : OverLine(x) \in BOOLEAN
    /\ \A m \in BOOLEAN : \A s : Last(m, s) \in BOOLEAN
    /\ \A p : One(p) \in {0, 1}
<1>1. \A x : OverLine(x) \in BOOLEAN BY DEF OverLine
<1>2. ASSUME NEW m \in BOOLEAN, NEW s PROVE Last(m, s) \in BOOLEAN
    <2>1. OverLine(s[Len(s)]) \in BOOLEAN BY <1>1
    <2>. QED BY <2>1 DEF Last
<1>3. \A p : One(p) \in {0, 1} BY DEF One
<1>. QED BY <1>1, <1>2, <1>3

\* Without samples there is no rise.
LEMMA NoRises ==
    ASSUME NEW m \in BOOLEAN
    PROVE  Rises(m, <<>>) = 0 /\ Last(m, <<>>) = m
<1>1. RisesAt(m, <<>>) = {} BY DEF RisesAt
<1>. QED BY <1>1, FS_EmptySet DEF Rises, Last

\* It starts so.
LEMMA FeedStarts == HubWatchesInit => FeedInv
<1>. SUFFICES ASSUME HubWatchesInit PROVE FeedInv OBVIOUS
<1>1. value \in 0 .. Top /\ feed \in [Watches -> Feed] /\ \A v \in Watches : feed[v] = Unfed
    BY UnfedFollows, WatchAssumption DEF HubWatchesInit
<1>2. \A v \in Watches : openViews[v] = "deleted" BY DEF HubWatchesInit
<1>3. "deleted" \notin RuleIds \cup GroupKeys BY NamesDiffer DEF WatchKeys
<1>. QED BY <1>1, <1>2, <1>3, UnfedFollows DEF FeedInv, FeedOK

\* A step that leaves a view's feed and key, and the row, leaves it in order.
LEMMA FeedStays ==
    ASSUME FeedInv, NEW v \in Watches, feed'[v] = feed[v], openViews'[v] = openViews[v],
           value' = value, created' \in Int, created \in Int, created' >= created
    PROVE  FeedOK(v)'
<1>1. v \in Int BY DEF Watches
<1>2. v > created' => v > created BY <1>1
<1>. QED BY <1>2 DEF FeedInv, FeedOK

\* So does the deletion of a view.
LEMMA DeletedFeeds ==
    ASSUME FeedInv, WatchTypes, NEW w \in Watches \cup {NoWatch}, Deleted(w),
           UNCHANGED <<value, created>>
    PROVE  FeedInv'
<1>1. created \in Int BY WatchAssumption DEF WatchTypes
<1>2. CASE w = NoWatch
    <2>1. feed' = feed /\ openViews' = openViews BY <1>2 DEF Deleted
    <2>2. \A v \in Watches : FeedOK(v)' BY <1>1, <2>1, FeedStays DEF FeedInv
    <2>. QED BY <2>1, <2>2 DEF FeedInv
<1>3. CASE w # NoWatch
    <2>1. /\ w \in Watches /\ feed' = [feed EXCEPT ![w] = Unfed]
          /\ openViews' = [openViews EXCEPT ![w] = "deleted"]
        BY <1>3 DEF Deleted
    <2>2. feed' \in [Watches -> Feed] BY <2>1, UnfedFollows DEF FeedInv
    <2>3. \A v \in Watches \ {w} : feed'[v] = feed[v] /\ openViews'[v] = openViews[v]
        BY <2>1 DEF FeedInv, WatchTypes
    <2>4. feed'[w] = Unfed /\ openViews'[w] = "deleted"
        BY <2>1 DEF FeedInv, WatchTypes
    <2>5. FeedOK(w)'
        BY <2>4, UnfedFollows, NamesDiffer DEF FeedOK, WatchKeys
    <2>6. \A v \in Watches \ {w} : FeedOK(v)' BY <1>1, <2>3, FeedStays DEF FeedInv
    <2>. QED BY <2>2, <2>5, <2>6 DEF FeedInv
<1>. QED BY <1>2, <1>3

\* The row moves: who watches it has an update to read.
LEMMA RowMovesFeeds ==
    ASSUME FeedInv, WatchTypes, RowMoves
    PROVE  FeedInv'
<1>1. PICK x \in 0 .. Top :
         /\ value' = x /\ x # value
         /\ feed' = [v \in Watches |->
              IF openViews[v] \in {Managed, "deleted"} THEN feed[v]
              ELSE [feed[v] EXCEPT !.dirty = @ \/ feed[v].on,
                                   !.crossings = @ + (IF OverLine(x) /\ ~OverLine(value) THEN 1 ELSE 0)]]
    BY DEF RowMoves
<1>2. UNCHANGED <<created, openViews>> BY DEF RowMoves
<1>3. ASSUME NEW v \in Watches
      PROVE  feed'[v] \in Feed /\ FeedOK(v)'
    <2>1. FeedOK(v) /\ feed[v] \in Feed BY DEF FeedInv, FeedOK
    <2>2. CASE openViews[v] \in {Managed, "deleted"}
        <3>1. feed'[v] = feed[v] BY <1>1, <2>2
        <3>2. openViews[v] \notin RuleIds \cup GroupKeys BY <2>2, NamesDiffer DEF WatchKeys
        <3>. QED BY <1>2, <2>1, <3>1, <3>2 DEF FeedOK
    <2>3. CASE openViews[v] \notin {Managed, "deleted"}
        <3>. DEFINE up == One(OverLine(x) /\ ~OverLine(value))
        <3>1. PICK f \in Feed : f = feed[v] BY <2>1
        <3>2. PICK g : g = feed'[v] OBVIOUS
        <3>3. g = [f EXCEPT !.dirty = @ \/ f.on, !.crossings = @ + up]
            BY <1>1, <2>3, <3>1, <3>2 DEF One
        <3>4. up \in {0, 1} BY DEF One
        <3>x. PICK d \in BOOLEAN : d = (f.dirty \/ f.on) OBVIOUS
        <3>y. /\ f.crossings \in Nat
              /\ f = [on |-> f.on, dirty |-> f.dirty, samples |-> f.samples, fed |-> f.fed,
                      prev |-> f.prev, matching |-> f.matching, fires |-> f.fires,
                      crossings |-> f.crossings, shown |-> f.shown, quiet |-> f.quiet]
            BY DEF Feed
        <3>z. g = [on |-> f.on, dirty |-> d, samples |-> f.samples, fed |-> f.fed, prev |-> f.prev,
                   matching |-> f.matching, fires |-> f.fires, crossings |-> f.crossings + up,
                   shown |-> f.shown, quiet |-> f.quiet]
            BY <3>3, <3>x, <3>y
        <3>. HIDE DEF up
        <3>5. /\ g \in Feed /\ g.dirty = (f.dirty \/ f.on) /\ g.crossings = f.crossings + up
              /\ g.on = f.on /\ g.samples = f.samples /\ g.fed = f.fed /\ g.prev = f.prev
              /\ g.matching = f.matching /\ g.fires = f.fires /\ g.shown = f.shown
              /\ g.quiet = f.quiet
            BY <3>4, <3>x, <3>y, <3>z DEF Feed
        <3>6. created \in Int /\ v \in Int /\ ~(v > created)
            <4>1. openViews[v] # "deleted" BY <2>3
            <4>. QED BY <2>1, <4>1, WatchAssumption DEF WatchTypes, Watches, FeedOK
        <3>7. openViews[v] \in RuleIds => AlertFollows(g, x)
            <4>1. SUFFICES ASSUME openViews[v] \in RuleIds PROVE AlertFollows(g, x) OBVIOUS
            <4>2. AlertFollows(f, value) BY <2>1, <3>1, <4>1 DEF FeedOK
            <4>3. PICK r \in Nat : r = Rises(f.matching, f.samples)
                BY <3>1, RisesAreFinite DEF Feed
            <4>4. PICK last \in BOOLEAN : last = Last(f.matching, f.samples)
                BY <3>1, LineDivides DEF Feed
            <4>5. f.fires + r + One(OverLine(x) /\ ~last) <= f.crossings + up
                <5>1. f.fires + r + One(OverLine(value) /\ ~last) <= f.crossings
                    BY <4>2, <4>3, <4>4 DEF AlertFollows
                <5>2. f.fires \in Nat /\ f.crossings \in Nat BY <3>1 DEF Feed
                <5>. QED BY <4>3, <5>1, <5>2 DEF One, up
            <4>6. (f.fed \/ f.samples # <<>>) => g.dirty
                BY <2>1, <3>1, <3>5 DEF FeedOK
            <4>. QED BY <3>5, <4>3, <4>4, <4>5, <4>6 DEF AlertFollows
        <3>8. openViews[v] \in GroupKeys => GroupFollows(g)
            BY <2>1, <3>1, <3>5 DEF FeedOK, GroupFollows
        <3>. QED BY <1>1, <1>2, <2>1, <3>1, <3>2, <3>5, <3>6, <3>7, <3>8 DEF FeedOK
    <2>. QED BY <2>2, <2>3
<1>4. feed' \in [Watches -> Feed]
    <2>1. DOMAIN feed' = Watches /\ feed' = [v \in DOMAIN feed' |-> feed'[v]] BY <1>1
    <2>. QED BY <1>3, <2>1
<1>. QED BY <1>1, <1>3, <1>4 DEF FeedInv

\* One view's feed changes, and is in order.
LEMMA OneFeed ==
    ASSUME FeedInv, NEW v \in Watches, NEW g \in Feed, feed' = [feed EXCEPT ![v] = g],
           UNCHANGED <<value, created, openViews>>, created \in Int,
           v > created => FALSE,
           g.dirty => g.on,
           g.fed \/ g.samples # <<>> => g.on,
           openViews[v] \in RuleIds => AlertFollows(g, value),
           openViews[v] \in GroupKeys => GroupFollows(g)
    PROVE  FeedInv'
<1>1. feed' \in [Watches -> Feed] /\ feed'[v] = g /\ \A w \in Watches \ {v} : feed'[w] = feed[w]
    BY DEF FeedInv
<1>2. FeedOK(v)' BY <1>1 DEF FeedOK
<1>3. ASSUME NEW w \in Watches \ {v} PROVE FeedOK(w)'
    <2>1. feed'[w] = feed[w] /\ openViews'[w] = openViews[w] /\ created' >= created BY <1>1
    <2>. QED BY <2>1, FeedStays
<1>. QED BY <1>1, <1>2, <1>3 DEF FeedInv

\* A sample is read: it waits for the watcher.
LEMMA SampleReadFeeds ==
    ASSUME FeedInv, WatchTypes, NEW v \in Watches, SampleRead(v)
    PROVE  FeedInv'
<1>1. PICK f \in Feed : f = feed[v] BY DEF FeedInv
<1>2. FeedOK(v) /\ value \in 0 .. Top /\ created \in Int
    BY WatchAssumption DEF FeedInv, WatchTypes
<1>3. f.dirty /\ f.on /\ UNCHANGED <<value, created, openViews>> BY <1>1 DEF SampleRead
<1>4. PICK g : g = feed'[v] OBVIOUS
<1>5. feed' = [feed EXCEPT ![v] = g] BY <1>4 DEF SampleRead, FeedInv
<1>6. f.samples \in Samples /\ f.matching \in BOOLEAN /\ f.fires \in Nat /\ f.crossings \in Nat
    BY DEF Feed
<1>7. PICK s : s = Append(f.samples, value) OBVIOUS
<1>8. PICK last \in BOOLEAN : last = Last(f.matching, f.samples)
    BY <1>6, LineDivides
<1>9. /\ s \in Samples /\ s # <<>> /\ Last(f.matching, s) = OverLine(value)
      /\ Rises(f.matching, s) <= Rises(f.matching, f.samples) + One(OverLine(value) /\ ~last)
    BY <1>2, <1>6, <1>7, <1>8, RisesOfAppend
<1>14. g = [f EXCEPT !.dirty = FALSE, !.samples = s]
    <2>0. feed \in [Watches -> Feed] BY DEF FeedInv
    <2>1. feed'[v] = [feed[v] EXCEPT !.dirty = FALSE, !.samples = Append(@, value)]
        BY <2>0 DEF SampleRead
    <2>2. feed'[v] = [f EXCEPT !.dirty = FALSE, !.samples = Append(f.samples, value)]
        BY <1>1, <2>1
    <2>. QED BY <1>4, <1>7, <2>2
<1>15. /\ g.on = f.on /\ g.dirty = FALSE /\ g.samples = s /\ g.fed = f.fed /\ g.prev = f.prev
      /\ g.matching = f.matching /\ g.fires = f.fires /\ g.crossings = f.crossings
      /\ g.shown = f.shown /\ g.quiet = f.quiet
    BY <1>14 DEF Feed
<1>10. g \in Feed /\ g.on BY <1>3, <1>9, <1>14, <1>15 DEF Feed
<1>11. openViews[v] \in RuleIds => AlertFollows(g, value)
    <2>1. SUFFICES ASSUME openViews[v] \in RuleIds PROVE AlertFollows(g, value) OBVIOUS
    <2>2. AlertFollows(f, value) BY <1>1, <1>2, <2>1 DEF FeedOK
    <2>3. Rises(f.matching, f.samples) \in Nat /\ Rises(f.matching, s) \in Nat
        BY <1>6, <1>9, RisesAreFinite
    <2>4. One(OverLine(value) /\ ~last) \in Nat /\ One(OverLine(value) /\ ~OverLine(value)) = 0
        BY LineDivides DEF One
    <2>5. f.fires + Rises(f.matching, s) + One(OverLine(value) /\ ~OverLine(value)) <= f.crossings
        BY <1>6, <1>8, <1>9, <2>2, <2>3, <2>4 DEF AlertFollows
    <2>. QED BY <1>9, <1>15, <2>5 DEF AlertFollows
<1>12. openViews[v] \in GroupKeys => GroupFollows(g)
    BY <1>1, <1>2, <1>15 DEF FeedOK, GroupFollows
<1>13. v > created => FALSE
    BY <1>1, <1>2, <1>3, UnfedFollows DEF FeedOK
<1>. QED BY <1>2, <1>3, <1>5, <1>10, <1>11, <1>12, <1>13, <1>15, OneFeed

\* A sample is fed to an alert.
LEMMA AlertFeedsFeeds ==
    ASSUME FeedInv, WatchTypes, NEW v \in Watches, AlertFeeds(v)
    PROVE  FeedInv'
<1>1. PICK f \in Feed : f = feed[v] BY DEF FeedInv
<1>2. FeedOK(v) /\ value \in 0 .. Top /\ created \in Int
    BY WatchAssumption DEF FeedInv, WatchTypes
<1>3. f.samples # <<>> /\ openViews[v] \in RuleIds /\ UNCHANGED <<value, created, openViews>>
    BY <1>1 DEF AlertFeeds
<1>4. PICK now \in BOOLEAN : now = OverLine(Head(f.samples)) BY LineDivides
<1>5. PICK g : g = feed'[v] OBVIOUS
<1>6. feed' = [feed EXCEPT ![v] = g] BY <1>5 DEF AlertFeeds, FeedInv
<1>7. f.samples \in Samples /\ f.matching \in BOOLEAN /\ f.fires \in Nat /\ f.crossings \in Nat
    BY DEF Feed
<1>8. PICK s : s = Tail(f.samples) OBVIOUS
<1>9. /\ s \in Samples /\ Last(now, s) = Last(f.matching, f.samples)
      /\ Rises(now, s) + One(now /\ ~f.matching) <= Rises(f.matching, f.samples)
    BY <1>3, <1>4, <1>7, <1>8, RisesOfTail
<1>10. One(now /\ ~f.matching) \in Nat BY LineDivides
<1>16. PICK n : n = f.fires + One(now /\ ~f.matching) OBVIOUS
<1>17. g = [f EXCEPT !.samples = s, !.fed = TRUE, !.matching = now, !.fires = n]
    <2>0. feed \in [Watches -> Feed] BY DEF FeedInv
    <2>1. feed'[v] = [feed[v] EXCEPT !.samples = Tail(@), !.fed = TRUE, !.matching = now,
                                     !.fires = @ + (IF now /\ ~feed[v].matching THEN 1 ELSE 0)]
        BY <1>1, <1>4, <2>0 DEF AlertFeeds
    <2>2. feed'[v] = [f EXCEPT !.samples = Tail(f.samples), !.fed = TRUE, !.matching = now,
                               !.fires = f.fires + One(now /\ ~f.matching)]
        BY <1>1, <2>1 DEF One
    <2>. QED BY <1>5, <1>8, <1>16, <2>2
<1>18. /\ g.on = f.on /\ g.dirty = f.dirty /\ g.samples = s /\ g.fed = TRUE /\ g.prev = f.prev
       /\ g.matching = now /\ g.fires = n /\ g.crossings = f.crossings
       /\ g.shown = f.shown /\ g.quiet = f.quiet
    BY <1>17 DEF Feed
<1>11. /\ g \in Feed /\ g.dirty = f.dirty /\ g.samples = s /\ g.on = f.on /\ g.matching = now
       /\ g.fires = f.fires + One(now /\ ~f.matching) /\ g.crossings = f.crossings
    <2>1. n \in Nat BY <1>7, <1>10, <1>16
    <2>. QED BY <1>9, <1>16, <1>17, <1>18, <2>1 DEF Feed
<1>12. AlertFollows(g, value)
    <2>1. AlertFollows(f, value) BY <1>1, <1>2, <1>3 DEF FeedOK
    <2>2. Rises(f.matching, f.samples) \in Nat /\ Rises(now, s) \in Nat
        BY <1>7, <1>9, RisesAreFinite
    <2>3. PICK o \in Nat : o = One(OverLine(value) /\ ~Last(now, s)) BY LineDivides
    <2>4. f.fires + Rises(f.matching, f.samples) + o <= f.crossings
        BY <1>9, <2>1, <2>3 DEF AlertFollows
    <2>5. f.fires + One(now /\ ~f.matching) + Rises(now, s) + o <= f.crossings
        BY <1>7, <1>9, <1>10, <2>2, <2>3, <2>4
    <2>6. ~f.dirty => Last(now, s) = OverLine(value)
        BY <1>3, <1>9, <2>1 DEF AlertFollows
    <2>. QED BY <1>11, <2>3, <2>5, <2>6 DEF AlertFollows
<1>13. f.on BY <1>1, <1>2, <1>3 DEF FeedOK
<1>14. openViews[v] \notin GroupKeys BY <1>3, NamesDiffer
<1>15. v > created => FALSE
    BY <1>1, <1>2, <1>3, UnfedFollows DEF FeedOK
<1>. QED BY <1>2, <1>3, <1>6, <1>11, <1>12, <1>13, <1>14, <1>15, OneFeed

\* A sample is fed to a group watch: reported, or within the tolerance.
LEMMA GroupFeedsFeeds ==
    ASSUME FeedInv, WatchTypes, NEW v \in Watches, GroupFeeds(v)
    PROVE  FeedInv'
<1>1. PICK f \in Feed : f = feed[v] BY DEF FeedInv
<1>2. FeedOK(v) /\ value \in 0 .. Top /\ created \in Int
    BY WatchAssumption DEF FeedInv, WatchTypes
<1>3. f.samples # <<>> /\ openViews[v] \in GroupKeys /\ UNCHANGED <<value, created, openViews>>
    BY <1>1 DEF GroupFeeds
<1>4. f.samples \in Samples /\ f.shown \in Int /\ f.prev \in Int /\ f.quiet \in Nat
    BY DEF Feed
<1>5. PICK now \in 0 .. Top : now = Head(f.samples)
    BY <1>3, <1>4, HeadTailProperties DEF Samples
<1>6. PICK reported \in BOOLEAN : reported = (~f.fed \/ Far(now, f.prev)) BY DEF Far, Feed
<1>7. PICK g : g = feed'[v] OBVIOUS
<1>8. feed' = [feed EXCEPT ![v] = g] BY <1>7 DEF GroupFeeds, FeedInv
<1>9. Tail(f.samples) \in Samples
    BY <1>3, <1>4, HeadTailProperties DEF Samples
<1>15. PICK s, u, q : /\ s = Tail(f.samples) /\ u = (IF reported THEN now ELSE f.shown)
                       /\ q = (IF reported THEN 0 ELSE f.quiet + 1)
    OBVIOUS
<1>16. g = [f EXCEPT !.samples = s, !.fed = TRUE, !.prev = now, !.shown = u, !.quiet = q]
    <2>0. reported = (~feed[v].fed \/ Far(Head(feed[v].samples), feed[v].prev))
        BY <1>1, <1>5, <1>6
    <2>3. feed \in [Watches -> Feed] BY DEF FeedInv
    <2>1. feed'[v] = [feed[v] EXCEPT !.samples = Tail(@), !.fed = TRUE,
                                     !.prev = Head(feed[v].samples),
                                     !.shown = IF reported THEN Head(feed[v].samples) ELSE @,
                                     !.quiet = IF reported THEN 0 ELSE @ + 1]
        BY <2>0, <2>3 DEF GroupFeeds
    <2>2. feed'[v] = [f EXCEPT !.samples = Tail(f.samples), !.fed = TRUE, !.prev = now,
                               !.shown = IF reported THEN now ELSE f.shown,
                               !.quiet = IF reported THEN 0 ELSE f.quiet + 1]
        BY <1>1, <1>5, <2>1
    <2>. QED BY <1>7, <1>15, <2>2
<1>17. /\ g.on = f.on /\ g.dirty = f.dirty /\ g.samples = s /\ g.fed = TRUE /\ g.prev = now
       /\ g.matching = f.matching /\ g.fires = f.fires /\ g.crossings = f.crossings
       /\ g.shown = u /\ g.quiet = q
    BY <1>16 DEF Feed
<1>10. /\ g \in Feed /\ g.dirty = f.dirty /\ g.on = f.on /\ g.prev = now /\ g.fed = TRUE
       /\ g.shown = (IF reported THEN now ELSE f.shown)
       /\ g.quiet = (IF reported THEN 0 ELSE f.quiet + 1)
    <2>1. s \in Samples /\ u \in Int /\ q \in Nat /\ now \in Int
        BY <1>4, <1>5, <1>9, <1>15
    <2>3. PICK a, b, d, e, h, k, l, x, y, z :
            f = [on |-> a, dirty |-> b, samples |-> d, fed |-> e, prev |-> h, matching |-> k,
                 fires |-> l, crossings |-> x, shown |-> y, quiet |-> z]
        BY DEF Feed
    <2>4. a \in BOOLEAN /\ b \in BOOLEAN /\ k \in BOOLEAN /\ l \in Nat /\ x \in Nat
        BY <2>3 DEF Feed
    <2>5. g = [on |-> a, dirty |-> b, samples |-> s, fed |-> TRUE, prev |-> now, matching |-> k,
               fires |-> l, crossings |-> x, shown |-> u, quiet |-> q]
        BY <1>16, <2>3
    <2>2. g \in Feed BY <2>1, <2>4, <2>5 DEF Feed
    <2>. QED BY <1>15, <1>17, <2>2
<1>11. GroupFollows(g)
    <2>1. Epsilon \in Nat BY WatchAssumption
    <2>2. CASE reported
        BY <1>5, <1>10, <2>1, <2>2 DEF GroupFollows
    <2>3. CASE ~reported
        <3>1. f.fed /\ ~(now - f.prev > Epsilon) /\ ~(f.prev - now > Epsilon)
            BY <1>6, <2>3 DEF Far
        <3>2. f.shown - f.prev <= Epsilon * f.quiet /\ f.prev - f.shown <= Epsilon * f.quiet
            BY <1>1, <1>2, <1>3, <3>1 DEF FeedOK, GroupFollows
        <3>3. PICK b \in Nat : b = Epsilon * f.quiet BY <1>4, <2>1
        <3>4. Epsilon * (f.quiet + 1) = b + Epsilon BY <1>4, <2>1, <3>3
        <3>5. f.shown - now <= b + Epsilon /\ now - f.shown <= b + Epsilon
            BY <1>4, <1>5, <2>1, <3>1, <3>2, <3>3
        <3>. QED BY <1>10, <2>3, <3>4, <3>5 DEF GroupFollows
    <2>. QED BY <2>2, <2>3
<1>12. f.on /\ (f.dirty => f.on) BY <1>1, <1>2, <1>3 DEF FeedOK
<1>13. openViews[v] \notin RuleIds BY <1>3, NamesDiffer
<1>14. v > created => FALSE
    BY <1>1, <1>2, <1>3, UnfedFollows DEF FeedOK
<1>. QED BY <1>2, <1>3, <1>8, <1>10, <1>11, <1>12, <1>13, <1>14, OneFeed

\* A watch is set on a view that has been opened.
LEMMA WatchSetFeeds ==
    ASSUME FeedInv, WatchInv, CallsAreMade, NEW i \in CallIds, WatchSet(i)
    PROVE  FeedInv'
<1>0. WatchTypes /\ created \in Int BY WatchAssumption DEF WatchInv, WatchTypes
<1>1. PICK v : v = call[i].view OBVIOUS
<1>2. UNCHANGED <<value, created, openViews>> /\ feed' = [feed EXCEPT ![v].on = TRUE]
    BY <1>1 DEF WatchSet
<1>3. CASE v \notin Watches
    <2>1. feed' = feed BY <1>2, <1>3 DEF FeedInv
    <2>2. ASSUME NEW w \in Watches PROVE FeedOK(w)'
        <3>0. created' = created /\ openViews' = openViews BY <1>2
        <3>1. feed'[w] = feed[w] /\ openViews'[w] = openViews[w] /\ created' >= created /\ created' \in Int
            BY <1>0, <2>1, <3>0
        <3>. QED BY <1>0, <1>2, <3>1, FeedStays
    <2>. QED BY <1>2, <2>1, <2>2 DEF FeedInv
<1>4. CASE v \in Watches
    <2>1. PICK f \in Feed : f = feed[v] BY <1>4 DEF FeedInv
    <2>2. PICK g : g = [f EXCEPT !.on = TRUE] OBVIOUS
    <2>3. feed' = [feed EXCEPT ![v] = g] BY <1>2, <2>1, <2>2 DEF FeedInv
    <2>4. /\ g \in Feed /\ g.on /\ g.dirty = f.dirty /\ g.samples = f.samples /\ g.fed = f.fed
          /\ g.prev = f.prev /\ g.matching = f.matching /\ g.fires = f.fires
          /\ g.crossings = f.crossings /\ g.shown = f.shown /\ g.quiet = f.quiet
        BY <2>2 DEF Feed
    <2>5. FeedOK(v) BY <1>4 DEF FeedInv
    <2>6. openViews[v] \in RuleIds => AlertFollows(g, value)
        BY <2>1, <2>4, <2>5 DEF FeedOK, AlertFollows
    <2>7. openViews[v] \in GroupKeys => GroupFollows(g)
        BY <2>1, <2>4, <2>5 DEF FeedOK, GroupFollows
    <2>8. ~(v > created) BY <1>0, <1>1, <1>4 DEF WatchSet, CallsAreMade, Watches
    <2>. QED BY <1>0, <1>2, <1>4, <2>3, <2>4, <2>6, <2>7, <2>8, OneFeed
<1>. QED BY <1>3, <1>4

\* A view is opened: the row it shows may be over the line already.
LEMMA ViewMadeFeeds ==
    ASSUME FeedInv, WatchInv, NEW i \in CallIds, ViewMade(i)
    PROVE  FeedInv'
<1>1. PICK v : v = created + 1 OBVIOUS
<1>2. /\ created \in Nat /\ v \in Watches /\ v > created /\ created' = v
      /\ UNCHANGED value
      /\ openViews' = [openViews EXCEPT ![v] = call[i].key]
      /\ feed' = [feed EXCEPT ![v].crossings = One(OverLine(value))]
    BY <1>1, WatchAssumption DEF ViewMade, WatchInv, WatchTypes, Watches, One
<1>3. feed[v] = Unfed /\ openViews[v] = "deleted" BY <1>2 DEF FeedInv, FeedOK
<1>4. PICK g : g = [Unfed EXCEPT !.crossings = One(OverLine(value))] OBVIOUS
<1>5. feed' = [feed EXCEPT ![v] = g] BY <1>2, <1>3, <1>4 DEF FeedInv
<1>6. One(OverLine(value)) \in Nat BY DEF One
<1>7. /\ g \in Feed /\ ~g.dirty /\ ~g.fed /\ g.samples = <<>> /\ ~g.matching /\ g.fires = 0
      /\ g.crossings = One(OverLine(value))
    BY <1>4, <1>6, UnfedFollows DEF Feed
<1>8. /\ feed' \in [Watches -> Feed] /\ feed'[v] = g
      /\ \A w \in Watches \ {v} : feed'[w] = feed[w] /\ openViews'[w] = openViews[w]
    BY <1>2, <1>5, <1>7 DEF FeedInv, WatchInv, WatchTypes
<1>9. AlertFollows(g, value)
    <2>0. g.matching = FALSE BY <1>7 DEF Feed
    <2>1. Rises(g.matching, g.samples) = 0 /\ Last(g.matching, g.samples) = FALSE
        BY <1>7, <2>0, NoRises
    <2>2. One(OverLine(value) /\ ~FALSE) = One(OverLine(value)) BY DEF One
    <2>. QED BY <1>6, <1>7, <2>1, <2>2 DEF AlertFollows
<1>10. FeedOK(v)'
    <2>0. v \in Int BY <1>1, <1>2
    <2>1. feed'[v] = g /\ value' = value /\ ~(v > created') BY <1>2, <1>8, <2>0
    <2>2. GroupFollows(g) BY <1>7 DEF GroupFollows
    <2>3. AlertFollows(feed'[v], value') BY <1>9, <2>1
    <2>. QED BY <1>7, <2>1, <2>2, <2>3 DEF FeedOK
<1>11. ASSUME NEW w \in Watches \ {v} PROVE FeedOK(w)'
    <2>1. feed'[w] = feed[w] /\ openViews'[w] = openViews[w] BY <1>8
    <2>2. created' \in Int /\ created \in Int /\ created' >= created BY <1>1, <1>2
    <2>. QED BY <1>2, <2>1, <2>2, FeedStays
<1>. QED BY <1>2, <1>8, <1>10, <1>11 DEF FeedInv

\* A call that is about to watch a view has seen it opened.
LEMMA CallsAreMadeStep ==
    ASSUME WatchInv, CallsAreMade, [HubWatchesNext]_watchVars
    PROVE  CallsAreMade'
<1>0. /\ created \in Nat
      /\ call \in [CallIds -> [op : {"none", "open", "groups", "alert"},
                               key : WatchKeys \cup {Managed}, sig : Sigs \cup {"none"},
                               stage : Stages, view : Watches \cup {NoWatch}]]
    BY WatchAssumption DEF WatchInv, WatchTypes
<1>1. \A i \in CallIds : call[i].view \in Nat BY <1>0 DEF Watches, NoWatch
<1>2. ASSUME NEW i \in CallIds, ViewMade(i) PROVE CallsAreMade'
    <2>1. created' = created + 1 BY <1>2 DEF ViewMade
    <2>2. \A j \in CallIds \ {i} : call'[j] = call[j]
        BY <1>0, <1>2 DEF ViewMade
    <2>3. call'[i].stage = "watching" => call'[i].view = created + 1
        BY <1>0, <1>2 DEF ViewMade, NoCall
    <2>. QED BY <1>0, <1>1, <2>1, <2>2, <2>3 DEF CallsAreMade
<1>3. ASSUME NEW i \in CallIds, call' = [call EXCEPT ![i] = call'[i]],
             call'[i].stage # "watching", created' = created
      PROVE  CallsAreMade'
    BY <1>0, <1>3 DEF CallsAreMade
<1>4. ASSUME NEW i \in CallIds, NEW op, NEW k, NEW sig, NEW view,
             NEW stage \in {"creating", "stopping", "removing"}, Begin(i, op, k, sig, stage, view)
      PROVE  CallsAreMade'
    <2>1. /\ call' = [call EXCEPT ![i] = [op |-> op, key |-> k, sig |-> sig,
                                         stage |-> stage, view |-> view]]
          /\ created' = created
        BY <1>4 DEF Begin
    <2>. QED BY <1>0, <1>3, <2>1
<1>5. ASSUME NEW i \in CallIds, OpenManagedView(i) PROVE CallsAreMade'
    BY <1>4, <1>5 DEF OpenManagedView
<1>6. ASSUME NEW i \in CallIds, NEW k \in GroupKeys, NEW sig \in Sigs, WatchGroups(i, k, sig)
      PROVE  CallsAreMade'
    BY <1>4, <1>6 DEF WatchGroups
<1>7. ASSUME NEW i \in CallIds, NEW k \in RuleIds, SubscribeAlert(i, k) \/ UnsubscribeAlert(i, k)
      PROVE  CallsAreMade'
    BY <1>4, <1>7 DEF SubscribeAlert, UnsubscribeAlert
<1>8. ASSUME NEW i \in CallIds, Removed(i) \/ ViewRefused(i) \/ WatchSet(i) PROVE CallsAreMade'
    <2>1. call' = [call EXCEPT ![i] = NoCall] /\ created' = created
        BY <1>8 DEF Removed, ViewRefused, WatchSet
    <2>. QED BY <1>0, <1>3, <2>1 DEF NoCall
<1>9. ASSUME NEW i \in CallIds, OldStopped(i) PROVE CallsAreMade'
    <2>1. /\ call' = [call EXCEPT ![i].stage = "creating", ![i].view = NoWatch]
          /\ created' = created
        BY <1>9 DEF OldStopped
    <2>2. \A j \in CallIds \ {i} : call'[j] = call[j] BY <1>0, <2>1
    <2>3. call'[i].stage = "creating" BY <1>0, <2>1
    <2>. QED BY <2>1, <2>2, <2>3 DEF CallsAreMade
<1>10. CASE UNCHANGED <<created, call>> BY <1>10 DEF CallsAreMade
<1>11. ASSUME NEW v \in Watches,
              SampleRead(v) \/ AlertFeeds(v) \/ GroupFeeds(v) \/ DisposeManagedView(v) \/ WalkDisposes(v)
       PROVE  CallsAreMade'
    BY <1>10, <1>11 DEF SampleRead, AlertFeeds, GroupFeeds, DisposeManagedView, WalkDisposes
<1>12. CASE RowMoves \/ ReleaseWatches \/ WalkTurns \/ \E k \in WatchKeys : WalkStops(k)
    BY <1>10, <1>12 DEF RowMoves, ReleaseWatches, WalkTurns, WalkStops
<1>13. CASE UNCHANGED watchVars BY <1>10, <1>13 DEF watchVars
<1>. QED BY <1>2, <1>5, <1>6, <1>7, <1>8, <1>9, <1>11, <1>12, <1>13 DEF HubWatchesNext

\* What is fed to the watchers follows the row in every step.
LEMMA FeedStep ==
    ASSUME FeedInv, WatchInv, CallsAreMade, [HubWatchesNext]_watchVars
    PROVE  FeedInv'
<1>0. WatchTypes /\ created \in Int BY WatchAssumption DEF WatchInv, WatchTypes
<1>1. CASE UNCHANGED <<value, created, openViews, feed>>
    <2>1. \A v \in Watches : FeedOK(v)' BY <1>0, <1>1, FeedStays
    <2>. QED BY <1>1, <2>1 DEF FeedInv
<1>2. CASE RowMoves BY <1>0, <1>2, RowMovesFeeds
<1>3. ASSUME NEW v \in Watches, SampleRead(v) \/ AlertFeeds(v) \/ GroupFeeds(v) PROVE FeedInv'
    BY <1>0, <1>3, SampleReadFeeds, AlertFeedsFeeds, GroupFeedsFeeds
<1>4. ASSUME NEW v \in Watches, DisposeManagedView(v) \/ WalkDisposes(v) PROVE FeedInv'
    BY <1>0, <1>4, DeletedFeeds DEF DisposeManagedView, WalkDisposes
<1>5. ASSUME NEW i \in CallIds, OldStopped(i) \/ Removed(i) PROVE FeedInv'
    <2>1. PICK w \in Watches \cup {NoWatch} : w = call[i].view BY <1>0 DEF WatchTypes
    <2>2. Deleted(w) /\ UNCHANGED <<value, created>> BY <1>5, <2>1 DEF OldStopped, Removed
    <2>. QED BY <1>0, <2>2, DeletedFeeds
<1>6. ASSUME NEW i \in CallIds, ViewMade(i) PROVE FeedInv' BY <1>6, ViewMadeFeeds
<1>7. ASSUME NEW i \in CallIds, WatchSet(i) PROVE FeedInv' BY <1>7, WatchSetFeeds
<1>8. ASSUME NEW i \in CallIds, ViewRefused(i) \/ OpenManagedView(i) PROVE FeedInv'
    BY <1>1, <1>8 DEF ViewRefused, OpenManagedView, Begin
<1>9. ASSUME NEW i \in CallIds, NEW k \in GroupKeys, NEW sig \in Sigs, WatchGroups(i, k, sig)
      PROVE  FeedInv'
    BY <1>1, <1>9 DEF WatchGroups, Begin
<1>10. ASSUME NEW i \in CallIds, NEW k \in RuleIds, SubscribeAlert(i, k) \/ UnsubscribeAlert(i, k)
       PROVE  FeedInv'
    BY <1>1, <1>10 DEF SubscribeAlert, UnsubscribeAlert, Begin
<1>11. CASE ReleaseWatches \/ WalkTurns BY <1>1, <1>11 DEF ReleaseWatches, WalkTurns
<1>12. ASSUME NEW k \in WatchKeys, WalkStops(k) PROVE FeedInv'
    <2>1. PICK w \in Watches \cup {NoWatch} : w = slot[k].view BY <1>0 DEF WatchTypes
    <2>2. Deleted(w) /\ UNCHANGED <<value, created>> BY <1>12, <2>1 DEF WalkStops
    <2>. QED BY <1>0, <2>2, DeletedFeeds
<1>13. CASE UNCHANGED watchVars BY <1>1, <1>13 DEF watchVars
<1>. QED BY <1>2, <1>3, <1>4, <1>5, <1>6, <1>7, <1>8, <1>9, <1>10, <1>11, <1>12, <1>13
         DEF HubWatchesNext

\* WatchersReportTransitions: no alert twice, and no group further off than allowed.
THEOREM AlertsFollowCrossings == HubWatchesSpec => []WatchersReportTransitions
<1>1. FeedInv => WatchersReportTransitions
    <2>1. SUFFICES ASSUME FeedInv
                   PROVE  \A v \in Watches :
                            /\ openViews[v] \in RuleIds =>
                                 /\ feed[v].fires <= feed[v].crossings
                                 /\ feed[v].fed /\ ~feed[v].dirty /\ feed[v].samples = <<>>
                                      => feed[v].matching = OverLine(value)
                            /\ openViews[v] \in GroupKeys /\ feed[v].fed =>
                                 /\ ~(feed[v].shown - feed[v].prev > Epsilon * feed[v].quiet)
                                 /\ ~(feed[v].prev - feed[v].shown > Epsilon * feed[v].quiet)
        BY DEF WatchersReportTransitions
    <2>. TAKE v \in Watches
    <2>2. PICK f \in Feed : f = feed[v] BY <2>1 DEF FeedInv
    <2>3. FeedOK(v) BY <2>1 DEF FeedInv
    <2>4. ASSUME openViews[v] \in RuleIds
          PROVE  /\ f.fires <= f.crossings
                 /\ f.fed /\ ~f.dirty /\ f.samples = <<>> => f.matching = OverLine(value)
        <3>1. AlertFollows(f, value) BY <2>2, <2>3, <2>4 DEF FeedOK
        <3>2. Rises(f.matching, f.samples) \in Nat /\ f.fires \in Nat /\ f.crossings \in Nat
            BY RisesAreFinite DEF Feed
        <3>3. One(OverLine(value) /\ ~Last(f.matching, f.samples)) \in Nat BY DEF One
        <3>. QED BY <3>1, <3>2, <3>3 DEF AlertFollows, Last
    <2>5. ASSUME openViews[v] \in GroupKeys, f.fed
          PROVE  /\ ~(f.shown - f.prev > Epsilon * f.quiet)
                 /\ ~(f.prev - f.shown > Epsilon * f.quiet)
        <3>1. f.shown \in Int /\ f.prev \in Int /\ f.quiet \in Nat /\ Epsilon \in Nat
            BY WatchAssumption DEF Feed
        <3>2. PICK b \in Nat : b = Epsilon * f.quiet BY <3>1
        <3>. QED BY <2>2, <2>3, <2>5, <3>1, <3>2 DEF FeedOK, GroupFollows
    <2>. QED BY <2>2, <2>4, <2>5
<1>2. HubWatchesInit => CallsAreMade BY DEF HubWatchesInit, CallsAreMade, NoCall
<1>3. FeedInv /\ WatchInv /\ CallsAreMade /\ [HubWatchesNext]_watchVars => FeedInv' /\ CallsAreMade'
    BY FeedStep, CallsAreMadeStep
<1>. QED BY <1>1, <1>2, <1>3, FeedStarts, WatchInvariance, PTL DEF HubWatchesSpec
==============================================================================
