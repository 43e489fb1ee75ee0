----------------------------- MODULE HubWatches -----------------------------
(* hub.mjs: what one session keeps open in the engine - managed views,      *)
(* group watches and alerts - through calls that await the engine, and the  *)
(* disposal of all of it when the session disconnects.  AlertWatcher and    *)
(* GroupAggregateDiffer turn the updates of a watched view into messages.   *)
EXTENDS Integers, Sequences, FiniteSets

CONSTANTS
    GroupKeys,     \* entry keys: one group watch each
    RuleIds,       \* alert rules
    Sigs,          \* groupings
    CallIds,       \* calls that may be under way together
    Top,           \* the row's value is in 0 .. Top
    Line,          \* an alert matches from here on
    Epsilon,       \* GroupAggregateDiffer.epsilon
    MaxWatches,    \* bound: engine views opened
    MaxMoves       \* bound: changes of the row

ASSUME WatchAssumption == /\ Top \in Nat /\ Line \in 0 .. Top /\ Epsilon \in Nat
                          /\ MaxWatches \in Nat /\ MaxMoves \in Nat
                          /\ GroupKeys \cap RuleIds = {}
                          /\ {"managed", "deleted"} \cap (GroupKeys \cup RuleIds) = {}

VARIABLES
    value,         \* the row the views look at; also its group's aggregate
    moves,         \* how often it changed
    created,       \* engine views so far
    openViews,     \* engine views not deleted: which key they serve
    slot,          \* __groupWatch and __alerts: key to view and grouping
    managed,       \* hub.views of this session
    call,          \* calls between their awaits
    closing,       \* releaseSession: its stage and what it walks over
    feed,          \* each watched view: samples read, watcher and messages
    leaky          \* keys whose calls overlapped or outlived the session (ghost)

watchVars == <<value, moves, created, openViews, slot, managed, call, closing, feed, leaky>>

Watches == 1 .. MaxWatches
NoWatch == 0
WatchKeys == GroupKeys \cup RuleIds
Managed == "managed"
Vacant == [view |-> NoWatch, sig |-> "none"]
NoCall == [op |-> "none", key |-> Managed, sig |-> "none", stage |-> "none", view |-> NoWatch]
Stages == {"none", "stopping", "creating", "watching", "removing"}

HubWatchesTypeOK ==
    /\ value \in 0 .. Top /\ moves \in 0 .. MaxMoves /\ created \in 0 .. MaxWatches
    /\ openViews \in [Watches -> WatchKeys \cup {Managed, "deleted"}]
    /\ slot \in [WatchKeys -> [view : Watches \cup {NoWatch}, sig : Sigs \cup {"none"}]]
    /\ managed \subseteq Watches
    /\ \A i \in CallIds : /\ call[i].key \in WatchKeys \cup {Managed}
                          /\ call[i].stage \in Stages
                          /\ call[i].view \in Watches \cup {NoWatch}
    /\ closing.stage \in {"open", "views", "groups", "alerts", "closed"}
    /\ \A v \in Watches : feed[v].samples \in Seq(0 .. Top)
    /\ leaky \subseteq WatchKeys \cup {Managed}

Unfed == [on |-> FALSE, dirty |-> FALSE, samples |-> <<>>, fed |-> FALSE, prev |-> -1,
          matching |-> FALSE, fires |-> 0, crossings |-> 0, shown |-> -1, quiet |-> 0]

HubWatchesInit ==
    /\ value = 0 /\ moves = 0 /\ created = 0
    /\ openViews = [v \in Watches |-> "deleted"]
    /\ slot = [k \in WatchKeys |-> Vacant]
    /\ managed = {}
    /\ call = [i \in CallIds |-> NoCall]
    /\ closing = [stage |-> "open", left |-> {}, current |-> NoWatch]
    /\ feed = [v \in Watches |-> Unfed]
    /\ leaky = {}

-----------------------------------------------------------------------------
(* The engine and the watchers.                                             *)

OverLine(x) == x >= Line

RowMoves ==
    /\ moves < MaxMoves
    /\ \E x \in 0 .. Top :
        /\ x # value
        /\ value' = x
        /\ feed' = [v \in Watches |->
             IF openViews[v] \in {Managed, "deleted"} THEN feed[v]
             ELSE [feed[v] EXCEPT !.dirty = @ \/ feed[v].on,
                                  !.crossings = @ + (IF OverLine(x) /\ ~OverLine(value) THEN 1 ELSE 0)]]
    /\ moves' = moves + 1
    /\ UNCHANGED <<created, openViews, slot, managed, call, closing, leaky>>

(* The update callback reads the view, and feeds the rows when they come.   *)
SampleRead(v) ==
    /\ feed[v].dirty /\ feed[v].on
    /\ feed' = [feed EXCEPT ![v] = [feed[v] EXCEPT !.dirty = FALSE, !.samples = Append(@, value)]]
    /\ UNCHANGED <<value, moves, created, openViews, slot, managed, call, closing, leaky>>

(* Mutant of AlertFeeds: every sample over the line is reported.            *)
AlertFeedsEachTime(v) ==
    /\ openViews[v] \in RuleIds /\ feed[v].samples # <<>>
    /\ LET now == OverLine(Head(feed[v].samples)) IN
       feed' = [feed EXCEPT ![v] = [feed[v] EXCEPT
                  !.samples = Tail(@), !.fed = TRUE, !.matching = now,
                  !.fires = @ + (IF now THEN 1 ELSE 0)]]
    /\ UNCHANGED <<value, moves, created, openViews, slot, managed, call, closing, leaky>>

(* AlertWatcher.feed: a row is reported when it was not in the last sample. *)
AlertFeeds(v) ==
    /\ openViews[v] \in RuleIds /\ feed[v].samples # <<>>
    /\ LET now == OverLine(Head(feed[v].samples)) IN
       feed' = [feed EXCEPT ![v] = [feed[v] EXCEPT
                  !.samples = Tail(@), !.fed = TRUE, !.matching = now,
                  !.fires = @ + (IF now /\ ~feed[v].matching THEN 1 ELSE 0)]]
    /\ UNCHANGED <<value, moves, created, openViews, slot, managed, call, closing, leaky>>

Far(a, b) == a - b > Epsilon \/ b - a > Epsilon

(* GroupAggregateDiffer.feed: the sample is remembered whether or not it    *)
(* moved far enough to be reported.                                         *)
GroupFeeds(v) ==
    /\ openViews[v] \in GroupKeys /\ feed[v].samples # <<>>
    /\ LET now      == Head(feed[v].samples)
           reported == ~feed[v].fed \/ Far(now, feed[v].prev)
       IN feed' = [feed EXCEPT ![v] = [feed[v] EXCEPT
                     !.samples = Tail(@), !.fed = TRUE, !.prev = now,
                     !.shown = IF reported THEN now ELSE @,
                     !.quiet = IF reported THEN 0 ELSE @ + 1]]
    /\ UNCHANGED <<value, moves, created, openViews, slot, managed, call, closing, leaky>>

Deleted(v) == /\ openViews' = IF v = NoWatch THEN openViews ELSE [openViews EXCEPT ![v] = "deleted"]
              /\ feed' = IF v = NoWatch THEN feed ELSE [feed EXCEPT ![v] = Unfed]

-----------------------------------------------------------------------------
(* Calls: openView, watchGroups, subscribeAlert, unsubscribeAlert.          *)

Busy(k) == \E i \in CallIds : call[i].stage # "none" /\ call[i].key = k

Begin(i, op, k, sig, stage, view) ==
    /\ closing.stage = "open" /\ call[i].stage = "none"
    /\ call' = [call EXCEPT ![i] = [op |-> op, key |-> k, sig |-> sig,
                                    stage |-> stage, view |-> view]]
    /\ leaky' = IF k # Managed /\ Busy(k) THEN leaky \cup {k} ELSE leaky
    /\ UNCHANGED <<value, moves, created, openViews, slot, managed, closing, feed>>

OpenManagedView(i) == Begin(i, "open", Managed, "none", "creating", NoWatch)

(* The same grouping is already watched: nothing to do.                     *)
WatchGroups(i, k, sig) ==
    /\ slot[k].sig # sig
    /\ Begin(i, "groups", k, sig, IF slot[k] = Vacant THEN "creating" ELSE "stopping",
             slot[k].view)

SubscribeAlert(i, k) ==
    Begin(i, "alert", k, "none", IF slot[k] = Vacant THEN "creating" ELSE "stopping", slot[k].view)

UnsubscribeAlert(i, k) ==
    /\ slot[k] # Vacant
    /\ Begin(i, "alert", k, "none", "removing", slot[k].view)

(* existing.stop() has deleted the old view.  watchGroups then clears the   *)
(* key, whatever it holds by now; subscribeAlert leaves it.                 *)
OldStopped(i) ==
    /\ call[i].stage = "stopping"
    /\ Deleted(call[i].view)
    /\ slot' = IF call[i].op = "groups" THEN [slot EXCEPT ![call[i].key] = Vacant] ELSE slot
    /\ call' = [call EXCEPT ![i].stage = "creating", ![i].view = NoWatch]
    /\ UNCHANGED <<value, moves, created, managed, closing, leaky>>

Removed(i) ==
    /\ call[i].stage = "removing"
    /\ Deleted(call[i].view)
    /\ slot' = [slot EXCEPT ![call[i].key] = Vacant]
    /\ call' = [call EXCEPT ![i] = NoCall]
    /\ UNCHANGED <<value, moves, created, managed, closing, leaky>>

(* createView answers.  A managed view is registered at once.               *)
ViewMade(i) ==
    /\ call[i].stage = "creating" /\ created < MaxWatches
    /\ created' = created + 1
    /\ openViews' = [openViews EXCEPT ![created + 1] = call[i].key]
    /\ feed' = [feed EXCEPT ![created + 1].crossings = IF OverLine(value) THEN 1 ELSE 0]
    /\ IF call[i].op = "open"
       THEN managed' = managed \cup {created + 1} /\ call' = [call EXCEPT ![i] = NoCall]
       ELSE /\ call' = [call EXCEPT ![i].stage = "watching", ![i].view = created + 1]
            /\ UNCHANGED managed
    /\ UNCHANGED <<value, moves, slot, closing, leaky>>

ViewRefused(i) ==
    /\ call[i].stage = "creating"
    /\ call' = [call EXCEPT ![i] = NoCall]
    /\ UNCHANGED <<value, moves, created, openViews, slot, managed, closing, feed, leaky>>

(* watchView answers: the key is set, over whatever another call put there. *)
WatchSet(i) ==
    /\ call[i].stage = "watching"
    /\ slot' = [slot EXCEPT ![call[i].key] = [view |-> call[i].view, sig |-> call[i].sig]]
    /\ feed' = [feed EXCEPT ![call[i].view].on = TRUE]
    /\ call' = [call EXCEPT ![i] = NoCall]
    /\ UNCHANGED <<value, moves, created, openViews, managed, closing, leaky>>

DisposeManagedView(v) ==
    /\ closing.stage = "open" /\ v \in managed
    /\ managed' = managed \ {v}
    /\ Deleted(v)
    /\ UNCHANGED <<value, moves, created, slot, call, closing, leaky>>

-----------------------------------------------------------------------------
(* releaseSession: disposeSessionViews walks a copy of the managed views,   *)
(* then the group watches, then the alerts, awaiting each disposal.  What a *)
(* call that is still under way registers, it may miss.                     *)
SlotsOf(stage) == IF stage = "groups" THEN GroupKeys ELSE RuleIds
(* Mutant of NextStage: the alerts are left out.                            *)
NextStageNoAlerts == [views |-> "groups", groups |-> "closed", alerts |-> "closed"]
NextStage == [views |-> "groups", groups |-> "alerts", alerts |-> "closed"]

ReleaseWatches ==
    /\ closing.stage = "open"
    /\ closing' = [stage |-> "views", left |-> managed, current |-> NoWatch]
    /\ leaky' = leaky \cup {call[i].key : i \in {j \in CallIds : call[j].stage # "none"}}
    /\ UNCHANGED <<value, moves, created, openViews, slot, managed, call, feed>>

WalkDisposes(v) ==
    /\ closing.stage = "views" /\ v \in closing.left
    /\ closing' = [closing EXCEPT !.left = @ \ {v}]
    /\ managed' = managed \ {v}
    /\ Deleted(v)
    /\ UNCHANGED <<value, moves, created, slot, call, leaky>>

WalkStops(k) ==
    /\ closing.stage \in {"groups", "alerts"} /\ k \in SlotsOf(closing.stage) \cap closing.left
    /\ closing' = [closing EXCEPT !.left = @ \ {k}]
    /\ Deleted(slot[k].view)
    /\ UNCHANGED <<value, moves, created, slot, managed, call, leaky>>

(* The map is cleared; the next one is walked.                              *)
WalkTurns ==
    /\ closing.stage \in DOMAIN NextStage /\ closing.left = {}
    /\ slot' = IF closing.stage = "views" THEN slot
               ELSE [k \in WatchKeys |-> IF k \in SlotsOf(closing.stage) THEN Vacant ELSE slot[k]]
    /\ closing' = [closing EXCEPT !.stage = NextStage[closing.stage],
                                  !.left = IF closing.stage = "alerts" THEN {}
                                           ELSE SlotsOf(NextStage[closing.stage])]
    /\ UNCHANGED <<value, moves, created, openViews, managed, call, feed, leaky>>

HubWatchesNext ==
    \/ RowMoves
    \/ \E v \in Watches : SampleRead(v) \/ AlertFeeds(v) \/ GroupFeeds(v)
                          \/ DisposeManagedView(v) \/ WalkDisposes(v)
    \/ \E i \in CallIds :
         \/ OpenManagedView(i) \/ OldStopped(i) \/ Removed(i)
         \/ ViewMade(i) \/ ViewRefused(i) \/ WatchSet(i)
         \/ \E k \in GroupKeys, sig \in Sigs : WatchGroups(i, k, sig)
         \/ \E k \in RuleIds : SubscribeAlert(i, k) \/ UnsubscribeAlert(i, k)
    \/ ReleaseWatches
    \/ \E k \in WatchKeys : WalkStops(k)
    \/ WalkTurns

HubWatchesSpec == HubWatchesInit /\ [][HubWatchesNext]_watchVars

-----------------------------------------------------------------------------
(* Properties.                                                              *)

InCalls == {call[i].view : i \in CallIds}
Registered == IF closing.stage = "closed" THEN {} ELSE managed \cup {slot[k].view : k \in WatchKeys}

(* Every engine view of the session will still be disposed: it is           *)
(* registered with a session that lives, or a call holds it.  A view gets   *)
(* lost only when two calls for its key overlapped, or when the session     *)
(* disconnected during a call.                                              *)
WatchesAreAccounted ==
    \A v \in Watches : openViews[v] # "deleted" => v \in Registered \cup InCalls \/ openViews[v] \in leaky

(* An alert is sent at most once for each time its row crossed the line,    *)
(* and once the samples are fed it knows whether the row is over it; a      *)
(* group's last reported aggregate is off by at most the tolerance for each *)
(* sample since that was not reported.                                      *)
WatchersReportTransitions ==
    \A v \in Watches :
        /\ openViews[v] \in RuleIds =>
             /\ feed[v].fires <= feed[v].crossings
             /\ feed[v].fed /\ ~feed[v].dirty /\ feed[v].samples = <<>>
                  => feed[v].matching = OverLine(value)
        /\ openViews[v] \in GroupKeys /\ feed[v].fed =>
             ~(feed[v].shown - feed[v].prev > Epsilon * feed[v].quiet)
             /\ ~(feed[v].prev - feed[v].shown > Epsilon * feed[v].quiet)
=============================================================================
