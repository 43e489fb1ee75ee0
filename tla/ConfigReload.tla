----------------------------- MODULE ConfigReload -----------------------------
(* A new bundle pushed to a running hub: reload.mjs compares it with the    *)
(* old one, field by field, and reads the strongest reload class off the    *)
(* schema's annotations; Hub.applyConfig then changes the running table in  *)
(* place or re-establishes it, in steps that other pushes, subscribes and   *)
(* departures come between.  One datasource and its connection; what a      *)
(* re-establishment does to references and to several subscribers is in     *)
(* HubSubscriptions, items added to or removed from a bundle are left out.  *)
(*                                                                         *)
(* A field is a path of names; an item holds a value for some of its        *)
(* fields, and a section is there when a field of it is.  What runs works   *)
(* with the fields from three places: a table takes most of them when it is *)
(* made; the registry's entry, which a re-establishment keeps, takes some   *)
(* when it is new; and one is the hub's own, which only applyLive sets and  *)
(* which the flow of a session takes over when it is made.                  *)
EXTENDS Naturals, Sequences, FiniteSets, FiniteSetsExt, SequencesExt, Filtering

CONSTANTS
    Fields,         \* paths; the first name is the item
    Annotations,    \* the schema's nodes, fields and sections: what is said beside
                    \* a $ref, and what the target or the branches of a union declare
    Required,       \* fields an item must have
    LiveFields,     \* the fields applyLive sets
    HubFields,      \* those of them it sets in the hub: the conflation interval
    EntryFields,    \* what the registry's entry takes: lifecycle, sharing, size
    ConfigValues, Unset,
    Pushes,         \* bundles pushed
    MaxJoins        \* bound: subscribes of the tab

ASSUME ReloadAssumption ==
    /\ LiveFields \subseteq Fields /\ Required \subseteq Fields
    /\ HubFields \subseteq LiveFields /\ EntryFields \subseteq Fields \ LiveFields

VARIABLES
    bundle,         \* Hub.bundle: each field's value, or Unset
    inUse,          \* the values the running table works with, or NotRunning
    registered,     \* those the registry's entry was made with, or NotRegistered
    hubWide,        \* those the hub makes flows with
    flow,           \* those of the tab's flow, or NoFlow
    attached,       \* the tab is a subscriber of the table
    creating,       \* subscribes that await createTable: of the tab or of a push
    push,           \* each applyConfig: the plans left, and where it is
    joins,
    excused         \* fields whose edit the code is known not to apply (ghost)
settings == <<inUse, registered, hubWide, flow>>
reloadVars == <<bundle, settings, attached, creating, push, joins, excused>>

RELOAD_ORDER == <<"none", "live", "resubscribe", "rebuild", "restart">>
Classes == {RELOAD_ORDER[i] : i \in DOMAIN RELOAD_ORDER}
NotRunning == <<>>
NotRegistered == <<>>
NoFlow == <<>>
NotCreating == <<>>
Callers == {"tab"} \cup Pushes
TableFields == Fields \ (HubFields \cup EntryFields)
Bundles == {b \in [Fields -> ConfigValues \cup {Unset}] : \A f \in Required : b[f] # Unset}
PushStages == {"waiting", "tearing", "subscribing", "done"}

\* What datasource-config.schema.json says of the fields of a connection and
\* of a datasource: an item has a field that it must have, its id; each field,
\* or a section around it, has a class; and "live" is said of single fields,
\* not of a section, nor beside a $ref.
DeclaredAt(path) == Annotations[path].beside \cup Annotations[path].target
ASSUME SchemaAssumption ==
    \A f \in Fields :
        /\ f \in Seq(STRING) /\ Len(f) >= 2 /\ f[1] \in {"connections", "datasources"}
        /\ \E g \in Required : g[1] = f[1]
        /\ \A i \in 1 .. Len(f) :
              LET path == SubSeq(f, 1, i)
              IN  /\ path \in DOMAIN Annotations
                  /\ DeclaredAt(path) \subseteq {"live", "resubscribe", "rebuild", "restart"}
                  /\ "live" \in DeclaredAt(path) =>
                        i = Len(f) /\ Annotations[path] = [beside |-> {}, target |-> {"live"}]
        /\ \E i \in 1 .. Len(f) : DeclaredAt(SubSeq(f, 1, i)) # {}

-----------------------------------------------------------------------------
(* reload.mjs                                                               *)

Rank(class) == CHOOSE i \in DOMAIN RELOAD_ORDER : RELOAD_ORDER[i] = class
Strongest(classes) == RELOAD_ORDER[Max({1} \cup {Rank(c) : c \in classes})]

\* Mutant of AnnotatedAs: the annotation beside a $ref is lost with it.
AnnotatedInTarget(node) == node.target
AnnotatedAs(node) == IF node.beside # {} THEN node.beside ELSE node.target

\* The nearest annotated node on the way down, as far as the schema knows it.
ReloadClassAt(path) ==
    LET known == {i \in 1 .. Len(path) : \A j \in 1 .. i : SubSeq(path, 1, j) \in DOMAIN Annotations}
        saying == {i \in known : AnnotatedAs(Annotations[SubSeq(path, 1, i)]) # {}}
    IN  IF saying = {} THEN "none" ELSE Strongest(AnnotatedAs(Annotations[SubSeq(path, 1, Max(saying))]))

HasSection(b, p) == \E f \in Fields : b[f] # Unset /\ IsPrefix(p, f)

\* A field that differs, or the largest section around it that one side lacks.
ChangedPath(before, after, f) ==
    LET lacking == {i \in 1 .. Len(f) : ~HasSection(before, SubSeq(f, 1, i)) \/ ~HasSection(after, SubSeq(f, 1, i))}
    IN  IF lacking = {} THEN f ELSE SubSeq(f, 1, Min(lacking))
ChangedPaths(before, after) ==
    {ChangedPath(before, after, f) : f \in {g \in Fields : before[g] # after[g]}}

PlanOf(before, after, item) ==
    Strongest({ReloadClassAt(p) : p \in {q \in ChangedPaths(before, after) : q[1] = item}})
ReloadPlan(before, after) ==
    KeepIn(<<PlanOf(before, after, "connections"), PlanOf(before, after, "datasources")>>, Classes \ {"none"})

-----------------------------------------------------------------------------
(* hub.mjs                                                                  *)

ReloadInit ==
    /\ bundle \in {b \in Bundles : \A f, g \in Fields : b[f] \in ConfigValues /\ b[f] = b[g]}
    /\ inUse = NotRunning /\ registered = NotRegistered /\ flow = NoFlow
    /\ hubWide = [f \in HubFields |-> Unset]
    /\ attached = FALSE
    /\ creating = [c \in Callers |-> NotCreating]
    /\ push = [p \in Pushes |-> [stage |-> "waiting", plans |-> <<>>, survivor |-> FALSE]]
    /\ joins = 0 /\ excused = HubFields

(* applyLive: what the new bundle says of the fields it knows.              *)
ApplyLive(used, b) ==
    [f \in DOMAIN used |-> IF f \in LiveFields /\ b[f] # Unset THEN b[f] ELSE used[f]]

\* Edits that are known not to reach a running table: of a live field nobody
\* sets or that is taken out, and of a section no annotation covers that comes
\* or goes as a whole.
Unheeded(before, after) ==
    {f \in TableFields :
        /\ before[f] # after[f]
        /\ \/ Annotations[f].target = {"live"} /\ (f \notin LiveFields \/ after[f] = Unset)
           \/ \E i \in 2 .. Len(f) - 1 :
                 LET section == SubSeq(f, 1, i)
                 IN  /\ HasSection(before, section) # HasSection(after, section)
                     /\ Annotations[section].target \cup Annotations[section].beside = {}}

\* The plans of a push are carried out in order on what runs then: a live one in
\* place, any other by re-establishing, which awaits.
FirstStructural(plans) ==
    LET structural == {i \in DOMAIN plans : plans[i] # "live"}
    IN  IF structural = {} THEN 0 ELSE Min(structural)
Reestablishes(plans) == inUse # NotRunning /\ FirstStructural(plans) # 0
GoesLive(plans) == inUse # NotRunning /\ plans # <<>> /\ FirstStructural(plans) # 1

\* What a live plan sets: but in the flow of a tab only while it subscribes.
Heeded(plans, b) ==
    {f \in LiveFields : /\ GoesLive(plans) /\ b[f] # Unset
                        /\ f \in HubFields => attached \/ flow = NoFlow}

Proceed(p, plans, b) ==
    /\ push' = [push EXCEPT ![p] =
          IF Reestablishes(plans)
          THEN [stage |-> "tearing", survivor |-> attached,
                plans |-> SubSeq(plans, FirstStructural(plans) + 1, Len(plans))]
          ELSE [stage |-> "done", plans |-> <<>>, survivor |-> FALSE]]
    /\ inUse' = IF Reestablishes(plans) THEN NotRunning
                ELSE IF GoesLive(plans) THEN ApplyLive(inUse, b) ELSE inUse
    /\ hubWide' = IF GoesLive(plans) THEN ApplyLive(hubWide, b) ELSE hubWide
    /\ flow' = IF attached /\ Reestablishes(plans) THEN NoFlow
               ELSE IF attached /\ GoesLive(plans) /\ flow # NoFlow THEN ApplyLive(flow, b)
               ELSE flow
    /\ attached' = (attached /\ ~Reestablishes(plans))
    /\ UNCHANGED registered

(* applyConfig, until it first awaits.  Known not to be applied: what the   *)
(* hub has for itself, unless it is set live; what the registry's entry was *)
(* made with; and, of a table that goes on, what is unheeded.               *)
ApplyConfig(p, b) ==
    LET plans == ReloadPlan(bundle, b)
        edited == {f \in Fields : bundle[f] # b[f]}
    IN  /\ push[p].stage = "waiting" /\ b # bundle
        /\ bundle' = b
        /\ Proceed(p, plans, b)
        /\ excused' = (excused
                         \cup (edited \cap HubFields)
                         \cup (IF registered = NotRegistered THEN {} ELSE edited \cap EntryFields)
                         \cup (IF inUse = NotRunning THEN {} ELSE Unheeded(bundle, b)))
                      \ Heeded(plans, b)
        /\ UNCHANGED <<creating, joins>>

\* The rest of the plans, with the bundle there is by now in the hub.
ProceedLater(p) ==
    /\ Proceed(p, push[p].plans, bundle)
    /\ excused' = excused \ Heeded(push[p].plans, bundle)

(* Hub.subscribe, until it awaits createTable; a running entry is joined.   *)
(* An entry that is new in the registry is made with the bundle of now.     *)
Begins(c) ==
    /\ IF registered # NotRegistered
       THEN UNCHANGED <<registered, excused>>
       ELSE registered' = [f \in EntryFields |-> bundle[f]] /\ excused' = excused \ EntryFields
    /\ IF inUse # NotRunning
       THEN attached' = TRUE /\ UNCHANGED creating
       ELSE creating' = [creating EXCEPT ![c] = bundle] /\ UNCHANGED attached
    /\ UNCHANGED <<inUse, hubWide, flow>>

(* The teardown is done, and what subscribed before is subscribed again.    *)
TornDown(p) ==
    /\ push[p].stage = "tearing"
    /\ IF push[p].survivor
       THEN Begins(p) /\ push' = [push EXCEPT ![p].stage = "subscribing"]
       ELSE ProceedLater(p) /\ UNCHANGED creating
    /\ UNCHANGED <<bundle, joins>>

(* The loop over the plans goes on.                                         *)
Resubscribed(p) ==
    /\ push[p].stage = "subscribing" /\ creating[p] = NotCreating
    /\ ProceedLater(p)
    /\ UNCHANGED <<bundle, creating, joins>>

TabSubscribes ==
    /\ creating["tab"] = NotCreating /\ ~attached /\ joins < MaxJoins
    /\ joins' = joins + 1
    /\ Begins("tab")
    /\ UNCHANGED <<bundle, push>>

(* createTable is done: the table works with the datasource as it was when  *)
(* the subscribe began and with the connection as it is now.  Not applied:  *)
(* edits of the datasource in between.                                      *)
TableIsCreated(c) ==
    /\ creating[c] # NotCreating
    /\ inUse' = [f \in TableFields |-> IF f[1] = "datasources" THEN creating[c][f] ELSE bundle[f]]
    /\ excused' = (excused \ TableFields) \cup
          {f \in TableFields : f[1] = "datasources" /\ creating[c][f] # bundle[f]}
    /\ creating' = [creating EXCEPT ![c] = NotCreating]
    /\ attached' = TRUE
    /\ UNCHANGED <<bundle, registered, hubWide, flow, push, joins>>

(* createTable rejects: the survivor is told.                               *)
CreationFails(c) ==
    /\ creating[c] # NotCreating
    /\ creating' = [creating EXCEPT ![c] = NotCreating]
    /\ UNCHANGED <<bundle, settings, attached, push, joins, excused>>

(* flowFor: the first delta for the tab, or an acknowledgement of it.       *)
FlowStarts ==
    /\ flow = NoFlow
    /\ flow' = hubWide
    /\ UNCHANGED <<bundle, inUse, registered, hubWide, attached, creating, push, joins, excused>>

(* It unsubscribes, or is dropped.  Its flow stays.                         *)
TabLeaves ==
    /\ attached
    /\ attached' = FALSE
    /\ UNCHANGED <<bundle, settings, creating, push, joins, excused>>

(* The idle timer; who armed it is in HubSubscriptions, here it may fire at *)
(* any time.  The registry's entry goes, and the table if there is one.     *)
IdleTeardown ==
    /\ registered # NotRegistered
    /\ registered' = NotRegistered
    /\ inUse' = NotRunning /\ attached' = FALSE
    /\ UNCHANGED <<bundle, hubWide, flow, creating, push, joins, excused>>

ReloadNext ==
    \/ \E p \in Pushes : TornDown(p) \/ Resubscribed(p) \/ \E b \in Bundles : ApplyConfig(p, b)
    \/ \E c \in Callers : TableIsCreated(c) \/ CreationFails(c)
    \/ TabSubscribes \/ FlowStarts \/ TabLeaves \/ IdleTeardown

ReloadSpec == ReloadInit /\ [][ReloadNext]_reloadVars

-----------------------------------------------------------------------------
(* Properties.                                                              *)

ReloadTypeOK ==
    LET Of(fields) == [fields -> ConfigValues \cup {Unset}] IN
    /\ bundle \in Bundles
    /\ inUse \in Of(TableFields) \cup {NotRunning}
    /\ registered \in Of(EntryFields) \cup {NotRegistered}
    /\ hubWide \in Of(HubFields)
    /\ flow \in Of(HubFields) \cup {NoFlow}
    /\ attached \in BOOLEAN
    /\ \A c \in Callers : creating[c] \in Bundles \cup {NotCreating}
    /\ \A p \in Pushes : push[p].stage \in PushStages
    /\ excused \subseteq Fields

(* What runs works with the bundle the hub has, whatever pushes, subscribes *)
(* and departures came between: the table, the registry's entry and the     *)
(* flows.  But for the edits that are known to go unheeded: of a table that *)
(* is being made or has them set by nobody (until it is made again), of the *)
(* registry's entry (until it is made again, which a rebuild does not), and *)
(* of the hub's conflation interval, the first bundle's included, unless a  *)
(* push in place sets it while the tab is there.                            *)
EditsTakeEffect ==
    /\ inUse # NotRunning => \A f \in TableFields \ excused : inUse[f] = bundle[f]
    /\ registered # NotRegistered => \A f \in EntryFields \ excused : registered[f] = bundle[f]
    /\ \A f \in HubFields \ excused :
          hubWide[f] = bundle[f] /\ (flow # NoFlow => flow[f] = bundle[f])
=============================================================================
