----------------------------- MODULE ConfigStore ----------------------------
(***************************************************************************)
(* The configuration of the desktops.  Each application keeps its own in a  *)
(* store of its browser (configStore.mjs), shared by its tabs; it moves     *)
(* between applications as an exported bundle that is sent by mail and      *)
(* imported (bundle.mjs); and when two meet, in the hello of the control    *)
(* protocol, the pair of version and checksum says whether they agree       *)
(* (reconcileConfig, control.mjs).                                         *)
(*                                                                         *)
(* An export reads the collections one by one and the version last, each in *)
(* a transaction of its own; an import reads the version before the         *)
(* transaction that writes.  The calls of two tabs interleave.  A checksum  *)
(* is the content it was computed over.  A collection has at most one item. *)
(***************************************************************************)
EXTENDS Naturals, Sequences, FiniteSets

CONSTANTS Stores,        \* applications, each with its IndexedDB
          Collections,   \* the sequence of the collections a bundle carries
          Items,         \* an item of a collection
          NoItem,        \* an empty collection
          NoSum,         \* the checksum of a store nothing was imported to
          ImportCalls,   \* calls of exportBundle and importBundle under way
          MaxEdits,      \* bound: edits of the stores
          MaxImports,    \* bound: imports that verified
          MaxBundles     \* bound: bundles that were ever sent

VARIABLES content,   \* [Stores -> [collections -> Items \cup {NoItem}]]
          meta,      \* the `bundle' record of each store: version and checksum
          whole,     \* history: nothing but a replace-all wrote the content
          mail,      \* the bundles that were sent
          step,      \* where each call is
          edits,     \* history: edits so far
          imports    \* history: imports so far
configVars == <<content, meta, whole, mail, step, edits, imports>>

CollectionNames == {Collections[i] : i \in 1..Len(Collections)}
Contents == [CollectionNames -> Items \cup {NoItem}]
Bundle(version, sum, c) == [version |-> version, sum |-> sum, content |-> c]
Modes == {"merge-incoming", "merge-local", "replace-all"}

\* A store nothing was imported to has no checksum.
ASSUME ConfigAssumption == NoSum \notin Contents

NotCalled == [op |-> "none"]
Larger(a, b) == IF a > b THEN a ELSE b

ConfigInit ==
    /\ content = [s \in Stores |-> [k \in CollectionNames |-> NoItem]]
    /\ meta = [s \in Stores |-> [version |-> 0, sum |-> NoSum]]
    /\ whole = [s \in Stores |-> FALSE]
    /\ mail = {}
    /\ step = [c \in ImportCalls |-> NotCalled]
    /\ edits = 0 /\ imports = 0

(***************************************************************************)
(* put and delete of the admin screens: the version and the checksum stay.  *)
(***************************************************************************)
Edit(s) ==
    /\ edits < MaxEdits
    /\ edits' = edits + 1
    /\ \E k \in CollectionNames, v \in Items \cup {NoItem} :
          /\ v # content[s][k]
          /\ content' = [content EXCEPT ![s][k] = v]
    /\ whole' = [whole EXCEPT ![s] = FALSE]
    /\ UNCHANGED <<meta, mail, step, imports>>

(***************************************************************************)
(* exportBundle: one `all' after the other, then `meta', then the checksum  *)
(* of what was read.                                                       *)
(***************************************************************************)
BeginExport(c, s) ==
    /\ step[c] = NotCalled
    /\ Cardinality(mail) < MaxBundles
    /\ step' = [step EXCEPT ![c] = [op |-> "export", store |-> s, read |-> [k \in CollectionNames |-> NoItem], next |-> 1]]
    /\ UNCHANGED <<content, meta, whole, mail, edits, imports>>

ReadCollection(c) ==
    /\ step[c].op = "export"
    /\ step[c].next <= Len(Collections)
    /\ LET k == Collections[step[c].next]
       IN  step' = [step EXCEPT ![c].read[k] = content[step[c].store][k], ![c].next = @ + 1]
    /\ UNCHANGED <<content, meta, whole, mail, edits, imports>>

FinishExport(c) ==
    /\ step[c].op = "export"
    /\ step[c].next > Len(Collections)
    /\ mail' = mail \cup {Bundle(meta[step[c].store].version, step[c].read, step[c].read)}
    /\ step' = [step EXCEPT ![c] = NotCalled]
    /\ UNCHANGED <<content, meta, whole, edits, imports>>

\* A bundle is truncated on its way.
TruncateBundle(b) ==
    /\ Cardinality(mail) < MaxBundles
    /\ \E k \in CollectionNames : /\ b.content[k] # NoItem
                        /\ mail' = mail \cup {[b EXCEPT !.content[k] = NoItem]}
    /\ UNCHANGED <<content, meta, whole, step, edits, imports>>

(***************************************************************************)
(* importBundle.  A dry run and a bundle that does not verify write nothing.*)
(***************************************************************************)
VerifyBundle(b) == b.sum = b.content

BeginImport(c, s, b, mode) ==
    /\ step[c] = NotCalled
    /\ imports < MaxImports
    /\ imports' = imports + 1
    /\ VerifyBundle(b)
    /\ step' = [step EXCEPT ![c] = [op |-> "import", store |-> s, bundle |-> b, mode |-> mode,
                                    next |-> Larger(meta[s].version, b.version) + 1]]
    /\ UNCHANGED <<content, meta, whole, mail, edits>>

\* Mutant of Written: a replacement keeps what the bundle has not.
WrittenUncleared(cs, b, mode) ==
    [k \in CollectionNames |-> IF b.content[k] = NoItem THEN cs[k] ELSE b.content[k]]
\* What the transaction leaves of content cs when bundle b is written to it.
Written(cs, b, mode) ==
    [k \in CollectionNames |->
        CASE mode = "replace-all"                                   -> b.content[k]
          [] mode # "replace-all" /\ b.content[k] = NoItem          -> cs[k]
          [] mode = "merge-local" /\ cs[k] # NoItem                 -> cs[k]
          [] OTHER                                                  -> b.content[k]]

CommitImport(c) ==
    /\ step[c].op = "import"
    /\ LET i == step[c]
       IN  /\ content' = [content EXCEPT ![i.store] = Written(@, i.bundle, i.mode)]
           /\ meta' = [meta EXCEPT ![i.store] = [version |-> i.next, sum |-> i.bundle.sum]]
           /\ whole' = [whole EXCEPT ![i.store] = (i.mode = "replace-all")]
    /\ step' = [step EXCEPT ![c] = NotCalled]
    /\ UNCHANGED <<mail, edits, imports>>

\* An item the schema refuses, or the browser, aborts the transaction.
FailImport(c) ==
    /\ step[c].op = "import"
    /\ step' = [step EXCEPT ![c] = NotCalled]
    /\ UNCHANGED <<content, meta, whole, mail, edits, imports>>

ConfigNext ==
    \/ \E s \in Stores : Edit(s)
    \/ \E c \in ImportCalls, s \in Stores : BeginExport(c, s)
    \/ \E c \in ImportCalls : ReadCollection(c)
    \/ \E c \in ImportCalls : FinishExport(c)
    \/ \E b \in mail : TruncateBundle(b)
    \/ \E c \in ImportCalls, s \in Stores, b \in mail, m \in Modes : BeginImport(c, s, b, m)
    \/ \E c \in ImportCalls : CommitImport(c)
    \/ \E c \in ImportCalls : FailImport(c)

ConfigSpec == ConfigInit /\ [][ConfigNext]_configVars

(***************************************************************************)
(* reconcileConfig, of the pair a store reports and the pair it meets.      *)
(***************************************************************************)
ReconcileConfig(app, hub) ==
    CASE app.version = hub.version /\ app.sum # NoSum /\ hub.sum # NoSum /\ app.sum # hub.sum -> "conflict"
      [] app.version = hub.version /\ ~(app.sum # NoSum /\ hub.sum # NoSum /\ app.sum # hub.sum) -> "current"
      [] app.version > hub.version -> "app-newer"
      [] app.version < hub.version -> "hub-newer"

(***************************************************************************)
(* Properties.                                                             *)
(***************************************************************************)
ConfigTypeOK ==
    /\ content \in [Stores -> Contents]
    /\ \A s \in Stores : meta[s].version \in Nat /\ meta[s].sum \in Contents \cup {NoSum}
    /\ whole \in [Stores -> BOOLEAN]
    /\ \A b \in mail : b.version \in Nat /\ b.sum \in Contents /\ b.content \in Contents
    /\ \A c \in ImportCalls : step[c].op \in {"none", "export", "import"}

\* Two applications whose content is what they imported, whole, are never
\* told that they agree while they differ (control.mjs compares the pair so
\* that they do not stay divergent "with no signal to either user").
\* Merges and edits are left out: they keep the checksum of the bundle.
DivergenceIsSignalled ==
    \A s, t \in Stores :
        whole[s] /\ whole[t] /\ ReconcileConfig(meta[s], meta[t]) = "current" => content[s] = content[t]
=============================================================================
