------------------------------ MODULE Normalizer ------------------------------
(***************************************************************************)
(* From an upstream's nested messages to the rows of a flat table:          *)
(* normalize.mjs flattens, keys and flags a message, the hub's onRows drops *)
(* and counts what it cannot normalise, and the actor's flush merges a      *)
(* batch by key and writes it in blocks of rows with the same columns.      *)
(*                                                                         *)
(* A message names what it is (insert, update or delete), the two parts of  *)
(* its key, and a body: values at some of the paths of the feed's document. *)
(* A path is a sequence of field names, a name a sequence of pieces (names  *)
(* may contain the separator), a column the sequence of all its pieces, so  *)
(* that distinct paths can flatten to one column, as they can in the code.  *)
(* The states of the actor and its queue are in DatasourcePipeline.         *)
(***************************************************************************)
EXTENDS Naturals, Sequences, SequencesExt, TLC

CONSTANTS
    Paths,        \* the paths of the feed's document
    ArrayPaths,   \* those that hold an array
    Strategies,   \* flatten.arrays: how it is flattened
    Coerced,      \* columns with a numeric companion
    MaxDepth,     \* flatten.maxDepth
    Scalars,      \* the values of the other paths
    Blank,        \* an explicit null
    BookIds,      \* the keys of the book: pairs of parts
    MaxMessages   \* bound: messages of the upstream

Column(path) == FlattenSeq(path)

ASSUME NormalizerAssumption ==
    /\ \A p, q \in Paths : p # q => Column(p) # Column(q)
    /\ ArrayPaths \subseteq Paths
    /\ Blank \in Scalars
    /\ Strategies \subseteq {"index-pin", "aggregate", "json-string", "explode"}

VARIABLES
    strategy,     \* of the arrays of this feed
    dedupe,       \* batch.dedupeByKey
    upstream,     \* the upstream's document of each key, or Gone
    queue,        \* TableActor.queue: normalised rows
    table,        \* the engine's row of each key, or Gone
    malformed,    \* messages the hub dropped and counted
    sentBad,      \* messages no normaliser could take (ghost)
    messages
normVars == <<strategy, dedupe, upstream, queue, table, malformed, sentBad, messages>>

Gone == <<>>
NoPart == <<"missing">>
Sep == "U+0001"
DeletedColumn == <<"deleted">>
Lists == UNION {[1..n -> Scalars \ {Blank}] : n \in 0..2}
ValuesAt(path) == IF path \in ArrayPaths THEN Lists ELSE Scalars

-----------------------------------------------------------------------------
(* normalize.mjs                                                            *)

\* The cells of one path: none below the depth limit, and for an array what its
\* strategy makes of it.  The rows of an exploded array are dropped by the hub.
CellsOf(path, v) ==
    IF Len(path) > MaxDepth THEN <<>>
    ELSE IF path \notin ArrayPaths THEN Column(path) :> v
    ELSE CASE strategy = "index-pin"   -> [c \in {Append(Column(path), i) : i \in DOMAIN v} |-> v[Last(c)]]
           [] strategy = "aggregate"   -> Append(Column(path), "count") :> Len(v)
           [] strategy = "json-string" -> Column(path) :> v
           [] strategy = "explode"     -> <<>>

\* Only what the message contains: absent is not null.
Flatten(body) ==
    LET columns == UNION {DOMAIN CellsOf(p, body[p]) : p \in DOMAIN body}
    IN  [c \in columns |->
            LET p == CHOOSE q \in DOMAIN body : c \in DOMAIN CellsOf(q, body[q])
            IN  CellsOf(p, body[p])[c]]

Companion(c) == Append(c, "num")
Decimal(v) == IF v = Blank THEN Blank ELSE <<"decimal", v>>
ApplyCoercions(row) ==
    [c \in {Companion(d) : d \in Coerced \cap DOMAIN row} |-> Decimal(row[Front(c)])] @@ row

\* Mutant of EncodeKey: the separator is lost.
EncodeKeyUnseparated(parts) ==
    IF NoPart \in {parts[1], parts[2]} THEN NoPart ELSE parts[1] \o parts[2]
EncodeKey(parts) ==
    IF NoPart \in {parts[1], parts[2]} THEN NoPart ELSE parts[1] \o <<Sep>> \o parts[2]

\* An insert clears the soft-delete flag, a delete sets it, an update leaves it.
Flag(op) == CASE op = "insert" -> DeletedColumn :> FALSE
              [] op = "delete" -> DeletedColumn :> TRUE
              [] op = "update" -> <<>>

Ops == {"insert", "update", "delete"}
Normalizable(m) == m.op \in Ops /\ EncodeKey(m.parts) # NoPart
Normalize(m) == [key |-> EncodeKey(m.parts), cells |-> Flag(m.op) @@ ApplyCoercions(Flatten(m.body))]

-----------------------------------------------------------------------------
(* table_actor.mjs                                                          *)

Keys == {EncodeKey(parts) : parts \in BookIds}

\* A later image of a row over an earlier one, in the batch as in the engine.
Over(row, old) == row @@ old

MergeBatch(rows) ==
    LET keys == SetToSeq({rows[i].key : i \in DOMAIN rows})
        merged(k) == FoldLeft(LAMBDA acc, r : IF r.key = k THEN Over(r.cells, acc) ELSE acc, <<>>, rows)
    IN  [i \in DOMAIN keys |-> [key |-> keys[i], cells |-> merged(keys[i])]]

\* The rows in the order the engine gets them: block by block, the blocks in
\* the order in which their sets of columns first occur.
ToColumnar(rows) ==
    LET sigs == FoldLeft(LAMBDA acc, r : IF Contains(acc, DOMAIN r.cells) THEN acc
                                         ELSE Append(acc, DOMAIN r.cells), <<>>, rows)
    IN  FlattenSeq([i \in DOMAIN sigs |-> SelectSeq(rows, LAMBDA r : DOMAIN r.cells = sigs[i])])

Updated(t, rows) == FoldLeft(LAMBDA acc, r : [acc EXCEPT ![r.key] = Over(r.cells, @)], t, rows)

-----------------------------------------------------------------------------
(* The upstream (external), whose messages arrive in order.                 *)

NormalizerInit ==
    /\ strategy \in Strategies /\ dedupe \in BOOLEAN
    /\ upstream = [b \in BookIds |-> Gone]
    /\ queue = <<>>
    /\ table = [k \in Keys |-> Gone]
    /\ malformed = 0 /\ sentBad = 0 /\ messages = 0

(* onRows: a malformed row costs that row and no other.                     *)
OnRows(m) ==
    IF Normalizable(m)
    THEN queue' = Append(queue, Normalize(m)) /\ UNCHANGED malformed
    ELSE malformed' = malformed + 1 /\ UNCHANGED queue

Says(op, b, body) ==
    /\ messages < MaxMessages
    /\ messages' = messages + 1
    /\ OnRows([op |-> op, parts |-> b, body |-> body])
    /\ UNCHANGED <<strategy, dedupe, table>>

\* A new document, of all paths or of one.
InsertDoc(b, v) ==
    /\ upstream[b] = Gone
    /\ \E ps \in {Paths} \cup {{p} : p \in Paths} :
          LET doc == [p \in ps |-> IF p \in ArrayPaths THEN <<v, v>> ELSE v]
          IN  upstream' = [upstream EXCEPT ![b] = doc] /\ Says("insert", b, doc)
    /\ UNCHANGED sentBad

PatchDoc(b, path) ==
    /\ upstream[b] # Gone
    /\ \E v \in ValuesAt(path) :
          /\ upstream' = [upstream EXCEPT ![b] = (path :> v) @@ @]
          /\ Says("update", b, path :> v)
    /\ UNCHANGED sentBad

DeleteDoc(b) ==
    /\ upstream[b] # Gone
    /\ upstream' = [upstream EXCEPT ![b] = Gone]
    /\ Says("delete", b, <<>>)
    /\ UNCHANGED sentBad

\* A message without its key, or with an op the feed's map does not know.
Garbage(b) ==
    /\ \/ Says("update", <<b[1], NoPart>>, <<>>)
       \/ Says("unmapped", b, <<>>)
    /\ sentBad' = sentBad + 1
    /\ UNCHANGED upstream

FlushRows ==
    /\ queue # <<>>
    /\ queue' = <<>>
    /\ table' = Updated(table, ToColumnar(IF dedupe THEN MergeBatch(queue) ELSE queue))
    /\ UNCHANGED <<strategy, dedupe, upstream, malformed, sentBad, messages>>

NormalizerNext ==
    \/ \E b \in BookIds : DeleteDoc(b) \/ Garbage(b)
    \/ \E b \in BookIds, v \in Scalars \ {Blank} : InsertDoc(b, v)
    \/ \E b \in BookIds, p \in Paths : PatchDoc(b, p)
    \/ FlushRows

NormalizerSpec == NormalizerInit /\ [][NormalizerNext]_normVars

-----------------------------------------------------------------------------
(* Properties.                                                              *)

NormalizerTypeOK ==
    /\ strategy \in Strategies /\ dedupe \in BOOLEAN
    /\ DOMAIN upstream = BookIds /\ DOMAIN table = Keys
    /\ \A b \in BookIds : DOMAIN upstream[b] \subseteq Paths
    /\ \A i \in DOMAIN queue : queue[i].key \in Keys
    /\ malformed \in 0 .. MaxMessages /\ messages \in 0 .. MaxMessages

Visible(k) == table[k] # Gone /\ ~table[k][DeletedColumn]

\* The table shows a document: every cell its paths flatten to, and the
\* numeric companion of every coerced one.
Shows(k, doc) ==
    LET cells == Flatten(doc)
    IN  /\ \A c \in DOMAIN cells : c \in DOMAIN table[k] /\ table[k][c] = cells[c]
        /\ \A c \in Coerced \cap DOMAIN cells : table[k][Companion(c)] = Decimal(cells[c])

(* When everything is written, the visible rows of the table are the        *)
(* upstream's documents, each with the values it says, however messages     *)
(* were partial, null, deletes or reinserts and wherever the batches were   *)
(* cut; and what was dropped is what nobody could have normalised.  Of a    *)
(* feed that turns dedupeByKey off this is not so: its blocks reorder the   *)
(* images of a row.  Cells a document no longer has are not looked at: the  *)
(* pinned tail of an array that shrank and the optional fields of a         *)
(* document that came back stay as they were.                               *)
TableFollowsUpstream ==
    queue = <<>> /\ dedupe =>
        /\ malformed = sentBad
        /\ \A b \in BookIds :
              LET k == EncodeKey(b)
              IN  /\ Visible(k) <=> upstream[b] # Gone
                  /\ upstream[b] # Gone => Shows(k, upstream[b])
=============================================================================
