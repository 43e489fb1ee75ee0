------------------------------- MODULE Queries ------------------------------
(***************************************************************************)
(* One grid filter, three evaluations.  A tab that holds its rows filters   *)
(* them itself (filter.mjs, dataService.mjs); a tab that does not has the   *)
(* filter translated to operations and from there to an engine's triples    *)
(* and computed columns (ssrm.mjs, viewspec.mjs); a grid on the second      *)
(* engine has it translated by toViewSpec.ts.  A trader must not be able to *)
(* tell which of them is at work.                                          *)
(*                                                                         *)
(* A row has a text cell, a second text cell that only the quick filter     *)
(* looks at, a number and a soft-delete flag.  A text is the set of its     *)
(* pieces and how it is cased: contains, startsWith and endsWith differ in  *)
(* where they look and are one operation here, greaterThan stands for the   *)
(* four orders.  A blank is null (an empty string is not modelled).  Two    *)
(* conditions are joined on the text column only: an `or' of numbers is made*)
(* of comparisons this engine gets wrong (Rules has them).                  *)
(***************************************************************************)
EXTENDS Naturals, Sequences, FiniteSetsExt

CONSTANTS Texts,     \* the texts of the cells, [pieces, cased] records
          Needles,   \* the texts a trader types into a column's filter
          Searches,  \* and into the quick-filter box
          WordsOf,   \* the words that blanks part a search into
          Numbers,   \* the numbers of the cells and of the filters
          Null       \* a blank cell, and no filter

ASSUME QueryAssumption ==
    /\ IsFiniteSet(Texts) /\ Numbers \subseteq Nat
    /\ \A text \in Searches : \A word \in WordsOf[text] : word # Null /\ word.pieces \subseteq text.pieces
    /\ Null \notin Texts /\ Null \notin Needles /\ Null \notin Searches /\ Null \notin Numbers /\ Null \notin BOOLEAN

Columns == {"desk", "size"}
DeskCells == Texts \cup {Null}
SizeCells == Numbers \cup {Null}
Rows == [desk : DeskCells, trader : {Null} \cup Needles, size : SizeCells, deleted : BOOLEAN]

Fold(v) == v.pieces
Includes(v, w) == Fold(w) \subseteq Fold(v)

VARIABLES filterModel,   \* the grid's FilterModel: per column a model or Null
          quickText      \* what is in the quick-filter box, or Null
queryVars == <<filterModel, quickText>>

(***************************************************************************)
(* FilterModels.  A simple model is one condition; a combined one joins two *)
(* conditions of its column.                                               *)
(***************************************************************************)
Cond(kind, op, arg, to) == [kind |-> kind, op |-> op, arg |-> arg, to |-> to]
TextConds ==
    {Cond("text", op, n, Null) : op \in {"equals", "notEqual", "contains", "notContains"}, n \in Needles}
    \cup {Cond("text", op, Null, Null) : op \in {"blank", "notBlank"}}
NumberConds ==
    {Cond("number", op, n, Null) : op \in {"equals", "notEqual", "greaterThan"}, n \in Numbers}
    \cup {Cond("number", "inRange", lo, hi) : lo, hi \in Numbers}
    \cup {Cond("number", "blank", Null, Null)}
SetConds == {Cond("set", "in", vs, Null) : vs \in SUBSET DeskCells}

Simple(c) == [operator |-> "none", conditions |-> <<c>>]
Combined(op, c, d) == [operator |-> op, conditions |-> <<c, d>>]
Models(col) ==
    IF col = "size" THEN {Simple(c) : c \in NumberConds}
    ELSE {Simple(c) : c \in TextConds \cup SetConds}
         \cup {Combined(op, c, d) : op \in {"AND", "OR"}, c, d \in TextConds}

InSeq(s) == {s[i] : i \in DOMAIN s}

(***************************************************************************)
(* The tab that holds its rows: CsrmDataService over filter.mjs.            *)
(***************************************************************************)
Tests(op, v, arg, to) ==
    CASE op = "equals"      -> v = arg
      [] op = "notEqual"    -> v # arg
      [] op = "greaterThan" -> v > arg
      [] op = "inRange"     -> arg <= v /\ v <= to

TextTests(op, v, arg) ==
    CASE op = "equals"      -> Fold(v) = Fold(arg)
      [] op = "notEqual"    -> Fold(v) # Fold(arg)
      [] op = "contains"    -> Includes(v, arg)
      [] op = "notContains" -> ~Includes(v, arg)

\* A blank passes no condition but the blank checks and the negations; a set
\* is compared as it is written, and an empty one selects nothing.
ConditionPredicate(c, v) ==
    CASE c.kind = "set"                  -> v \in c.arg
      [] c.op \in {"blank", "notBlank"}  -> (v = Null) <=> (c.op = "blank")
      [] c.kind # "set" /\ c.op \notin {"blank", "notBlank"} ->
           IF v = Null THEN c.op \in {"notEqual", "notContains"}
           ELSE IF c.kind = "text" THEN TextTests(c.op, v, c.arg)
           ELSE Tests(c.op, v, c.arg, c.to)

ColumnPredicate(m, v) ==
    IF m.operator = "OR" THEN \E c \in InSeq(m.conditions) : ConditionPredicate(c, v)
                         ELSE \A c \in InSeq(m.conditions) : ConditionPredicate(c, v)

SearchColumns == {"desk", "trader"}
SearchPredicate(text, row) ==
    \E col \in SearchColumns : ConditionPredicate(Cond("text", "contains", text, Null), row[col])

RowPredicate(row) ==
    \A col \in Columns : filterModel[col] # Null => ColumnPredicate(filterModel[col], row[col])

\* The rows the tab shows, counts, exports and selects from.
CsrmSelects(row) ==
    /\ ~row.deleted
    /\ RowPredicate(row)
    /\ quickText # Null => SearchPredicate(quickText, row)

(***************************************************************************)
(* FilterModel to operations (ssrm.mjs): the operations of a query are all  *)
(* required, and an `or' among them holds alternatives.                     *)
(***************************************************************************)
Op(col, op, value, to) == [column |-> col, op |-> op, value |-> value, to |-> to]
OrOf(ops) == [column |-> Null, op |-> "or", value |-> ops, to |-> Null]

IgnoringCase == [op \in {"equals", "notEqual"} |-> IF op = "equals" THEN "equalsIgnoreCase" ELSE "notEqualIgnoreCase"]
OpOf(col, c) ==
    Op(col, IF c.kind = "text" /\ c.op \in DOMAIN IgnoringCase THEN IgnoringCase[c.op] ELSE c.op, c.arg, c.to)

\* Mutant of FilterModelToOps: every combined model is a conjunction.
FilterModelToOpsAnd(col, m) == [i \in DOMAIN m.conditions |-> OpOf(col, m.conditions[i])]
FilterModelToOps(col, m) ==
    LET parts == [i \in DOMAIN m.conditions |-> OpOf(col, m.conditions[i])]
    IN  IF m.operator = "OR" THEN <<OrOf(InSeq(parts))>> ELSE parts

\* The quick filter's pseudo-column: each condition names its own column.
SearchOp(text) == OrOf({Op(col, "contains", text, Null) : col \in SearchColumns})
SearchOps(text) == <<SearchOp(text)>>

ColumnOps(col) == IF filterModel[col] = Null THEN <<>> ELSE FilterModelToOps(col, filterModel[col])
QuickOps == IF quickText = Null THEN <<>> ELSE SearchOps(quickText)
ViewFilter == <<Op("deleted", "notEqual", TRUE, Null)>> \o ColumnOps("desk") \o ColumnOps("size") \o QuickOps

(***************************************************************************)
(* What an engine answers to one operation.  The first engine is not in     *)
(* this repository: this is the oracle that the parity harness calibrates   *)
(* against it (parity.mjs), with sets compared as they are written.  The    *)
(* second one's (query.rs) differs from it in what equals is to a blank.    *)
(***************************************************************************)
Spelled == [op \in {"equalsIgnoreCase", "notEqualIgnoreCase"} |->
                IF op = "equalsIgnoreCase" THEN "equals" ELSE "notEqual"]
EvalOp(o, v) ==
    LET op == IF o.op \in DOMAIN Spelled THEN Spelled[o.op] ELSE o.op IN
    CASE op = "in"                      -> v \in o.value
      [] op \in {"blank", "notBlank"}   -> (v = Null) <=> (op = "blank")
      [] op \notin {"in", "blank", "notBlank"} ->
           IF v = Null \/ o.value = Null THEN op \in {"notEqual", "notContains"} /\ v # o.value
           ELSE IF o.column \in SearchColumns THEN TextTests(op, v, o.value)
           ELSE Tests(op, v, o.value, o.to)

Matches(o, row) ==
    IF o.op = "or" THEN \E c \in o.value : EvalOp(c, row[c.column]) ELSE EvalOp(o, row[o.column])

(***************************************************************************)
(* Operations to a view of the first engine (viewspec.mjs): triples over    *)
(* columns and computed columns.  An `or' and a notContains are computed    *)
(* columns with a name each, and of two with one name the later expression  *)
(* is the one the engine is given.                                         *)
(***************************************************************************)
Computed(ops) == {i \in DOMAIN ops : ops[i].op \in {"or", "notContains"}}
ColumnName(ops, i) ==
    IF ops[i].op = "or" THEN <<"or", Cardinality({j \in 1..i : ops[j].op = "or"})>>
                        ELSE <<"nc", ops[i].column>>
Expressions(ops) ==
    [name \in {ColumnName(ops, i) : i \in Computed(ops)} |->
        ops[Max({i \in Computed(ops) : ColumnName(ops, i) = name})]]

EngineSelects(row) ==
    LET ops == ViewFilter
        computed == Expressions(ops)
    IN  \A i \in DOMAIN ops :
            Matches(IF i \in Computed(ops) THEN computed[ColumnName(ops, i)] ELSE ops[i], row)

(***************************************************************************)
(* The same filter for the second engine (toViewSpec.ts): a set of values   *)
(* becomes equalities, which fold the case of a text, and every word of the *)
(* quick filter is searched for by itself.                                  *)
(***************************************************************************)
NodesOf(col, c) ==
    LET eq(v) == Op(col, IF v = Null THEN "equals" ELSE "equalsIgnoreCase", v, Null)
        eqs == {eq(v) : v \in c.arg}
    IN  IF c.kind # "set" THEN {OpOf(col, c)}
        ELSE IF c.arg = {} THEN {Op(col, "in", {}, Null)}
        ELSE IF Cardinality(eqs) = 1 THEN eqs ELSE {OrOf(eqs)}

FilterModelToNodes(col, m) ==
    LET parts == UNION {NodesOf(col, c) : c \in InSeq(m.conditions)}
    IN  IF m.operator = "OR" THEN {OrOf(parts)} ELSE parts

PlaneNodes ==
    (UNION {FilterModelToNodes(col, filterModel[col]) : col \in {x \in Columns : filterModel[x] # Null}})
    \cup (IF quickText = Null THEN {} ELSE {SearchOp(word) : word \in WordsOf[quickText]})
PlaneSelects(row) == \A o \in PlaneNodes : Matches(o, row)

(***************************************************************************)
(* The user filters a column after another, and types in the box.          *)
(***************************************************************************)
QueryInit == filterModel = [col \in Columns |-> Null] /\ quickText = Null

SetFilter(col) ==
    /\ filterModel[col] = Null
    /\ \E m \in Models(col) : filterModel' = [filterModel EXCEPT ![col] = m]
    /\ UNCHANGED quickText

Search == /\ quickText = Null
          /\ quickText' \in Searches
          /\ UNCHANGED filterModel

QueryNext == Search \/ \E col \in Columns : SetFilter(col)
QuerySpec == QueryInit /\ [][QueryNext]_queryVars

(***************************************************************************)
(* Properties.                                                             *)
(***************************************************************************)
\* Filter and quick text are what the grid can hold.
QueriesTypeOK ==
    /\ \A col \in Columns : filterModel[col] \in {Null} \cup Models(col)
    /\ quickText \in {Null} \cup Searches

\* Two notContains on one column, both required.
ExcludesTwice ==
    LET m == filterModel["desk"]
    IN  /\ m # Null
        /\ m.operator = "AND"
        /\ \A c \in InSeq(m.conditions) : c.op = "notContains"

\* A set filter that the second engine's equalities do not select alike: one
\* with the blanks, or with one of two texts that differ in case only.
OpenSet ==
    LET m == filterModel["desk"]
        set == IF m # Null /\ m.conditions[1].kind = "set" THEN m.conditions[1].arg ELSE {}
    IN  \/ Null \in set
        \/ \E v \in set \ {Null}, w \in Texts \ set : Fold(v) = Fold(w)

\* A search of one word and nothing else.  Of several words the second engine
\* finds each in a cell of its own, the others only all of it in one cell.
SearchesOneWord == quickText # Null => WordsOf[quickText] = {quickText}

\* Whatever a user filters by, a grid that filters its own rows and grids on
\* either engine show the same rows (parity.mjs: a trader must not be able to
\* tell which one a blotter is running), but for the filters named above: of
\* a search of several words the second engine shows those rows, and others.
GridsSelectAlike ==
    \A row \in Rows :
        /\ ~ExcludesTwice => (CsrmSelects(row) <=> EngineSelects(row))
        /\ ~OpenSet /\ ~row.deleted =>
            /\ CsrmSelects(row) => PlaneSelects(row)
            /\ SearchesOneWord => (PlaneSelects(row) => CsrmSelects(row))
=============================================================================
