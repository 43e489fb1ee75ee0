------------------------------ MODULE HubQueries ------------------------------
(* The questions a grid without its rows asks the hub (hubDataService.mjs   *)
(* and hub.mjs, queries): counts, distinct values, aggregates, a row's      *)
(* rank and the whole result set.  Each opens a view for itself, reads      *)
(* it in one or more awaited steps, while the book goes on changing, and    *)
(* disposes of it whatever happened.  A grid that has its rows answers the  *)
(* same questions from them (dataService.mjs).                              *)
(*                                                                         *)
(* Rows have a key and one cell, its mark; views are sorted by mark, rows   *)
(* of one mark in the order of their keys.  What a filter selects is in     *)
(* Queries: a filter is here the set of marks it lets through.              *)
EXTENDS Naturals, Sequences, FiniteSets, FiniteSetsExt, Filtering

CONSTANTS
    BookKeys,        \* keys of the rows, numbers
    Marks,           \* values of the cell, numbers; Empty is the blank
    Empty,
    BatchRows,       \* rows a block of rank and scan holds
    DistinctLimit,   \* the distinct values a set filter asks for
    SearchLimit,     \* the values a search select asks for
    MaxBookMoves     \* bound: changes of the book

ASSUME HubQueriesAssumption ==
    /\ BookKeys \subseteq Nat /\ IsFiniteSet(BookKeys)
    /\ Marks \subseteq Nat /\ IsFiniteSet(Marks) /\ Empty \in Marks
    /\ MaxBookMoves \in Nat
    /\ BatchRows \in Nat \ {0} /\ DistinctLimit \in Nat \ {0} /\ SearchLimit \in Nat \ {0}

VARIABLES
    book,       \* the table: each key's row, or NotInBook
    hasEntry,   \* the datasource has an entry: somebody is subscribed
    asked,      \* the call under way, or NoQuestion
    transient,  \* views the engine holds for a question
    seen,       \* the books there were during the call (ghost)
    bookMoves
queryCallVars == <<book, hasEntry, asked, transient, seen, bookMoves>>

NotInBook == [mark |-> Empty, deleted |-> TRUE, there |-> FALSE]
BookRows == [mark : Marks, deleted : BOOLEAN, there : {TRUE}] \cup {NotInBook}
Pending == [is |-> "pending"]
Failed == [is |-> "error"]
Gives(v) == [is |-> "result", value |-> v]
NoQuestion == [kind |-> "none"]
CallStages == {"opening", "counting", "reading", "closing"}

\* A question and where its call is: the rows counted, the next block, what
\* was found so far.
Asking(kind, filter, arg) ==
    [kind |-> kind, filter |-> filter, arg |-> arg,
     stage |-> "opening", total |-> 0, start |-> 0, found |-> <<>>, reply |-> Pending]
Questions ==
    {Asking(kind, f, 0) : kind \in {"rowCount", "distinctValues", "aggregates", "scan"}, f \in {Marks, Marks \ {Empty}}}
    \cup {Asking("rank", f, k) : f \in {Marks, Marks \ {Empty}}, k \in BookKeys}
    \cup {Asking("searchValues", Marks, 0)}

-----------------------------------------------------------------------------
(* Views of a book.                                                         *)

Before(b, k, l) == b[k].mark < b[l].mark \/ (b[k].mark = b[l].mark /\ k < l)
RowsIn(b, keys) == Ranked(keys, {p \in keys \X keys : Before(b, p[1], p[2])})
MarksOf(b, keys) == {b[k].mark : k \in keys}
InOrder(marks) == Ranked(marks, {p \in marks \X marks : p[1] < p[2]})
FirstOf(seq, n) == SubSeq(seq, 1, Min({n, Len(seq)}))
Searched == Marks \ {Empty}                \* the values with the prefix

(* The answers of a tab from the rows it has: soft-deleted rows are no part *)
(* of the data.  (What it makes of all the marks, a total or a mean, is left*)
(* out: the hub's answer is of another kind.)                               *)
CsrmKeys(b, q) == {k \in BookKeys : b[k].there /\ ~b[k].deleted /\ b[k].mark \in q.filter}
RankIn(b, keys, k) == IF k \in keys THEN Gives(Cardinality({l \in keys : Before(b, l, k)})) ELSE Gives("none")
CsrmAnswers(b, q) ==
    LET keys == CsrmKeys(b, q) IN
    CASE q.kind = "rowCount"       -> {Gives(Cardinality(keys))}
      [] q.kind = "distinctValues" -> {Gives(InOrder(MarksOf(b, keys)))}
      [] q.kind = "scan"           -> {Gives(RowsIn(b, keys))}
      [] q.kind = "rank"           -> {RankIn(b, keys, q.arg)}
      [] q.kind = "searchValues"   ->
           LET hits == MarksOf(b, keys) \cap Searched
           IN  {Gives(InOrder(some)) : some \in kSubset(Min({SearchLimit, Cardinality(hits)}), hits)}

(* What the engine is asked for.  A rank is sent with the grid's filter     *)
(* model as it is, which is no list of operations and filters nothing.      *)
FilterSent(q) == IF q.kind = "rank" THEN Marks ELSE q.filter
ViewKeys(b, q) == {k \in BookKeys : b[k].there /\ b[k].mark \in FilterSent(q)}

\* The group rows of a view by mark; the first row is the root.
Root == "root"
GroupRows(b, q) == <<Root>> \o InOrder(MarksOf(b, ViewKeys(b, q)))
DistinctRead(b, q, limit) == Tail(FirstOf(GroupRows(b, q), limit + 1))
SearchRead(b, q) ==
    FirstOf(KeepIn(DistinctRead(b, q, Cardinality(Marks)), Searched), SearchLimit)

-----------------------------------------------------------------------------
HubQueriesInit ==
    /\ book \in [BookKeys -> BookRows]
    /\ hasEntry = TRUE /\ asked = NoQuestion
    /\ transient = 0 /\ seen = {} /\ bookMoves = 0

(* The upstream (external): a row comes, changes, or is soft-deleted.       *)
BookMoves(k) ==
    /\ hasEntry /\ bookMoves < MaxBookMoves
    /\ \E row \in BookRows \ {NotInBook, book[k]} :
          /\ row.deleted => book[k].there
          /\ book' = [book EXCEPT ![k] = row]
    /\ bookMoves' = bookMoves + 1
    /\ seen' = IF asked = NoQuestion THEN seen ELSE seen \cup {book'}
    /\ UNCHANGED <<hasEntry, asked, transient>>

(* Hub.teardown: the entry goes and with it the table.                      *)
EntryGoes ==
    /\ hasEntry
    /\ hasEntry' = FALSE
    /\ UNCHANGED <<book, asked, transient, seen, bookMoves>>

(* entryFor, which refuses where nobody is subscribed; createView is awaited.*)
AskHub(q) ==
    /\ asked = NoQuestion /\ hasEntry
    /\ asked' = q /\ seen' = {book}
    /\ UNCHANGED <<book, hasEntry, transient, bookMoves>>

Counts(q) == q.kind \in {"rank", "scan"}
ViewOpens ==
    /\ asked # NoQuestion /\ asked.stage = "opening" /\ hasEntry
    /\ transient' = transient + 1
    /\ asked' = [asked EXCEPT !.stage = IF Counts(asked) THEN "counting" ELSE "reading"]
    /\ UNCHANGED <<book, hasEntry, seen, bookMoves>>

(* createView rejects: there is no view to dispose of.                      *)
ViewFails ==
    /\ asked # NoQuestion /\ asked.stage = "opening"
    /\ asked' = NoQuestion /\ seen' = {}
    /\ UNCHANGED <<book, hasEntry, transient, bookMoves>>

(* withView: the view is disposed of before the answer goes out.            *)
Closing(reply) == [asked EXCEPT !.stage = "closing", !.reply = reply]

(* rank and scan count the rows once, before the first block.               *)
RowsCounted ==
    /\ asked # NoQuestion /\ asked.stage = "counting" /\ hasEntry
    /\ LET n == Cardinality(ViewKeys(book, asked)) IN
       asked' = IF n > 0 THEN [asked EXCEPT !.stage = "reading", !.total = n]
                ELSE Closing(Gives(IF asked.kind = "rank" THEN "none" ELSE <<>>))
    /\ UNCHANGED <<book, hasEntry, transient, seen, bookMoves>>

(* rowCount, distinctValues, searchValues, aggregates: one read.  The view  *)
(* of aggregates is not grouped and not sorted: its first row is one of the *)
(* rows, and the answer is what that row has.                               *)
FirstMarks(b, q) == IF ViewKeys(b, q) = {} THEN {"none"} ELSE MarksOf(b, ViewKeys(b, q))
ReadOnce ==
    /\ asked # NoQuestion /\ asked.stage = "reading" /\ ~Counts(asked) /\ hasEntry
    /\ \E first \in FirstMarks(book, asked) :
          asked' = Closing(Gives(
              CASE asked.kind = "rowCount"       -> Cardinality(ViewKeys(book, asked))
                [] asked.kind = "distinctValues" -> DistinctRead(book, asked, DistinctLimit)
                [] asked.kind = "searchValues"   -> SearchRead(book, asked)
                [] asked.kind = "aggregates"     -> first))
    /\ UNCHANGED <<book, hasEntry, transient, seen, bookMoves>>

\* The rows of the next block.
NextBlock ==
    LET rows == RowsIn(book, ViewKeys(book, asked))
        last == Min({asked.start + BatchRows, asked.total, Len(rows)})
    IN  SubSeq(rows, asked.start + 1, last)
AfterBlock(found) ==
    IF asked.start + BatchRows < asked.total
    THEN [asked EXCEPT !.start = @ + BatchRows, !.found = found]
    ELSE Closing(Gives(IF asked.kind = "scan" THEN found ELSE "none"))

\* Mutant of RankAt: the rank in the block.
RankInBlock(i) == i - 1
RankAt(i) == asked.start + i - 1

(* rank: the row's place, counted from zero, once a block has it.           *)
RankReads ==
    /\ asked # NoQuestion /\ asked.kind = "rank" /\ asked.stage = "reading" /\ hasEntry
    /\ asked' = IF \E i \in DOMAIN NextBlock : NextBlock[i] = asked.arg
                THEN Closing(Gives(RankAt(CHOOSE i \in DOMAIN NextBlock : NextBlock[i] = asked.arg)))
                ELSE AfterBlock(<<>>)
    /\ UNCHANGED <<book, hasEntry, transient, seen, bookMoves>>

\* What a tab that exports, copies or charts has after a block.
Collected(block) == asked.found \o block

(* scan: a block goes out at once, and the tab puts it behind the others.   *)
ScanReads ==
    /\ asked # NoQuestion /\ asked.kind = "scan" /\ asked.stage = "reading" /\ hasEntry
    /\ asked' = AfterBlock(Collected(NextBlock))
    /\ UNCHANGED <<book, hasEntry, transient, seen, bookMoves>>

(* A read rejects, as it does once the table is gone.                       *)
ReadFails ==
    /\ asked # NoQuestion /\ asked.stage \in {"counting", "reading"}
    /\ asked' = Closing(Failed)
    /\ UNCHANGED <<book, hasEntry, transient, seen, bookMoves>>

(* view.delete, which may fail unheard, and then the answer.                *)
ViewCloses ==
    /\ asked # NoQuestion /\ asked.stage = "closing"
    /\ transient' = transient - 1
    /\ asked' = NoQuestion /\ seen' = {}
    /\ UNCHANGED <<book, hasEntry, bookMoves>>

HubQueriesNext ==
    \/ \E k \in BookKeys : BookMoves(k)
    \/ \E q \in Questions : AskHub(q)
    \/ ViewOpens \/ ViewFails \/ RowsCounted \/ ReadOnce \/ RankReads \/ ScanReads
    \/ ReadFails \/ ViewCloses \/ EntryGoes

HubQueriesSpec == HubQueriesInit /\ [][HubQueriesNext]_queryCallVars

-----------------------------------------------------------------------------
(* Properties.                                                              *)

HubQueriesTypeOK ==
    /\ book \in [BookKeys -> BookRows]
    /\ hasEntry \in BOOLEAN /\ transient \in Nat /\ bookMoves \in 0 .. MaxBookMoves
    /\ asked # NoQuestion => asked.stage \in CallStages /\ asked.start < asked.total + BatchRows

\* The questions and tables of which the answers compare: no aggregates, of
\* which the hub answers one row's, no soft-deleted rows, which the hub counts
\* and a tab does not, no more values than were asked for, and for a rank
\* nothing filtered out.
Comparable(b, q) ==
    /\ q.kind # "aggregates"
    /\ \A k \in BookKeys : b[k].there => ~b[k].deleted
    /\ q.kind = "distinctValues" => Cardinality(MarksOf(b, CsrmKeys(b, q))) <= DistinctLimit
    /\ q.kind = "rank" => CsrmKeys(b, q) = ViewKeys(b, q)

(* A hub's answer is what a tab with the rows would have said of the table  *)
(* at some moment of the call; a rank or a scan of several blocks, of which *)
(* the table may change between, only where it did not.  And no view is     *)
(* left open but that of the call under way.                                *)
HubAnswersAsTabs ==
    /\ transient = IF asked # NoQuestion /\ asked.stage # "opening" THEN 1 ELSE 0
    /\ asked # NoQuestion /\ asked.stage = "closing" /\ asked.reply # Failed =>
        LET q == asked
            mayTear == Counts(q) /\ Cardinality(seen) > 1
        IN  (\A b \in seen : Comparable(b, q)) /\ ~mayTear =>
                \E b \in seen : q.reply \in CsrmAnswers(b, q)
=============================================================================
