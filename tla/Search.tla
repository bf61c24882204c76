-------------------------------- MODULE Search --------------------------------
(***************************************************************************)
(* A search of the live database while publication goes on: the paging     *)
(* loops of liveFindCommand (cmd/segrob/expr.go) and of the query REPL     *)
(* (query/query.go) over DocStore.FindCandidates.                          *)
(*                                                                         *)
(* FindCandidates runs two statements outside any transaction, the first   *)
(* for a page of rowids and the second for their rows, so it is two steps  *)
(* and the tables can change in between.                                   *)
(*                                                                         *)
(* Abstractions: an expression is the set of sentences that carry all its  *)
(* lemmas, and a matcher the set of sentences it accepts; a sentence is a  *)
(* payload and an index in it.  A row is indexed once for a lemma, as long *)
(* as one command at a time works on a document.                           *)
(***************************************************************************)
EXTENDS Publication, SequencesExt

CONSTANTS
    Requests,   \* what users search for
    PageSize,   \* candidates per FindCandidates: 1000 for find, 500 for query
    Budget,     \* candidates per expression of a query: 2000
    MaxStarted  \* bound: commands that start during a search

TextSentences == UNION {{<<v, i>> : i \in SentenceIds(v)} : v \in Nlps}

\* exprs has one entry per FindCandidates loop, none for an expression without
\* lemmas; limit = 0 is no limit.
Request == [client : {"find", "query"}, exprs : Seq(SUBSET TextSentences),
            accepts : SUBSET TextSentences, labels : SUBSET Labels, limit : Nat]

ASSUME SearchAssumption ==
    /\ Requests \subseteq Request
    /\ \A q \in Requests : q.client = "find" => Len(q.exprs) <= 1
    /\ PageSize \in Nat \ {0}
    /\ Budget \in Nat \ {0}
    /\ MaxStarted \in Nat

VARIABLES
    find,    \* the search: its request, its progress and its results
    steady,  \* history: the rows it is to find that have been there all along
    wasLive, \* history: the documents that were live at some time during it
    removed, \* history: "live" if live rows were taken down during it, "page" if
             \*   rows were deleted between the two statements for a page
    started  \* the commands that have started during it

histories == <<steady, wasLive, removed, started>>
searchVars == <<vars, find, histories>>

Hit == [row : Rowids, sentence : Sentence]

Idle == [pc |-> "idle", req |-> {}, expr |-> 1, ids |-> {}, after |-> 0,
         page |-> {}, fetched |-> 0, results |-> <<>>, cut |-> FALSE]

-----------------------------------------------------------------------------
(* What the tables hold for the search                                     *)

Text(r) == <<sentences[r].nlp, sentences[r].sid>>

\* A wrong variant, for mutation: sentences are looked through without the index.
IndexedByText(r, expr) == Text(r) \in expr

\* The lemma index has the lemmas of expr for row r.
Indexed(r, expr) == \E v \in Nlps : /\ sentence_lemmas[r][v] > 0
                                    /\ <<v, sentences[r].sid>> \in expr

\* buildCandidateQuery, without the cursor and the limit.
CandidateRows(expr, ids) ==
    {r \in DOMAIN sentences : Indexed(r, expr)
                           /\ \A l \in ids : sentence_labels[r][l] > 0}

\* A wrong variant, for mutation: ORDER BY sentence_rowid DESC.
LastOf(n, S) == {r \in S : Cardinality({q \in S : q > r}) < n}

\* ORDER BY sentence_rowid ASC LIMIT n
FirstOf(n, S) == {r \in S : Cardinality({q \in S : q < r}) < n}

Exprs == find.req.exprs

\* The matches of an expression: what the search is to report of it, and in all.
WantedBy(expr) == {[row |-> r, sentence |-> sentences[r]] :
    r \in {q \in CandidateRows(expr, find.ids) : Text(q) \in find.req.accepts}}
Wanted == UNION {WantedBy(e) : e \in Range(Exprs)}

LiveDocs == {d \in Docs : HasLemmaOptimization(d)}

-----------------------------------------------------------------------------
\* The history of the search begins when it has resolved its labels.
Witness ==
    CASE find'.pc \in {"idle", "labels"} ->
            steady' = {} /\ wasLive' = {} /\ removed' = {} /\ started' = 0
      [] find.pc = "labels" /\ find'.pc # "labels" ->
            steady' = Wanted' /\ wasLive' = LiveDocs' /\ removed' = {} /\ started' = 0
      [] OTHER ->
            /\ steady' = steady \cap Wanted'
            /\ wasLive' = wasLive \cup LiveDocs'
            /\ removed' = removed \cup
                {x \in {"live"} : ~(LemmaRows \subseteq LemmaRows')} \cup
                {x \in {"page"} : find.pc = "fetch"
                                   /\ ~(DOMAIN sentences \subseteq DOMAIN sentences')}
            /\ started' = IF \E p \in Procs : ~Active(p) /\ Active(p)'
                          THEN started + 1 ELSE started
            /\ started' <= MaxStarted

StartSearch ==
    /\ find.pc = "idle"
    /\ UNCHANGED vars
    /\ \E q \in Requests : find' = [find EXCEPT !.pc = "labels", !.req = q]
    /\ Witness

\* A name that is not in the dictionary is dropped.
ResolveLabels ==
    /\ find.pc = "labels"
    /\ find' = [find EXCEPT !.ids = find.req.labels \cap labels,
                            !.pc = IF Exprs = <<>> THEN "done" ELSE "select"]
    /\ UNCHANGED vars
    /\ Witness

\* A wrong variant, for mutation: the loop begins again.
NextExprRestarts(f) == [f EXCEPT !.pc = "select", !.after = 0, !.page = {}]

\* find ends; query goes on to its next expression.
NextExpr(f) == IF f.expr < Len(Exprs)
               THEN [f EXCEPT !.pc = "select", !.expr = @ + 1, !.after = 0,
                              !.page = {}, !.fetched = 0]
               ELSE [f EXCEPT !.pc = "done", !.page = {}]

\* A wrong variant, for mutation: the row of the cursor is read again.
RowsFromCursor(expr) ==
    {r \in CandidateRows(expr, find.ids) : r >= find.after}

RowsAfterCursor(expr) ==
    {r \in CandidateRows(expr, find.ids) : r > find.after}

\* The first statement of FindCandidates.
SelectPage ==
    /\ find.pc = "select"
    /\ LET page == FirstOf(PageSize, RowsAfterCursor(Exprs[find.expr]))
       IN find' = IF page = {} THEN NextExpr(find)
                  ELSE [find EXCEPT !.pc = "fetch", !.page = page]
    /\ UNCHANGED vars
    /\ Witness

\* A wrong variant, for mutation: the cursor passes a row nobody has seen.
CursorPastRow(rows) == Max(rows \cup {find.after}) + 1

\* The largest rowid handed to the callback.
NewCursor(rows) == Max(rows \cup {find.after})

\* ORDER BY rowid
InOrder(rows) ==
    [i \in 1 .. Cardinality(rows) |->
        CHOOSE r \in rows : Cardinality({q \in rows : q < r}) = i - 1]

\* The matches among the rows, in the order of the table.
Hits(rows) ==
    LET hits == InOrder({r \in rows : Text(r) \in find.req.accepts})
    IN [i \in DOMAIN hits |-> [row |-> hits[i], sentence |-> sentences[hits[i]]]]

\* A wrong variant, for mutation: one result too many before it stops.
FullLate(f) == IF f.req.client = "find"
               THEN f.req.limit > 0 /\ Len(f.results) > f.req.limit
               ELSE f.fetched >= Budget

\* find stops at its limit of results, query at its budget of candidates; both
\* look only between two pages.
Full(f) == IF f.req.client = "find"
           THEN f.req.limit > 0 /\ Len(f.results) >= f.req.limit
           ELSE f.fetched >= Budget

\* The second statement, its callbacks, and the end of the loop body: a cursor
\* that has not moved ends the loop.
FetchPage ==
    /\ find.pc = "fetch"
    /\ LET rows == find.page \cap DOMAIN sentences
           f == [find EXCEPT !.results = @ \o Hits(rows),
                             !.fetched = @ + Cardinality(rows),
                             !.after = NewCursor(rows),
                             !.pc = "select", !.page = {}]
       IN find' = IF f.after = find.after THEN NextExpr(f)
                  ELSE IF Full(f) THEN [NextExpr(f) EXCEPT !.cut = TRUE]
                  ELSE f
    /\ UNCHANGED vars
    /\ Witness

Report ==
    /\ find.pc = "done"
    /\ find' = Idle
    /\ UNCHANGED vars
    /\ Witness

FindStep == ResolveLabels \/ SelectPage \/ FetchPage

\* The other commands run on.
Publishing == Next /\ UNCHANGED find /\ Witness

-----------------------------------------------------------------------------
SearchInit ==
    /\ Init
    /\ find = Idle
    /\ steady = {}
    /\ wasLive = {}
    /\ removed = {}
    /\ started = 0

SearchNext == StartSearch \/ FindStep \/ Report \/ Publishing

\* A search is a loop of its own process: the scheduler lets it go on.
SearchSpec == SearchInit /\ [][SearchNext]_searchVars /\ WF_searchVars(FindStep)

-----------------------------------------------------------------------------
(* Properties                                                              *)

Found == Range(find.results)

\* A find reports no row twice, and reports them in the order of the table,
\* however the tables change between its pages.
FindsEachOnce ==
    find.pc # "idle" /\ find.req.client = "find" =>
        \A i, j \in DOMAIN find.results :
            i < j => find.results[i].row < find.results[j].row

\* A search that was not cut short has found all that was there for it to find
\* from its beginning to its end: no page boundary loses a row, whatever comes
\* and goes.  Only a removal between the two statements of FindCandidates can end
\* it early: the page comes back empty and the cursor stays where it was.
FindMissesNothing ==
    find.pc = "done" /\ ~find.cut /\ "page" \notin removed =>
        steady \subseteq Found

\* An expression of a search that was not cut short finds all of a document or
\* nothing, even of one that goes live between two of its pages: as long as nothing
\* is taken down and no rowid is used again, new rows come behind the cursor of no
\* search.  (A query begins anew with each expression, so the document may have
\* come too late for the expressions before that one.  A publish-label, which takes
\* the rows of a live document off the label index for a while, is left out.)
FindsWholeDocuments ==
    find.pc = "done" /\ ~find.cut /\ "live" \notin removed =>
        \A h \in Found : \E e \in Range(Exprs) :
            /\ h \in WantedBy(e)
            /\ \A w \in WantedBy(e) : w.sentence.doc = h.sentence.doc => w \in Found

\* doc/staged-insertion-deletion.md:145: before the lemma index is written "no
\* FindCandidates query can find the new sentences"; the second statement of
\* FindCandidates reads by rowid, so it takes a removal between the two.
FindsOnlyLive ==
    "page" \notin removed =>
        \A h \in Found : h.sentence.doc \in wasLive

\* Where a search stops.  A find that was cut short, with more to find behind it,
\* has as many results as --limit asks for.  It may have more of them: the limit of
\* find and the budget of query are looked at between two pages, so that less than
\* a page comes on top of either.  This is not the "Maximum number of results to
\* return" of parse_live.go:328.
FindNearsLimit ==
    find.pc # "idle" =>
        IF find.req.client = "query" THEN find.fetched < Budget + PageSize
        ELSE /\ find.cut => find.req.limit > 0 /\ Len(find.results) >= find.req.limit
             /\ find.req.limit > 0 => Len(find.results) < find.req.limit + PageSize

\* A search that has begun ends: each page moves the cursor.
FindEnds == find.pc = "select" ~> find.pc = "done"
=============================================================================
