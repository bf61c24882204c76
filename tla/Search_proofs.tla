----------------------------- MODULE Search_proofs -----------------------------
(***************************************************************************)
(* Proofs about Search: what a search reports, it reports once and in      *)
(* order, was live, and is hardly more than was asked for, for any         *)
(* requests, whatever is published and unpublished meanwhile, by any       *)
(* number of commands, even two on the same document.  It misses nothing   *)
(* that was there all the time, and finds all of a document or nothing.    *)
(***************************************************************************)
EXTENDS Search, Publication_proofs, FiniteSetTheorems, SequenceTheorems

-----------------------------------------------------------------------------
(* Rows in order                                                           *)

\* How many rows of S come before row r.
Before(S, r) == Cardinality({q \in S : q < r})

\* Every set of rows is finite, and so is all that is counted in it.
LEMMA RowsAreFinite ==
    ASSUME NEW S \in SUBSET Rowids
    PROVE  /\ IsFiniteSet(S) /\ Cardinality(S) \in Nat
           /\ \A r : Before(S, r) \in Nat
           /\ \A r \in S : Before(S, r) < Cardinality(S)
<1>1. IsFiniteSet(S)
  <2>1. IsFiniteSet(Rowids)
    BY DocStoreAssumption, FS_Interval DEF Rowids
  <2> QED
    BY <2>1, FS_Subset
<1>2. ASSUME NEW r
      PROVE  /\ Before(S, r) \in Nat
             /\ r \in S => Before(S, r) < Cardinality(S)
  <2> DEFINE T == {q \in S : q < r}
  <2>1. /\ IsFiniteSet(T) /\ Cardinality(T) <= Cardinality(S)
        /\ Cardinality(S) = Cardinality(T) => S = T
    BY <1>1, FS_Subset
  <2>2. Cardinality(T) \in Nat /\ Cardinality(S) \in Nat
    BY <1>1, <2>1, FS_CardinalityType
  <2>3. r \in S => r \notin T
    <3>1. r \in S => r \in Nat
      BY DocStoreAssumption DEF Rowids
    <3> QED
      BY <3>1
  <2> QED
    BY <2>1, <2>2, <2>3 DEF Before
<1> QED
  BY <1>1, <1>2, FS_CardinalityType

\* A row that comes later has more rows before it.
LEMMA BeforeGrows ==
    ASSUME NEW S \in SUBSET Rowids, NEW r \in S, NEW q \in Rowids, r < q
    PROVE  Before(S, r) < Before(S, q)
<1> DEFINE T == {x \in S : x < r}
           U == {x \in S : x < q}
<1>1. \A x \in S \cup {r, q} : x \in Nat
  BY DocStoreAssumption DEF Rowids
<1>2. T \subseteq U /\ r \in U /\ r \notin T
  BY <1>1
<1>3. IsFiniteSet(U)
  BY RowsAreFinite, FS_Subset
<1> HIDE DEF T, U
<1>4. /\ IsFiniteSet(T) /\ Cardinality(T) <= Cardinality(U)
      /\ Cardinality(T) # Cardinality(U)
  BY <1>2, <1>3, FS_Subset
<1>5. Cardinality(T) \in Nat /\ Cardinality(U) \in Nat
  BY <1>3, <1>4, FS_CardinalityType
<1>6. Cardinality(T) < Cardinality(U)
  BY <1>4, <1>5
<1> QED
  BY <1>6 DEF Before, T, U

\* So that rows are told apart by it, and every number of rows comes before one.
LEMMA BeforeIsRank ==
    ASSUME NEW S \in SUBSET Rowids
    PROVE  /\ \A r, q \in S : Before(S, r) = Before(S, q) => r = q
           /\ \A i \in 1 .. Cardinality(S) : \E r \in S : Before(S, r) = i - 1
<1> DEFINE n == Cardinality(S)
           rank == [r \in S |-> Before(S, r)]
<1>1. IsFiniteSet(S) /\ n \in Nat /\ \A r \in S : Before(S, r) \in 0 .. n - 1
  BY RowsAreFinite
<1>2. \A r, q \in S : Before(S, r) = Before(S, q) => r = q
  <2> SUFFICES ASSUME NEW r \in S, NEW q \in S, Before(S, r) = Before(S, q), r # q
               PROVE  FALSE
    OBVIOUS
  <2>1. r \in Nat /\ q \in Nat
    BY DocStoreAssumption DEF Rowids
  <2>2. r < q \/ q < r
    BY <2>1
  <2>3. Before(S, r) \in Nat /\ Before(S, q) \in Nat
    BY <1>1
  <2> QED
    BY <2>2, <2>3, BeforeGrows
<1>3. rank \in Injection(S, 0 .. n - 1)
  <2>1. rank \in [S -> 0 .. n - 1]
    BY <1>1
  <2> QED
    BY <1>2, <2>1 DEF Injection, IsInjective
<1>4. IsFiniteSet(0 .. n - 1) /\ Cardinality(0 .. n - 1) = n
  BY <1>1, FS_Interval
<1> HIDE DEF rank, n
<1>5. rank \in Surjection(S, 0 .. n - 1)
  BY <1>3, <1>4, FS_Injection DEF n
<1>6. \A i \in 1 .. n : i - 1 \in 0 .. n - 1
  BY <1>1
<1> QED
  BY <1>2, <1>5, <1>6 DEF Surjection, rank, n

\* InOrder lists the rows of a set, each once and in increasing order.
LEMMA InOrderIs ==
    ASSUME NEW S \in SUBSET Rowids
    PROVE  /\ InOrder(S) \in Seq(S) /\ Len(InOrder(S)) = Cardinality(S)
           /\ \A i, j \in 1 .. Cardinality(S) : i < j => InOrder(S)[i] < InOrder(S)[j]
<1>1. Cardinality(S) \in Nat
  BY RowsAreFinite
<1>2. ASSUME NEW i \in 1 .. Cardinality(S)
      PROVE  InOrder(S)[i] \in S /\ Before(S, InOrder(S)[i]) = i - 1
  <2>1. InOrder(S)[i] = CHOOSE r \in S : Before(S, r) = i - 1
    BY <1>2 DEF InOrder, Before
  <2>2. \E r \in S : Before(S, r) = i - 1
    BY <1>2, BeforeIsRank
  <2> QED
    BY <2>1, <2>2
<1>3. InOrder(S) \in [1 .. Cardinality(S) -> S]
  BY <1>2 DEF InOrder
<1>4. InOrder(S) \in Seq(S) /\ Len(InOrder(S)) = Cardinality(S)
  BY <1>1, <1>3
<1>5. ASSUME NEW i \in 1 .. Cardinality(S), NEW j \in 1 .. Cardinality(S), i < j
      PROVE  InOrder(S)[i] < InOrder(S)[j]
  <2> DEFINE r == InOrder(S)[i]
             q == InOrder(S)[j]
  <2>1. r \in S /\ q \in S /\ Before(S, r) = i - 1 /\ Before(S, q) = j - 1
    BY <1>2
  <2> HIDE DEF r, q
  <2>2. r \in Nat /\ q \in Nat
    BY <2>1, DocStoreAssumption DEF Rowids
  <2>3. ~(q < r)
    <3>1. q < r => Before(S, q) < Before(S, r)
      BY <2>1, BeforeGrows
    <3> QED
      BY <1>5, <2>1, <3>1
  <2>4. q # r
    BY <1>5, <2>1
  <2>5. r < q
    BY <2>2, <2>3, <2>4
  <2> QED
    BY <2>5 DEF r, q
<1> QED
  BY <1>4, <1>5

\* A set of rows has a last one.
LEMMA MaxOfRows ==
    ASSUME NEW S \in SUBSET (0 .. MaxRowid), S # {}
    PROVE  Max(S) \in S /\ \A r \in S : r <= Max(S)
<1> DEFINE T == S \ {0}
           n == Cardinality(T)
<1>1. MaxRowid \in Nat /\ T \in SUBSET Rowids
  BY DocStoreAssumption DEF Rowids
<1>2. CASE T = {}
  <2>1. S = {0}
    BY <1>2
  <2> QED
    BY <2>1 DEF Max
<1>3. CASE T # {}
  <2>1. n \in Nat /\ n # 0
    BY <1>1, <1>3, RowsAreFinite, FS_EmptySet
  <2> HIDE DEF T
  <2>2. PICK last \in T : Before(T, last) = n - 1
    BY <1>1, <2>1, BeforeIsRank
  <2>3. \A r \in T : ~(last < r)
    <3> SUFFICES ASSUME NEW r \in T, last < r
                 PROVE  FALSE
      OBVIOUS
    <3>1. Before(T, last) < Before(T, r) /\ Before(T, r) < n /\ Before(T, r) \in Nat
      BY <1>1, BeforeGrows, RowsAreFinite
    <3> QED
      BY <2>1, <2>2, <3>1
  <2>4. last \in S /\ \A r \in S : r <= last
    BY <1>1, <2>3 DEF T
  <2> QED
    BY <2>4 DEF Max
<1> QED
  BY <1>2, <1>3

\* A page of n rows has n rows at most.
LEMMA PageSizeBound ==
    ASSUME NEW S \in SUBSET Rowids, NEW n \in Nat
    PROVE  /\ FirstOf(n, S) \subseteq S
           /\ IsFiniteSet(FirstOf(n, S)) /\ Cardinality(FirstOf(n, S)) <= n
<1> DEFINE P == FirstOf(n, S)
           rank == [r \in P |-> Before(S, r)]
<1>1. P \subseteq S /\ IsFiniteSet(P)
  BY RowsAreFinite, FS_Subset DEF FirstOf
<1>2. \A r \in P : Before(S, r) \in 0 .. n - 1
  <2>1. \A r \in P : Before(S, r) \in Nat /\ Before(S, r) < n
    BY RowsAreFinite DEF FirstOf, Before
  <2> QED
    BY <2>1
<1>3. rank \in Injection(P, 0 .. n - 1)
  <2>1. rank \in [P -> 0 .. n - 1]
    BY <1>2
  <2>2. \A r, q \in P : rank[r] = rank[q] => r = q
    BY <1>1, BeforeIsRank
  <2> QED
    BY <2>1, <2>2 DEF Injection, IsInjective
<1>4. IsFiniteSet(0 .. n - 1) /\ Cardinality(0 .. n - 1) = n
  BY FS_Interval
<1> HIDE DEF P, rank
<1>5. Cardinality(P) <= Cardinality(0 .. n - 1)
  BY <1>3, <1>4, FS_Injection
<1> QED
  BY <1>1, <1>4, <1>5 DEF P

-----------------------------------------------------------------------------
(* The invariant                                                           *)

\* The fields of the state of a search.
SearchShape ==
    /\ find = [pc |-> find.pc, req |-> find.req, expr |-> find.expr, ids |-> find.ids,
               after |-> find.after, page |-> find.page, fetched |-> find.fetched,
               results |-> find.results, cut |-> find.cut]
    /\ find.pc \in {"idle", "labels", "select", "fetch", "done"}
    /\ find.pc # "idle" => find.req \in Requests
    /\ find.expr \in Nat
    /\ find.after \in 0 .. MaxRowid
    /\ find.page \in SUBSET Rowids
    /\ find.fetched \in Nat
    /\ find.results \in Seq(Hit)
    /\ find.pc \in {"idle", "labels"} =>
            find.results = <<>> /\ find.fetched = 0 /\ find.cut = FALSE
    /\ find.pc \in {"idle", "labels"} => find.expr = 1
    /\ find.pc \in {"select", "fetch"} => find.expr \in DOMAIN Exprs

\* A find has reported what is behind its cursor, in order; the page is before it.
BehindCursor ==
    /\ find.pc = "fetch" => \A r \in find.page : find.after < r
    /\ find.pc # "idle" /\ find.req.client = "find" =>
        \A i \in DOMAIN find.results : find.results[i].row <= find.after

\* The rows of the page are those of documents that were live, while it is fetched.
PageWasLive ==
    find.pc = "fetch" /\ "page" \notin removed =>
        \A r \in find.page : r \in DOMAIN sentences /\ sentences[r].doc \in wasLive

\* There is room for a page at the beginning of each.
Room ==
    /\ find.pc \in {"labels", "select", "fetch"} =>
        IF find.req.client = "query" THEN find.fetched < Budget
        ELSE /\ find.cut = FALSE
             /\ find.req.limit > 0 => Len(find.results) < find.req.limit
    /\ find.pc = "fetch" => Cardinality(find.page) <= PageSize

SearchInv ==
    /\ TypeInv /\ SearchShape /\ BehindCursor /\ PageWasLive /\ Room
    /\ FindsEachOnce /\ FindsOnlyLive /\ FindNearsLimit

-----------------------------------------------------------------------------
(* The steps                                                               *)

\* At first nobody searches.
LEMMA SearchInvInit == SearchInit => SearchInv
<1> SUFFICES ASSUME SearchInit PROVE SearchInv
  OBVIOUS
<1>1. TypeInv
  BY InitType DEF SearchInit
<1>2. find = Idle
  BY DEF SearchInit
<1>3. SearchShape
  BY <1>2, DocStoreAssumption DEF SearchShape, Idle
<1> QED
  BY <1>1, <1>2, <1>3
  DEF SearchInv, BehindCursor, PageWasLive, Room, FindsEachOnce, FindsOnlyLive,
      FindNearsLimit, Idle, Found, Range

\* What a step of the search leaves of the histories.
LEMMA HistoriesGrow ==
    ASSUME Witness, find.pc # "labels", find'.pc \notin {"idle", "labels"}
    PROVE  /\ wasLive' = wasLive \cup LiveDocs'
           /\ removed \subseteq removed'
           /\ find.pc = "fetch" /\ "page" \notin removed' =>
                DOMAIN sentences \subseteq DOMAIN sentences'
  BY DEF Witness

\* A search begins.
LEMMA StartKeeps ==
    ASSUME SearchInv, StartSearch
    PROVE  SearchInv'
<1>1. PICK q \in Requests : find' = [find EXCEPT !.pc = "labels", !.req = q]
  BY DEF StartSearch
<1>2. find.pc = "idle" /\ UNCHANGED vars
  BY DEF StartSearch
<1>3. TypeInv' /\ sentences' = sentences
  BY <1>2, NextType DEF SearchInv, vars, liveVars
<1>4. SearchShape'
  BY <1>1, <1>2, <1>3 DEF SearchInv, SearchShape
<1>5. /\ find'.pc = "labels" /\ find'.req = q /\ find'.results = <<>>
      /\ find'.fetched = 0 /\ find'.cut = FALSE
  BY <1>1, <1>2 DEF SearchInv, SearchShape
<1>6. q.limit \in Nat
  BY SearchAssumption DEF Request
<1> QED
  BY <1>3, <1>4, <1>5, <1>6, SearchAssumption
  DEF SearchInv, BehindCursor, PageWasLive, Room, FindsEachOnce, FindsOnlyLive,
      FindNearsLimit, Found, Range

\* It resolves its labels.
LEMMA ResolveKeeps ==
    ASSUME SearchInv, ResolveLabels
    PROVE  SearchInv'
<1>1. PICK pc1 \in {"done", "select"} :
        /\ find' = [find EXCEPT !.ids = find.req.labels \cap labels, !.pc = pc1]
        /\ pc1 = "select" => Exprs # <<>>
  BY DEF ResolveLabels
<1>2. find.pc = "labels" /\ UNCHANGED vars
  BY DEF ResolveLabels
<1>3. TypeInv' /\ sentences' = sentences
  BY <1>2, NextType DEF SearchInv, vars, liveVars
<1>4. find.req \in Requests /\ Exprs \in Seq(SUBSET TextSentences) /\ find.req.limit \in Nat
  BY <1>2, SearchAssumption DEF SearchInv, SearchShape, Request, Exprs
<1>5. /\ find'.pc = pc1 /\ find'.req = find.req /\ find'.results = <<>>
      /\ find'.fetched = 0 /\ find'.expr = 1 /\ find'.cut = FALSE
  BY <1>1, <1>2 DEF SearchInv, SearchShape
<1>6. pc1 = "select" => 1 \in DOMAIN Exprs
  BY <1>1, <1>4
<1>7. SearchShape'
  BY <1>1, <1>2, <1>3, <1>4, <1>5, <1>6 DEF SearchInv, SearchShape, Exprs
<1> QED
  BY <1>3, <1>4, <1>5, <1>7, SearchAssumption
  DEF SearchInv, BehindCursor, PageWasLive, Room, FindsEachOnce, FindsOnlyLive,
      FindNearsLimit, Found, Range

\* It is done and forgotten.
LEMMA ReportKeeps ==
    ASSUME SearchInv, Report
    PROVE  SearchInv'
<1>1. find' = Idle /\ UNCHANGED vars
  BY DEF Report
<1>2. TypeInv'
  BY <1>1, NextType DEF SearchInv
<1>3. SearchShape'
  BY <1>1, DocStoreAssumption DEF SearchShape, Idle
<1> QED
  BY <1>1, <1>2, <1>3
  DEF SearchInv, BehindCursor, PageWasLive, Room, FindsEachOnce, FindsOnlyLive,
      FindNearsLimit, Idle, Found, Range

\* The search goes on to its next expression, or is done; a find is done.
LEMMA NextExprIs ==
    ASSUME NEW f,
           f = [pc |-> f.pc, req |-> f.req, expr |-> f.expr, ids |-> f.ids,
                after |-> f.after, page |-> f.page, fetched |-> f.fetched,
                results |-> f.results, cut |-> f.cut],
           Len(Exprs) \in Nat, DOMAIN Exprs = 1 .. Len(Exprs), f.expr \in DOMAIN Exprs,
           NEW g, g = NextExpr(f)
    PROVE  /\ g = [pc |-> g.pc, req |-> g.req, expr |-> g.expr, ids |-> g.ids,
                   after |-> g.after, page |-> g.page, fetched |-> g.fetched,
                   results |-> g.results, cut |-> g.cut]
           /\ g.pc \in {"select", "done"} /\ g.req = f.req /\ g.results = f.results
           /\ g.page = {} /\ g.after \in {f.after, 0} /\ g.fetched \in {f.fetched, 0}
           /\ g.expr \in Nat /\ g.cut = f.cut
           /\ g.pc = "select" => g.expr \in DOMAIN Exprs /\ g.fetched = 0
           /\ Len(Exprs) <= 1 => g.pc = "done" /\ g.after = f.after
<1>1. CASE f.expr < Len(Exprs)
  <2>1. g = [f EXCEPT !.pc = "select", !.expr = f.expr + 1, !.after = 0, !.page = {},
                      !.fetched = 0]
    BY <1>1 DEF NextExpr
  <2>2. f.expr + 1 \in DOMAIN Exprs /\ ~(Len(Exprs) <= 1)
    BY <1>1
  <2>3. g = [pc |-> "select", req |-> f.req, expr |-> f.expr + 1, ids |-> f.ids,
             after |-> 0, page |-> {}, fetched |-> 0, results |-> f.results,
             cut |-> f.cut]
    BY <2>1
  <2>4. /\ g.pc = "select" /\ g.req = f.req /\ g.results = f.results /\ g.page = {}
        /\ g.after = 0 /\ g.fetched = 0 /\ g.expr = f.expr + 1 /\ g.ids = f.ids
        /\ g.cut = f.cut
    BY <2>3
  <2> QED
    BY <2>2, <2>3, <2>4
<1>2. CASE ~(f.expr < Len(Exprs))
  <2>1. g = [f EXCEPT !.pc = "done", !.page = {}]
    BY <1>2 DEF NextExpr
  <2>2. g = [pc |-> "done", req |-> f.req, expr |-> f.expr, ids |-> f.ids,
             after |-> f.after, page |-> {}, fetched |-> f.fetched,
             results |-> f.results, cut |-> f.cut]
    BY <2>1
  <2>3. /\ g.pc = "done" /\ g.req = f.req /\ g.results = f.results /\ g.page = {}
        /\ g.after = f.after /\ g.fetched = f.fetched /\ g.expr = f.expr
        /\ g.ids = f.ids /\ g.cut = f.cut
    BY <2>2
  <2> QED
    BY <2>2, <2>3
<1> QED
  BY <1>1, <1>2

\* What is known of the request while it is worked on.
LEMMA RequestIs ==
    ASSUME SearchInv, find.pc \in {"select", "fetch"}
    PROVE  /\ find.req \in Requests /\ Len(Exprs) \in Nat /\ DOMAIN Exprs = 1 .. Len(Exprs)
           /\ find.expr \in DOMAIN Exprs /\ find.req.limit \in Nat
           /\ find.req.client \in {"find", "query"}
           /\ find.req.client = "find" => Len(Exprs) <= 1
<1>1. find.req \in Requests /\ find.expr \in DOMAIN Exprs
  BY DEF SearchInv, SearchShape
<1>2. find.req \in Request /\ (find.req.client = "find" => Len(find.req.exprs) <= 1)
  BY <1>1, SearchAssumption
<1>3. Exprs \in Seq(SUBSET TextSentences)
  BY <1>2 DEF Request, Exprs
<1> QED
  BY <1>1, <1>2, <1>3 DEF Request, Exprs

\* A page is selected: it is of live documents, and before the cursor.
LEMMA SelectKeeps ==
    ASSUME SearchInv, SelectPage
    PROVE  SearchInv'
<1> DEFINE page == FirstOf(PageSize, RowsAfterCursor(Exprs[find.expr]))
<1>1. /\ find.pc = "select" /\ UNCHANGED vars /\ Witness
      /\ find' = IF page = {} THEN NextExpr(find)
                 ELSE [find EXCEPT !.pc = "fetch", !.page = page]
  BY DEF SelectPage
<1>2. TypeInv' /\ sentences' = sentences /\ LiveDocs' = LiveDocs
  BY <1>1, NextType
  DEF SearchInv, vars, liveVars, LiveDocs, HasLemmaOptimization, RowsOf, LemmaRows
<1>3. /\ find.req \in Requests /\ Len(Exprs) \in Nat /\ DOMAIN Exprs = 1 .. Len(Exprs)
      /\ find.expr \in DOMAIN Exprs /\ find.req.limit \in Nat
      /\ find.req.client \in {"find", "query"}
      /\ find.req.client = "find" => Len(Exprs) <= 1
  BY <1>1, RequestIs
<1>4. DOMAIN sentences \subseteq Rowids /\ PageSize \in Nat /\ Budget \in Nat \ {0}
  BY SearchAssumption DEF SearchInv, TypeInv, TypeOK, LiveTypeOK
<1>5. CASE page = {}
  <2>1. find' = NextExpr(find)
    BY <1>1, <1>5
  <2>2. /\ find' = [pc |-> find'.pc, req |-> find'.req, expr |-> find'.expr,
                    ids |-> find'.ids, after |-> find'.after, page |-> find'.page,
                    fetched |-> find'.fetched, results |-> find'.results,
                    cut |-> find'.cut]
        /\ find'.pc \in {"select", "done"} /\ find'.req = find.req
        /\ find'.results = find.results /\ find'.page = {}
        /\ find'.after \in {find.after, 0} /\ find'.fetched \in {find.fetched, 0}
        /\ find'.expr \in Nat /\ find'.cut = find.cut
        /\ find'.pc = "select" => find'.expr \in DOMAIN Exprs /\ find'.fetched = 0
        /\ Len(Exprs) <= 1 => find'.pc = "done" /\ find'.after = find.after
    BY <1>3, <2>1, NextExprIs DEF SearchInv, SearchShape
  <2>3. SearchShape'
    <3>1. /\ find.req \in Requests /\ find.after \in 0 .. MaxRowid
          /\ find.fetched \in Nat /\ find.results \in Seq(Hit)
          /\ 0 \in 0 .. MaxRowid
      BY <1>1, <1>3, DocStoreAssumption DEF SearchInv, SearchShape
    <3>2. find'.after \in 0 .. MaxRowid /\ find'.fetched \in Nat
          /\ find'.results \in Seq(Hit) /\ find'.req \in Requests
      BY <2>2, <3>1
    <3>3. find'.pc = "select" => find'.expr \in DOMAIN Exprs'
      BY <2>2 DEF Exprs
    <3> QED
      BY <2>2, <3>2, <3>3 DEF SearchShape
  <2>4. wasLive \subseteq wasLive' /\ removed \subseteq removed'
    BY <1>1, <2>2, HistoriesGrow
  <2>5. BehindCursor' /\ PageWasLive' /\ Room' /\ FindNearsLimit'
    BY <1>1, <1>3, <1>4, <2>2
    DEF SearchInv, SearchShape, BehindCursor, PageWasLive, Room, FindNearsLimit
  <2>6. FindsEachOnce' /\ FindsOnlyLive'
    BY <1>1, <1>3, <2>2, <2>4 DEF SearchInv, FindsEachOnce, FindsOnlyLive, Found, Range
  <2> QED
    BY <1>2, <2>3, <2>5, <2>6 DEF SearchInv
<1>6. CASE page # {}
  <2>1. find' = [find EXCEPT !.pc = "fetch", !.page = page]
    BY <1>1, <1>6
  <2>2. /\ RowsAfterCursor(Exprs[find.expr]) \subseteq DOMAIN sentences
        /\ \A r \in RowsAfterCursor(Exprs[find.expr]) :
              find.after < r /\ \E v \in Nlps : sentence_lemmas[r][v] > 0
    BY <1>4, DocStoreAssumption
    DEF RowsAfterCursor, CandidateRows, Indexed, SearchInv, SearchShape, Rowids
  <2>3. page \subseteq RowsAfterCursor(Exprs[find.expr]) /\ Cardinality(page) <= PageSize
    BY <1>4, <2>2, PageSizeBound
  <2> HIDE DEF page
  <2>4. \A r \in page : r \in DOMAIN sentences /\ sentences[r].doc \in LiveDocs
    <3> SUFFICES ASSUME NEW r \in page
                 PROVE  r \in DOMAIN sentences /\ sentences[r].doc \in LiveDocs
      OBVIOUS
    <3>1. r \in DOMAIN sentences /\ r \in Rowids /\ r \in LemmaRows
      BY <1>4, <2>2, <2>3 DEF LemmaRows
    <3>2. sentences[r].doc \in Docs
      BY <3>1 DEF SearchInv, TypeInv, TypeOK, LiveTypeOK, Sentence
    <3> QED
      BY <3>1, <3>2 DEF LiveDocs, HasLemmaOptimization, RowsOf
  <2>5. /\ find'.pc = "fetch" /\ find'.req = find.req /\ find'.results = find.results
        /\ find'.fetched = find.fetched /\ find'.after = find.after /\ find'.page = page
        /\ find'.expr = find.expr /\ find'.cut = find.cut
    BY <2>1 DEF SearchInv, SearchShape
  <2>6. SearchShape'
    BY <1>1, <1>4, <2>1, <2>2, <2>3, <2>5 DEF SearchInv, SearchShape, Exprs
  <2>7. wasLive' = wasLive \cup LiveDocs /\ removed \subseteq removed'
    BY <1>1, <1>2, <2>5, HistoriesGrow
  <2>8. BehindCursor' /\ Room' /\ FindNearsLimit'
    BY <1>1, <2>2, <2>3, <2>5 DEF SearchInv, BehindCursor, Room, FindNearsLimit
  <2>9. PageWasLive'
    BY <1>2, <2>4, <2>5, <2>7 DEF PageWasLive
  <2>10. FindsEachOnce' /\ FindsOnlyLive'
    BY <1>1, <2>5, <2>7 DEF SearchInv, FindsEachOnce, FindsOnlyLive, Found, Range
  <2> QED
    BY <1>2, <2>6, <2>8, <2>9, <2>10 DEF SearchInv
<1> QED
  BY <1>5, <1>6

\* The hits of a page are of its rows, in order, and no more than these.
LEMMA HitsAre ==
    ASSUME SearchInv, NEW rows \in SUBSET DOMAIN sentences
    PROVE  /\ Hits(rows) \in Seq(Hit) /\ Len(Hits(rows)) <= Cardinality(rows)
           /\ \A i \in 1 .. Len(Hits(rows)) :
                /\ Hits(rows)[i].row \in rows
                /\ Hits(rows)[i].sentence = sentences[Hits(rows)[i].row]
           /\ \A i, j \in 1 .. Len(Hits(rows)) :
                i < j => Hits(rows)[i].row < Hits(rows)[j].row
<1> DEFINE S == {r \in rows : Text(r) \in find.req.accepts}
           list == InOrder(S)
<1>1. rows \in SUBSET Rowids /\ \A r \in rows : sentences[r] \in Sentence
  BY DEF SearchInv, TypeInv, TypeOK, LiveTypeOK
<1>2. S \in SUBSET Rowids /\ S \subseteq rows
  BY <1>1
<1>3. Cardinality(S) <= Cardinality(rows) /\ Cardinality(S) \in Nat
  BY <1>1, <1>2, RowsAreFinite, FS_Subset
<1> HIDE DEF S
<1>4. /\ list \in Seq(S) /\ Len(list) = Cardinality(S)
      /\ \A i, j \in 1 .. Len(list) : i < j => list[i] < list[j]
  BY <1>2, InOrderIs
<1>5. Hits(rows) = [i \in DOMAIN list |-> [row |-> list[i], sentence |-> sentences[list[i]]]]
  BY DEF Hits, S
<1> HIDE DEF list
<1>6. DOMAIN list = 1 .. Len(list) /\ Len(list) \in Nat /\ \A i \in DOMAIN list : list[i] \in S
  BY <1>4
<1>7. \A i \in DOMAIN list : [row |-> list[i], sentence |-> sentences[list[i]]] \in Hit
  BY <1>1, <1>2, <1>6 DEF Hit
<1>8. Hits(rows) \in Seq(Hit) /\ Len(Hits(rows)) = Len(list)
  BY <1>5, <1>6, <1>7
<1>9. \A i \in 1 .. Len(list) :
        Hits(rows)[i].row = list[i] /\ Hits(rows)[i].sentence = sentences[list[i]]
  BY <1>5, <1>6
<1> HIDE DEF Hits
<1> QED
  BY <1>2, <1>3, <1>4, <1>6, <1>8, <1>9

\* What has been reported, and then the hits of a page.
LEMMA AppendHits ==
    ASSUME NEW s \in Seq(Hit), NEW t \in Seq(Hit)
    PROVE  /\ s \o t \in Seq(Hit) /\ Len(s \o t) = Len(s) + Len(t)
           /\ \A i \in DOMAIN (s \o t) :
                \/ i \in DOMAIN s /\ (s \o t)[i] = s[i]
                \/ /\ i > Len(s) /\ i - Len(s) \in 1 .. Len(t)
                   /\ (s \o t)[i] = t[i - Len(s)]
  OBVIOUS

\* The rows of a page that are left are fetched, and their matches reported.
LEMMA FetchIs ==
    ASSUME SearchInv, FetchPage
    PROVE  \E after, fetched, results :
            /\ after \in 0 .. MaxRowid /\ find.after <= after
            /\ fetched \in Nat /\ fetched <= find.fetched + PageSize
            /\ results \in Seq(Hit) /\ Len(results) <= Len(find.results) + PageSize
            /\ \A i \in DOMAIN results :
                 \/ i \in DOMAIN find.results /\ results[i] = find.results[i]
                 \/ /\ i \notin DOMAIN find.results
                    /\ results[i].row \in find.page \cap DOMAIN sentences
                    /\ results[i].row <= after
                    /\ results[i].sentence = sentences[results[i].row]
            /\ \A i, j \in DOMAIN results :
                 i < j /\ i \notin DOMAIN find.results => results[i].row < results[j].row
            /\ LET f == [find EXCEPT !.results = results, !.fetched = fetched,
                                     !.after = after, !.pc = "select", !.page = {}]
               IN find' = IF after = find.after THEN NextExpr(f)
                          ELSE IF Full(f) THEN [NextExpr(f) EXCEPT !.cut = TRUE]
                          ELSE f
<1> DEFINE rows == find.page \cap DOMAIN sentences
           after == NewCursor(rows)
           fetched == find.fetched + Cardinality(rows)
           results == find.results \o Hits(rows)
           f == [find EXCEPT !.results = results, !.fetched = fetched,
                             !.after = after, !.pc = "select", !.page = {}]
<1>1. find.pc = "fetch" /\ SearchShape /\ Room /\ TypeInv
  BY DEF FetchPage, SearchInv
<1>2. find' = IF f.after = find.after THEN NextExpr(f)
              ELSE IF Full(f) THEN [NextExpr(f) EXCEPT !.cut = TRUE]
              ELSE f
  BY DEF FetchPage
<1>3. f.after = after
  BY <1>1 DEF SearchShape
<1>4. /\ rows \in SUBSET Rowids /\ Cardinality(rows) \in Nat
      /\ Cardinality(rows) <= PageSize
  <2>1. find.page \in SUBSET Rowids /\ Cardinality(find.page) <= PageSize
    BY <1>1 DEF SearchShape, Room
  <2>2. IsFiniteSet(find.page) /\ Cardinality(find.page) \in Nat
    BY <2>1, RowsAreFinite
  <2>3. Cardinality(rows) <= Cardinality(find.page) /\ Cardinality(rows) \in Nat
    BY <2>1, <2>2, RowsAreFinite, FS_Subset
  <2> QED
    BY <2>1, <2>2, <2>3, SearchAssumption
<1>5. after \in 0 .. MaxRowid /\ find.after <= after /\ \A r \in rows : r <= after
  <2>1. rows \cup {find.after} \in SUBSET (0 .. MaxRowid)
    BY <1>1, <1>4 DEF SearchShape, Rowids
  <2> HIDE DEF rows
  <2>2. /\ Max(rows \cup {find.after}) \in rows \cup {find.after}
        /\ \A r \in rows \cup {find.after} : r <= Max(rows \cup {find.after})
    BY <2>1, MaxOfRows
  <2> QED
    BY <2>1, <2>2 DEF NewCursor
<1>6. fetched \in Nat /\ fetched <= find.fetched + PageSize
  BY <1>1, <1>4, SearchAssumption DEF SearchShape
<1>7. /\ Hits(rows) \in Seq(Hit) /\ Len(Hits(rows)) <= Cardinality(rows)
      /\ \A i \in 1 .. Len(Hits(rows)) :
            /\ Hits(rows)[i].row \in rows
            /\ Hits(rows)[i].sentence = sentences[Hits(rows)[i].row]
      /\ \A i, j \in 1 .. Len(Hits(rows)) :
            i < j => Hits(rows)[i].row < Hits(rows)[j].row
  BY HitsAre
<1>8. find.results \in Seq(Hit)
  BY <1>1 DEF SearchShape
<1> HIDE DEF rows, after, fetched
<1>9. /\ results \in Seq(Hit) /\ Len(results) = Len(find.results) + Len(Hits(rows))
      /\ \A i \in DOMAIN results :
            \/ i \in DOMAIN find.results /\ results[i] = find.results[i]
            \/ /\ i > Len(find.results) /\ i - Len(find.results) \in 1 .. Len(Hits(rows))
               /\ results[i] = Hits(rows)[i - Len(find.results)]
  BY <1>7, <1>8, AppendHits
<1> HIDE DEF results
<1>10. Len(find.results) \in Nat /\ Len(Hits(rows)) \in Nat
       /\ DOMAIN find.results = 1 .. Len(find.results)
       /\ DOMAIN results = 1 .. Len(results)
  BY <1>7, <1>8, <1>9
<1>11. Len(results) <= Len(find.results) + PageSize
  BY <1>4, <1>7, <1>9, <1>10, SearchAssumption
<1>12. \A i \in DOMAIN results :
            \/ i \in DOMAIN find.results /\ results[i] = find.results[i]
            \/ /\ i \notin DOMAIN find.results
               /\ results[i].row \in rows
               /\ results[i].row <= after
               /\ results[i].sentence = sentences[results[i].row]
  <2> SUFFICES ASSUME NEW i \in DOMAIN results, results[i] # find.results[i] \/ i \notin DOMAIN find.results
               PROVE  /\ i \notin DOMAIN find.results
                      /\ results[i].row \in rows
                      /\ results[i].row <= after
                      /\ results[i].sentence = sentences[results[i].row]
    OBVIOUS
  <2> DEFINE k == i - Len(find.results)
  <2>1. i > Len(find.results) /\ k \in 1 .. Len(Hits(rows)) /\ results[i] = Hits(rows)[k]
    BY <1>9
  <2>2. i \notin DOMAIN find.results
    BY <1>10, <2>1
  <2> HIDE DEF k
  <2>3. /\ Hits(rows)[k].row \in rows
        /\ Hits(rows)[k].sentence = sentences[Hits(rows)[k].row]
    BY <1>7, <2>1
  <2> QED
    BY <1>5, <2>1, <2>2, <2>3
<1>13. \A i, j \in DOMAIN results :
            i < j /\ i \notin DOMAIN find.results => results[i].row < results[j].row
  <2> SUFFICES ASSUME NEW i \in DOMAIN results, NEW j \in DOMAIN results,
                      i < j, i \notin DOMAIN find.results
               PROVE  results[i].row < results[j].row
    OBVIOUS
  <2> DEFINE n == Len(find.results)
  <2>1. /\ i - n \in 1 .. Len(Hits(rows)) /\ results[i] = Hits(rows)[i - n]
        /\ j - n \in 1 .. Len(Hits(rows)) /\ results[j] = Hits(rows)[j - n]
    <3>1. n \in Nat /\ i \in Nat /\ j \in Nat /\ i > n /\ j > n
      BY <1>10
    <3> QED
      BY <1>9, <1>10, <3>1
  <2>2. i - n < j - n
    BY <1>10
  <2> HIDE DEF n
  <2> QED
    BY <1>7, <2>1, <2>2
<1> QED
  BY <1>2, <1>3, <1>5, <1>6, <1>9, <1>11, <1>12, <1>13 DEF rows

\* The state of a search after a page.
LEMMA FetchedIs ==
    ASSUME NEW x, NEW after, NEW fetched, NEW results,
           x = [pc |-> x.pc, req |-> x.req, expr |-> x.expr, ids |-> x.ids,
                after |-> x.after, page |-> x.page, fetched |-> x.fetched,
                results |-> x.results, cut |-> x.cut],
           NEW y, y = [x EXCEPT !.results = results, !.fetched = fetched, !.after = after,
                                !.pc = "select", !.page = {}]
    PROVE  y = [pc |-> "select", req |-> x.req, expr |-> x.expr, ids |-> x.ids,
              after |-> after, page |-> {}, fetched |-> fetched, results |-> results,
              cut |-> x.cut]
  OBVIOUS

\* A page is fetched: its rows are reported behind all that was, and were live.
LEMMA FetchKeeps ==
    ASSUME SearchInv, FetchPage
    PROVE  SearchInv'
<1>1. find.pc = "fetch" /\ UNCHANGED vars /\ Witness
  BY DEF FetchPage
<1>2. TypeInv' /\ sentences' = sentences
  BY <1>1, NextType DEF SearchInv, vars, liveVars
<1>3. /\ find.req \in Requests /\ Len(Exprs) \in Nat /\ DOMAIN Exprs = 1 .. Len(Exprs)
      /\ find.expr \in DOMAIN Exprs /\ find.req.limit \in Nat
      /\ find.req.client \in {"find", "query"}
      /\ find.req.client = "find" => Len(Exprs) <= 1
  BY <1>1, RequestIs
<1>4. PageSize \in Nat \ {0} /\ Budget \in Nat \ {0}
  BY SearchAssumption
<1>5. PICK after, fetched, results :
        /\ after \in 0 .. MaxRowid /\ find.after <= after
        /\ fetched \in Nat /\ fetched <= find.fetched + PageSize
        /\ results \in Seq(Hit) /\ Len(results) <= Len(find.results) + PageSize
        /\ \A i \in DOMAIN results :
             \/ i \in DOMAIN find.results /\ results[i] = find.results[i]
             \/ /\ i \notin DOMAIN find.results
                /\ results[i].row \in find.page \cap DOMAIN sentences
                /\ results[i].row <= after
                /\ results[i].sentence = sentences[results[i].row]
        /\ \A i, j \in DOMAIN results :
             i < j /\ i \notin DOMAIN find.results => results[i].row < results[j].row
        /\ LET f == [find EXCEPT !.results = results, !.fetched = fetched,
                                 !.after = after, !.pc = "select", !.page = {}]
           IN find' = IF after = find.after THEN NextExpr(f)
                      ELSE IF Full(f) THEN [NextExpr(f) EXCEPT !.cut = TRUE]
                      ELSE f
  BY FetchIs
<1> DEFINE f == [find EXCEPT !.results = results, !.fetched = fetched,
                             !.after = after, !.pc = "select", !.page = {}]
           g == NextExpr(f)
<1>6. find' = IF after = find.after THEN g
              ELSE IF Full(f) THEN [g EXCEPT !.cut = TRUE] ELSE f
  BY <1>5
<1>7. /\ f = [pc |-> f.pc, req |-> f.req, expr |-> f.expr, ids |-> f.ids,
              after |-> f.after, page |-> f.page, fetched |-> f.fetched,
              results |-> f.results, cut |-> f.cut]
      /\ f.pc = "select" /\ f.req = find.req /\ f.expr = find.expr /\ f.after = after
      /\ f.page = {} /\ f.fetched = fetched /\ f.results = results /\ f.cut = find.cut
  <2>1. find = [pc |-> find.pc, req |-> find.req, expr |-> find.expr, ids |-> find.ids,
                after |-> find.after, page |-> find.page, fetched |-> find.fetched,
                results |-> find.results, cut |-> find.cut]
    BY DEF SearchInv, SearchShape
  <2>2. f = [pc |-> "select", req |-> find.req, expr |-> find.expr, ids |-> find.ids,
             after |-> after, page |-> {}, fetched |-> fetched, results |-> results,
             cut |-> find.cut]
    <3>1. f = [find EXCEPT !.results = results, !.fetched = fetched, !.after = after,
                           !.pc = "select", !.page = {}]
      OBVIOUS
    <3> HIDE DEF f
    <3> QED
      BY <2>1, <3>1, FetchedIs
  <2> HIDE DEF f
  <2>3. /\ f.pc = "select" /\ f.req = find.req /\ f.expr = find.expr /\ f.ids = find.ids
        /\ f.after = after /\ f.page = {} /\ f.fetched = fetched /\ f.results = results
        /\ f.cut = find.cut
    BY <2>2
  <2> QED
    BY <2>2, <2>3
<1> HIDE DEF f
<1>8. /\ g = [pc |-> g.pc, req |-> g.req, expr |-> g.expr, ids |-> g.ids,
              after |-> g.after, page |-> g.page, fetched |-> g.fetched,
              results |-> g.results, cut |-> g.cut]
      /\ g.pc \in {"select", "done"} /\ g.req = f.req /\ g.results = f.results
      /\ g.page = {} /\ g.after \in {f.after, 0} /\ g.fetched \in {f.fetched, 0}
      /\ g.expr \in Nat /\ g.cut = f.cut
      /\ g.pc = "select" => g.expr \in DOMAIN Exprs /\ g.fetched = 0
      /\ Len(Exprs) <= 1 => g.pc = "done" /\ g.after = f.after
  BY <1>3, <1>7, NextExprIs
<1> HIDE DEF g
\* The three ways on have in common all but that the last may not be full.
<1>9. /\ find' = [pc |-> find'.pc, req |-> find'.req, expr |-> find'.expr,
                  ids |-> find'.ids, after |-> find'.after, page |-> find'.page,
                  fetched |-> find'.fetched, results |-> find'.results,
                  cut |-> find'.cut]
      /\ find'.pc \in {"select", "done"} /\ find'.req = find.req
      /\ find'.results = results /\ find'.page = {}
      /\ find'.after \in {after, 0} /\ find'.fetched \in {fetched, 0}
      /\ find'.expr \in Nat
      /\ find'.pc = "select" => find'.expr \in DOMAIN Exprs
      /\ Len(Exprs) <= 1 => find'.after = after
      /\ find'.pc = "select" =>
            \/ ~(Len(Exprs) <= 1) /\ find'.fetched = 0
            \/ ~Full(f) /\ find'.fetched = fetched
      /\ \/ find'.cut = find.cut
         \/ Full(f) /\ (Len(Exprs) <= 1 => find'.pc = "done")
  <2>1. CASE find' = g
    BY <1>7, <1>8, <2>1
  <2>2. CASE find' = [g EXCEPT !.cut = TRUE] /\ Full(f)
    <3>1. find' = [pc |-> g.pc, req |-> g.req, expr |-> g.expr, ids |-> g.ids,
                   after |-> g.after, page |-> g.page, fetched |-> g.fetched,
                   results |-> g.results, cut |-> TRUE]
      BY <1>8, <2>2
    <3>2. /\ find'.pc = g.pc /\ find'.req = g.req /\ find'.expr = g.expr
          /\ find'.ids = g.ids /\ find'.after = g.after /\ find'.page = g.page
          /\ find'.fetched = g.fetched /\ find'.results = g.results /\ find'.cut = TRUE
      BY <3>1
    <3> QED
      BY <1>7, <1>8, <2>2, <3>1, <3>2
  <2>3. CASE find' = f /\ ~Full(f)
    BY <1>3, <1>7, <2>3
  <2> QED
    BY <1>6, <2>1, <2>2, <2>3
<1>10. SearchShape'
  BY <1>1, <1>2, <1>3, <1>5, <1>9, DocStoreAssumption DEF SearchShape, Exprs
<1>11. BehindCursor'
  <2> SUFFICES ASSUME find.req.client = "find", NEW i \in DOMAIN results
               PROVE  results[i].row <= find'.after
    BY <1>9 DEF BehindCursor
  <2>1. find'.after = after
    BY <1>3, <1>9
  <2>2. CASE i \notin DOMAIN find.results
    BY <1>5, <2>1, <2>2
  <2>3. CASE i \in DOMAIN find.results
    <3>1. results[i] = find.results[i] /\ find.results[i].row <= find.after
      BY <1>1, <1>5, <2>3 DEF SearchInv, BehindCursor
    <3>2. find.results[i] \in Hit /\ find.after \in 0 .. MaxRowid
      BY <2>3 DEF SearchInv, SearchShape
    <3>3. find.results[i].row \in Nat /\ find.after \in Nat /\ after \in Nat
      BY <1>5, <3>2, DocStoreAssumption DEF Hit, Rowids
    <3> QED
      BY <1>5, <2>1, <3>1, <3>3
  <2> QED
    BY <2>2, <2>3
<1>12. FindsEachOnce'
  <2> SUFFICES ASSUME find.req.client = "find",
                      NEW i \in DOMAIN results, NEW j \in DOMAIN results, i < j
               PROVE  results[i].row < results[j].row
    BY <1>9 DEF FindsEachOnce
  <2>1. CASE i \notin DOMAIN find.results
    BY <1>5, <2>1
  <2>2. CASE i \in DOMAIN find.results /\ j \in DOMAIN find.results
    BY <1>1, <1>5, <2>2 DEF SearchInv, FindsEachOnce
  <2>3. CASE i \in DOMAIN find.results /\ j \notin DOMAIN find.results
    <3>1. results[i] = find.results[i] /\ find.results[i].row <= find.after
      BY <1>1, <1>5, <2>3 DEF SearchInv, BehindCursor
    <3>2. find.after < results[j].row /\ results[j].row \in Rowids
      BY <1>1, <1>5, <2>3 DEF SearchInv, BehindCursor, SearchShape
    <3>3. find.results[i] \in Hit /\ find.after \in 0 .. MaxRowid
      BY <2>3 DEF SearchInv, SearchShape
    <3>4. find.results[i].row \in Nat /\ find.after \in Nat /\ results[j].row \in Nat
      BY <3>2, <3>3, DocStoreAssumption DEF Hit, Rowids
    <3> QED
      BY <3>1, <3>2, <3>4
  <2> QED
    BY <2>1, <2>2, <2>3
<1>13. FindsOnlyLive'
  <2>1. wasLive \subseteq wasLive' /\ removed \subseteq removed'
    BY <1>1, <1>9, HistoriesGrow
  <2> SUFFICES ASSUME "page" \notin removed', NEW i \in DOMAIN results
               PROVE  results[i].sentence.doc \in wasLive'
    BY <1>9 DEF FindsOnlyLive, Found, Range
  <2>2. CASE i \in DOMAIN find.results
    BY <1>5, <2>1, <2>2 DEF SearchInv, FindsOnlyLive, Found, Range
  <2>3. CASE i \notin DOMAIN find.results
    BY <1>1, <1>5, <2>1, <2>3 DEF SearchInv, PageWasLive
  <2> QED
    BY <2>2, <2>3
<1>14. Room' /\ FindNearsLimit'
  <2>1. Len(results) \in Nat /\ Len(find.results) \in Nat /\ find.fetched \in Nat
    BY <1>5 DEF SearchInv, SearchShape
  <2>2. ~Full(f) => IF find.req.client = "query" THEN fetched < Budget
                    ELSE find.req.limit > 0 => Len(results) < find.req.limit
    BY <1>3, <1>4, <1>5, <1>7, <2>1 DEF Full
  <2>3. Room'
    BY <1>1, <1>3, <1>4, <1>9, <2>2 DEF SearchInv, Room
  <2>4. IF find.req.client = "query" THEN find.fetched < Budget
        ELSE /\ find.cut = FALSE
             /\ find.req.limit > 0 => Len(find.results) < find.req.limit
    BY <1>1 DEF SearchInv, Room
  <2>5. /\ find'.req = find.req /\ find'.results = results
        /\ find'.fetched \in {fetched, 0}
    BY <1>9
  <2>6. /\ fetched \in Nat /\ fetched <= find.fetched + PageSize
        /\ Len(results) <= Len(find.results) + PageSize
    BY <1>5
  <2>7. CASE find.req.client = "query"
    <3>1. fetched < Budget + PageSize /\ 0 < Budget + PageSize
      BY <1>4, <2>1, <2>4, <2>6, <2>7
    <3>2. find'.fetched < Budget + PageSize
      BY <2>5, <3>1
    <3> QED
      BY <2>3, <2>5, <2>7, <3>2 DEF FindNearsLimit
  <2>8. CASE find.req.client # "query"
    <3>1. find.req.limit > 0 => Len(results) < find.req.limit + PageSize
      BY <1>3, <1>4, <2>1, <2>4, <2>6, <2>8
    <3>2. find'.cut => find.req.limit > 0 /\ Len(results) >= find.req.limit
      BY <1>3, <1>7, <1>9, <2>4, <2>8 DEF Full
    <3> QED
      BY <2>3, <2>5, <2>8, <3>1, <3>2 DEF FindNearsLimit
  <2> QED
    BY <2>7, <2>8
<1> QED
  BY <1>2, <1>9, <1>10, <1>11, <1>12, <1>13, <1>14 DEF SearchInv, PageWasLive

\* The commands change no sentence that stays in the table.
LEMMA SentencesStay ==
    ASSUME TypeInv, Next, NEW r \in DOMAIN sentences, r \in DOMAIN sentences'
    PROVE  sentences'[r] = sentences[r]
<1>1. ASSUME NEW p \in Procs, Proceed(p)
      PROVE  sentences'[r] = sentences[r]
  <2>1. CASE WriteNlpData(Doc(p), job[p].nlp)
    BY <2>1 DEF WriteNlpData
  <2>2. CASE DeleteNlpData(Doc(p))
    BY <2>2 DEF DeleteNlpData
  <2> QED
    BY <1>1, <2>1, <2>2, LiveEffects
    DEF liveVars, WriteMeta, UpdateLabels, WriteLabelsOptimization, WriteLemmaOptimization,
        DeleteLemmaOptimization, DeleteLabelsOptimization, DeleteMeta
<1>2. CASE Curate
  BY <1>2 DEF Curate, CuratorSetLabel, CuratorIngestNlp, CuratorRemove, liveVars
<1>3. ASSUME NEW p \in Procs,
             Fail(p) \/ StartPublish(p) \/ StartUnpublish(p) \/ StartPublishLabel(p)
      PROVE  sentences'[r] = sentences[r]
  BY <1>3 DEF Fail, StartPublish, StartUnpublish, StartPublishLabel, Start, liveVars
<1> QED
  BY <1>1, <1>2, <1>3 DEF Next, Run

\* The other commands run on beside the search.
LEMMA PublishingKeeps ==
    ASSUME SearchInv, Publishing
    PROVE  SearchInv'
<1>1. Next /\ find' = find /\ Witness
  BY DEF Publishing
<1>2. TypeInv /\ TypeInv'
  BY <1>1, NextType DEF SearchInv
<1>3. SearchShape' /\ BehindCursor' /\ Room' /\ FindsEachOnce' /\ FindNearsLimit'
  BY <1>1 DEF SearchInv, SearchShape, BehindCursor, Room, FindsEachOnce, FindNearsLimit, Exprs
<1>4. CASE find.pc \in {"idle", "labels"}
  <2>1. find.results = <<>>
    BY <1>4 DEF SearchInv, SearchShape
  <2> QED
    BY <1>1, <1>2, <1>3, <1>4, <2>1
    DEF SearchInv, PageWasLive, FindsOnlyLive, Found, Range
<1>5. CASE find.pc \notin {"idle", "labels"}
  <2>1. /\ wasLive \subseteq wasLive' /\ removed \subseteq removed'
        /\ find.pc = "fetch" /\ "page" \notin removed' =>
              DOMAIN sentences \subseteq DOMAIN sentences'
    BY <1>1, <1>5, HistoriesGrow
  <2>2. FindsOnlyLive'
    BY <1>1, <2>1 DEF SearchInv, FindsOnlyLive, Found
  <2>3. PageWasLive'
    <3> SUFFICES ASSUME find.pc = "fetch", "page" \notin removed', NEW r \in find.page
                 PROVE  r \in DOMAIN sentences' /\ sentences'[r].doc \in wasLive'
      BY <1>1 DEF PageWasLive
    <3>1. r \in DOMAIN sentences /\ sentences[r].doc \in wasLive
      BY <2>1 DEF SearchInv, PageWasLive
    <3> QED
      BY <1>1, <1>2, <2>1, <3>1, SentencesStay
  <2> QED
    BY <1>2, <1>3, <2>2, <2>3 DEF SearchInv
<1> QED
  BY <1>4, <1>5

\* Every step keeps the invariant.
LEMMA SearchInvStep == SearchInv /\ [SearchNext]_searchVars => SearchInv'
<1> SUFFICES ASSUME SearchInv, [SearchNext]_searchVars
             PROVE  SearchInv'
  OBVIOUS
<1>1. CASE UNCHANGED searchVars
  <2>1. TypeInv'
    BY <1>1, NextType DEF SearchInv, searchVars
  <2>2. UNCHANGED <<find, wasLive, removed, sentences>>
    BY <1>1 DEF searchVars, histories, vars, liveVars
  <2> QED
    BY <2>1, <2>2
    DEF SearchInv, SearchShape, BehindCursor, PageWasLive, Room, FindsEachOnce,
        FindsOnlyLive, FindNearsLimit, Exprs, Found
<1>2. CASE SearchNext
  BY <1>2, StartKeeps, ResolveKeeps, SelectKeeps, FetchKeeps, ReportKeeps, PublishingKeeps
  DEF SearchNext, FindStep
<1> QED
  BY <1>1, <1>2

-----------------------------------------------------------------------------
(* Theorems                                                                *)

\* A find reports no row twice, and reports them in the order of the table, for any
\* pages and whatever goes live and off between them: its cursor is never before a
\* row it has reported.
THEOREM FindReportsOnce == SearchSpec => []FindsEachOnce
<1>1. SearchInv => FindsEachOnce
  BY DEF SearchInv
<1> QED
  BY <1>1, SearchInvInit, SearchInvStep, PTL DEF SearchSpec

\* A search reports sentences of documents only that were live during it, unless
\* rows are deleted between the two statements for a page: the rows of a page have
\* been found by the lemma index.
THEOREM SearchFindsLive == SearchSpec => []FindsOnlyLive
<1>1. SearchInv => FindsOnlyLive
  BY DEF SearchInv
<1> QED
  BY <1>1, SearchInvInit, SearchInvStep, PTL DEF SearchSpec

\* A find that was cut short has what its limit asks for, and a search goes beyond
\* its limit, or its budget, by less than a page.
THEOREM SearchNearsLimit == SearchSpec => []FindNearsLimit
<1>1. SearchInv => FindNearsLimit
  BY DEF SearchInv
<1> QED
  BY <1>1, SearchInvInit, SearchInvStep, PTL DEF SearchSpec

-----------------------------------------------------------------------------
(* Pages, and what is found in them                                        *)

\* The first rows of a set come before the others, and some do.
LEMMA FirstOfIs ==
    ASSUME NEW S \in SUBSET Rowids, NEW n \in Nat \ {0}
    PROVE  /\ FirstOf(n, S) \subseteq S
           /\ S # {} => FirstOf(n, S) # {}
           /\ \A r \in S \ FirstOf(n, S) : \A q \in FirstOf(n, S) : q < r
<1>1. FirstOf(n, S) = {r \in S : Before(S, r) < n}
  BY DEF FirstOf, Before
<1>2. \A r \in S : r \in Nat /\ r \in Rowids /\ Before(S, r) \in Nat
  BY RowsAreFinite, DocStoreAssumption DEF Rowids
<1>3. S # {} => FirstOf(n, S) # {}
  <2>1. IsFiniteSet(S) /\ Cardinality(S) \in Nat
    BY RowsAreFinite
  <2>2. S # {} => 1 \in 1 .. Cardinality(S)
    BY <2>1, FS_EmptySet
  <2>3. S # {} => \E r \in S : Before(S, r) = 1 - 1
    BY <2>2, BeforeIsRank
  <2> QED
    BY <1>1, <2>3
<1>4. ASSUME NEW r \in S \ FirstOf(n, S), NEW q \in FirstOf(n, S)
      PROVE  q < r
  <2>1. q \in S /\ Before(S, q) < n /\ ~(Before(S, r) < n)
    BY <1>1
  <2>2. r \in Nat /\ q \in Nat /\ Before(S, q) \in Nat /\ Before(S, r) \in Nat
    BY <1>2, <2>1
  <2>3. r < q => Before(S, r) < Before(S, q)
    BY <1>2, <2>1, BeforeGrows
  <2> QED
    BY <2>1, <2>2, <2>3
<1> QED
  BY <1>1, <1>3, <1>4

\* The matches among the rows of a page.
HitsIn(page) == {[row |-> r, sentence |-> sentences[r]] :
                    r \in {q \in page : Text(q) \in find.req.accepts}}

\* Every match among the rows is a hit.
LEMMA HitsAreAll ==
    ASSUME SearchInv, NEW rows \in SUBSET DOMAIN sentences,
           NEW r \in rows, Text(r) \in find.req.accepts
    PROVE  [row |-> r, sentence |-> sentences[r]] \in Range(Hits(rows))
<1> DEFINE S == {q \in rows : Text(q) \in find.req.accepts}
           list == InOrder(S)
           n == Before(S, r) + 1
<1>1. S \in SUBSET Rowids /\ r \in S
  BY DEF SearchInv, TypeInv, TypeOK, LiveTypeOK
<1> HIDE DEF S
<1>2. Before(S, r) \in Nat /\ Before(S, r) < Cardinality(S) /\ Cardinality(S) \in Nat
  BY <1>1, RowsAreFinite
<1>3. n \in 1 .. Cardinality(S) /\ n - 1 = Before(S, r)
  BY <1>2
<1>4. list[n] = CHOOSE q \in S : Before(S, q) = n - 1
  BY <1>3 DEF InOrder, Before
<1>5. list[n] \in S /\ Before(S, list[n]) = Before(S, r)
  BY <1>1, <1>3, <1>4
<1>6. list[n] = r
  BY <1>1, <1>5, BeforeIsRank
<1>7. n \in DOMAIN list
  BY <1>3 DEF InOrder
<1>8. Hits(rows) = [i \in DOMAIN list |-> [row |-> list[i], sentence |-> sentences[list[i]]]]
  BY DEF Hits, S
<1> HIDE DEF list, n
<1>9. n \in DOMAIN Hits(rows) /\ Hits(rows)[n] = [row |-> r, sentence |-> sentences[r]]
  BY <1>6, <1>7, <1>8
<1> HIDE DEF Hits
<1> QED
  BY <1>9 DEF Range

\* And every hit is a match among them.
LEMMA HitsAreIn ==
    ASSUME SearchInv, NEW rows \in SUBSET DOMAIN sentences, NEW h \in Range(Hits(rows))
    PROVE  h \in HitsIn(rows)
<1> DEFINE S == {q \in rows : Text(q) \in find.req.accepts}
           list == InOrder(S)
<1>1. S \in SUBSET Rowids
  BY DEF SearchInv, TypeInv, TypeOK, LiveTypeOK
<1>2. HitsIn(rows) = {[row |-> r, sentence |-> sentences[r]] : r \in S}
  BY DEF HitsIn
<1> HIDE DEF S
<1>3. list \in Seq(S)
  BY <1>1, InOrderIs
<1>4. Hits(rows) = [i \in DOMAIN list |-> [row |-> list[i], sentence |-> sentences[list[i]]]]
  BY DEF Hits, S
<1>5. \A i \in DOMAIN list : list[i] \in S
  BY <1>3
<1> HIDE DEF list
<1>6. PICK i \in DOMAIN list : h = [row |-> list[i], sentence |-> sentences[list[i]]]
  BY <1>4 DEF Range
<1> QED
  BY <1>2, <1>5, <1>6

\* What is found in two sequences.
LEMMA RangeOfBoth ==
    ASSUME NEW s \in Seq(Hit), NEW t \in Seq(Hit)
    PROVE  Range(s \o t) = Range(s) \cup Range(t)
<1>1. /\ Len(s) \in Nat /\ Len(t) \in Nat /\ DOMAIN s = 1 .. Len(s) /\ DOMAIN t = 1 .. Len(t)
      /\ DOMAIN (s \o t) = 1 .. Len(s) + Len(t)
      /\ \A i \in DOMAIN (s \o t) :
            (s \o t)[i] = IF i <= Len(s) THEN s[i] ELSE t[i - Len(s)]
  OBVIOUS
<1>2. ASSUME NEW h \in Range(s \o t)
      PROVE  h \in Range(s) \cup Range(t)
  <2>1. PICK i \in DOMAIN (s \o t) : h = (s \o t)[i]
    BY DEF Range
  <2>2. CASE i <= Len(s)
    BY <1>1, <2>1, <2>2 DEF Range
  <2>3. CASE ~(i <= Len(s))
    <3>1. i - Len(s) \in DOMAIN t /\ h = t[i - Len(s)]
      BY <1>1, <2>1, <2>3
    <3> QED
      BY <3>1 DEF Range
  <2> QED
    BY <2>2, <2>3
<1>3. ASSUME NEW h \in Range(s)
      PROVE  h \in Range(s \o t)
  <2>1. PICK i \in DOMAIN s : h = s[i]
    BY DEF Range
  <2>2. i \in DOMAIN (s \o t) /\ (s \o t)[i] = h
    BY <1>1, <2>1
  <2> QED
    BY <2>2 DEF Range
<1>4. ASSUME NEW h \in Range(t)
      PROVE  h \in Range(s \o t)
  <2>1. PICK i \in DOMAIN t : h = t[i]
    BY DEF Range
  <2>2. i + Len(s) \in DOMAIN (s \o t) /\ (s \o t)[i + Len(s)] = h
    BY <1>1, <2>1
  <2> QED
    BY <2>2 DEF Range
<1> QED
  BY <1>2, <1>3, <1>4

\* Where a search goes after an expression, in all its fields.
LEMMA NextExprGoes ==
    ASSUME NEW f,
           f = [pc |-> f.pc, req |-> f.req, expr |-> f.expr, ids |-> f.ids,
                after |-> f.after, page |-> f.page, fetched |-> f.fetched,
                results |-> f.results, cut |-> f.cut],
           NEW g, g = NextExpr(f)
    PROVE  /\ g.req = f.req /\ g.ids = f.ids /\ g.results = f.results /\ g.cut = f.cut
           /\ g.page = {} /\ [g EXCEPT !.cut = TRUE].cut = TRUE
           /\ \/ /\ g.pc = "select" /\ f.expr < Len(Exprs) /\ g.expr = f.expr + 1
                 /\ g.after = 0
              \/ g.pc = "done" /\ ~(f.expr < Len(Exprs)) /\ g.expr = f.expr
<1>1. CASE f.expr < Len(Exprs)
  <2>1. g = [f EXCEPT !.pc = "select", !.expr = f.expr + 1, !.after = 0, !.page = {},
                      !.fetched = 0]
    BY <1>1 DEF NextExpr
  <2>2. g = [pc |-> "select", req |-> f.req, expr |-> f.expr + 1, ids |-> f.ids,
             after |-> 0, page |-> {}, fetched |-> 0, results |-> f.results,
             cut |-> f.cut]
    BY <2>1
  <2> QED
    BY <1>1, <2>2
<1>2. CASE ~(f.expr < Len(Exprs))
  <2>1. g = [f EXCEPT !.pc = "done", !.page = {}]
    BY <1>2 DEF NextExpr
  <2>2. g = [pc |-> "done", req |-> f.req, expr |-> f.expr, ids |-> f.ids,
             after |-> f.after, page |-> {}, fetched |-> f.fetched,
             results |-> f.results, cut |-> f.cut]
    BY <2>1
  <2> QED
    BY <1>2, <2>2
<1> QED
  BY <1>1, <1>2

\* After a page the search is as it was, but for its progress.
LEMMA FetchedFields ==
    ASSUME SearchInv, FetchPage
    PROVE  /\ find'.pc \in {"select", "done"} /\ find'.req = find.req
           /\ find'.ids = find.ids /\ (find.cut => find'.cut)
<1> DEFINE rows == find.page \cap DOMAIN sentences
           results == find.results \o Hits(rows)
           n == find.fetched + Cardinality(rows)
           f == [find EXCEPT !.results = results, !.fetched = n, !.after = NewCursor(rows),
                             !.pc = "select", !.page = {}]
           g == NextExpr(f)
<1>1. find' = IF f.after = find.after THEN g
              ELSE IF Full(f) THEN [g EXCEPT !.cut = TRUE] ELSE f
  BY DEF FetchPage
<1>2. f = [pc |-> "select", req |-> find.req, expr |-> find.expr, ids |-> find.ids,
           after |-> NewCursor(rows), page |-> {}, fetched |-> n, results |-> results,
           cut |-> find.cut]
  <2>1. find = [pc |-> find.pc, req |-> find.req, expr |-> find.expr, ids |-> find.ids,
                after |-> find.after, page |-> find.page, fetched |-> find.fetched,
                results |-> find.results, cut |-> find.cut]
    BY DEF SearchInv, SearchShape
  <2>2. f = [find EXCEPT !.results = results, !.fetched = n, !.after = NewCursor(rows),
                         !.pc = "select", !.page = {}]
    OBVIOUS
  <2> HIDE DEF f, results, n, rows
  <2> QED
    BY <2>1, <2>2, FetchedIs
<1> HIDE DEF f, results, n, rows
<1>3. f = [pc |-> f.pc, req |-> f.req, expr |-> f.expr, ids |-> f.ids,
           after |-> f.after, page |-> f.page, fetched |-> f.fetched,
           results |-> f.results, cut |-> f.cut]
  BY <1>2
<1>4. f.pc = "select" /\ f.req = find.req /\ f.ids = find.ids /\ f.cut = find.cut
  BY <1>2
<1>5. /\ g.pc \in {"select", "done"} /\ g.req = f.req /\ g.ids = f.ids /\ g.cut = f.cut
      /\ [g EXCEPT !.cut = TRUE].cut = TRUE
  BY <1>3, NextExprGoes
<1> HIDE DEF g
<1>6. LET y == [g EXCEPT !.cut = TRUE]
      IN y.pc = g.pc /\ y.req = g.req /\ y.ids = g.ids
  OBVIOUS
<1> QED
  BY <1>1, <1>4, <1>5, <1>6

\* A page whose rows are all there is reported whole and passed by the cursor.
LEMMA PageIsFetched ==
    ASSUME SearchInv, FetchPage, find.page # {}, find.page \subseteq DOMAIN sentences,
           ~find'.cut
    PROVE  \E m \in find.page :
            /\ \A q \in find.page : q <= m
            /\ find'.pc = "select" /\ find'.req = find.req /\ find'.ids = find.ids
            /\ find'.expr = find.expr /\ find'.after = m /\ find'.page = {}
            /\ ~find.cut
            /\ Found' = Found \cup HitsIn(find.page)
<1> DEFINE page == find.page
           m == Max(page \cup {find.after})
           results == find.results \o Hits(page)
           n == find.fetched + Cardinality(page)
           f == [find EXCEPT !.results = results, !.fetched = n, !.after = m,
                             !.pc = "select", !.page = {}]
           g == NextExpr(f)
<1>1. /\ find.pc = "fetch" /\ SearchShape /\ page \in SUBSET Rowids
      /\ find.after \in 0 .. MaxRowid /\ find.results \in Seq(Hit)
  BY DEF FetchPage, SearchInv, SearchShape
<1>2. page \cap DOMAIN sentences = page
  OBVIOUS
<1>3. find' = IF f.after = find.after THEN g
              ELSE IF Full(f) THEN [g EXCEPT !.cut = TRUE] ELSE f
  BY <1>2 DEF FetchPage, NewCursor
<1>4. m \in page /\ (\A q \in page : q <= m) /\ m # find.after
  <2>1. page \cup {find.after} \in SUBSET (0 .. MaxRowid)
    BY <1>1 DEF Rowids
  <2> HIDE DEF page
  <2>2. m \in page \cup {find.after} /\ \A q \in page \cup {find.after} : q <= m
    BY <2>1, MaxOfRows
  <2>3. PICK q \in page : TRUE
    BY DEF page
  <2>4. find.after < q /\ q \in Nat /\ m \in Nat /\ find.after \in Nat
    BY <1>1, <2>1, <2>2, <2>3, DocStoreAssumption DEF SearchInv, BehindCursor, page
  <2> QED
    BY <2>2, <2>3, <2>4
<1> HIDE DEF m, n
<1>5. f = [pc |-> "select", req |-> find.req, expr |-> find.expr, ids |-> find.ids,
           after |-> m, page |-> {}, fetched |-> n, results |-> results, cut |-> find.cut]
  <2>1. find = [pc |-> find.pc, req |-> find.req, expr |-> find.expr, ids |-> find.ids,
                after |-> find.after, page |-> find.page, fetched |-> find.fetched,
                results |-> find.results, cut |-> find.cut]
    BY <1>1 DEF SearchShape
  <2>2. f = [find EXCEPT !.results = results, !.fetched = n, !.after = m,
                         !.pc = "select", !.page = {}]
    OBVIOUS
  <2> HIDE DEF f, results
  <2> QED
    BY <2>1, <2>2, FetchedIs
<1>6. /\ f = [pc |-> f.pc, req |-> f.req, expr |-> f.expr, ids |-> f.ids,
              after |-> f.after, page |-> f.page, fetched |-> f.fetched,
              results |-> f.results, cut |-> f.cut]
      /\ f.after = m
  <2> HIDE DEF f, results
  <2> QED
    BY <1>5
<1> HIDE DEF f
<1>7. [g EXCEPT !.cut = TRUE].cut = TRUE
  BY <1>6, NextExprGoes
<1> HIDE DEF g
<1>8. find' = f
  BY <1>3, <1>4, <1>6, <1>7
<1>9. Range(Hits(page)) = HitsIn(page)
  <2>1. page \in SUBSET DOMAIN sentences
    OBVIOUS
  <2>2. ASSUME NEW h \in HitsIn(page)
        PROVE  h \in Range(Hits(page))
    BY <2>1, <2>2, HitsAreAll DEF HitsIn
  <2>3. ASSUME NEW h \in Range(Hits(page))
        PROVE  h \in HitsIn(page)
    BY <2>1, <2>3, HitsAreIn
  <2> QED
    BY <2>2, <2>3
<1>10. Hits(page) \in Seq(Hit)
  BY HitsAre
<1>11. Found' = Found \cup HitsIn(page)
  <2>1. find'.results = results
    <3> HIDE DEF results
    <3> QED
      BY <1>5, <1>8
  <2>2. Found' = Range(find.results \o Hits(page))
    BY <2>1 DEF Found
  <2>3. Range(find.results \o Hits(page)) = Range(find.results) \cup Range(Hits(page))
    <3> HIDE DEF page
    <3> QED
      BY <1>1, <1>10, RangeOfBoth
  <2> QED
    BY <1>9, <2>2, <2>3 DEF Found
<1>12. /\ find'.pc = "select" /\ find'.req = find.req /\ find'.ids = find.ids
       /\ find'.expr = find.expr /\ find'.after = m /\ find'.page = {}
       /\ find'.cut = find.cut
  <2> HIDE DEF results
  <2> QED
    BY <1>5, <1>8
<1> QED
  BY <1>4, <1>11, <1>12

-----------------------------------------------------------------------------
(* Nothing is missed                                                       *)

\* What keeps a match with its expression: there is one expression only, or the
\* lemmas of a row stay those of the sentence that it stores.
PayloadsStay == Exclusive /\ StablePayloads
Steadily == Len(Exprs) <= 1 \/ PayloadsStay
PayloadsIndexed ==
    \A r \in DOMAIN sentences, v \in Nlps : sentence_lemmas[r][v] > 0 => v = sentences[r].nlp

\* Match h is to be found by expression k.
Reads(k, h) == Len(Exprs) <= 1 \/ <<h.sentence.nlp, h.sentence.sid>> \in Exprs[k]

SteadyAreWanted == find.pc \in {"select", "fetch", "done"} => steady \subseteq Wanted

\* What the expressions so far, and this one up to the cursor, have found; and that
\* the next page leaves no gap.
NothingBehind ==
    find.pc \in {"select", "fetch"} =>
        \A h \in steady, k \in DOMAIN Exprs :
            Reads(k, h) /\ (k < find.expr \/ (k = find.expr /\ h.row <= find.after))
                => h \in Found
NoGap ==
    find.pc = "fetch" =>
        /\ find.page # {}
        /\ \A h \in steady : Reads(find.expr, h) /\ find.after < h.row =>
              h.row \in find.page \/ \A q \in find.page : q < h.row
NothingMissed ==
    Steadily /\ ~find.cut /\ "page" \notin removed =>
        NothingBehind /\ NoGap /\ (find.pc = "done" => steady \subseteq Found)

MissInv ==
    /\ find.pc \in {"idle", "labels"} => find.after = 0
    /\ SteadyAreWanted
    /\ find.pc \in {"select", "fetch", "done"} => NothingMissed

\* A match that is wanted is wanted by an expression that reads it.
LEMMA WantedIsRead ==
    ASSUME PayloadsStay => PayloadsIndexed, SearchInv, Steadily, NEW h \in Wanted
    PROVE  \E k \in DOMAIN Exprs : Reads(k, h)
<1>1. PICK e \in Range(Exprs) : h \in WantedBy(e)
  BY DEF Wanted
<1>2. PICK k \in DOMAIN Exprs : e = Exprs[k]
  BY <1>1 DEF Range
<1>3. PICK r \in CandidateRows(e, find.ids) : h = [row |-> r, sentence |-> sentences[r]]
  BY <1>1 DEF WantedBy
<1>4. r \in DOMAIN sentences /\ \E v \in Nlps : sentence_lemmas[r][v] > 0
                                             /\ <<v, sentences[r].sid>> \in e
  BY <1>3 DEF CandidateRows, Indexed
<1>5. CASE Len(Exprs) <= 1
  BY <1>2, <1>5 DEF Reads
<1>6. CASE PayloadsStay
  <2>1. <<sentences[r].nlp, sentences[r].sid>> \in e
    BY <1>4, <1>6 DEF PayloadsIndexed
  <2> QED
    BY <1>2, <1>3, <2>1 DEF Reads
<1> QED
  BY <1>5, <1>6 DEF Steadily

\* And is a candidate of every expression that reads it.
LEMMA ReadIsCandidate ==
    ASSUME PayloadsStay => PayloadsIndexed, SearchInv, Steadily, find.pc # "idle",
           NEW h \in Wanted, NEW k \in DOMAIN Exprs, Reads(k, h)
    PROVE  /\ h.row \in CandidateRows(Exprs[k], find.ids) /\ h.row \in DOMAIN sentences
           /\ h = [row |-> h.row, sentence |-> sentences[h.row]]
           /\ Text(h.row) \in find.req.accepts
<1>1. PICK e \in Range(Exprs) : h \in WantedBy(e)
  BY DEF Wanted
<1>2. PICK n \in DOMAIN Exprs : e = Exprs[n]
  BY <1>1 DEF Range
<1>3. PICK r \in CandidateRows(e, find.ids) :
        Text(r) \in find.req.accepts /\ h = [row |-> r, sentence |-> sentences[r]]
  BY <1>1 DEF WantedBy
<1>4. r \in DOMAIN sentences /\ \E v \in Nlps : sentence_lemmas[r][v] > 0
                                             /\ <<v, sentences[r].sid>> \in e
  BY <1>3 DEF CandidateRows, Indexed
<1>5. r \in CandidateRows(Exprs[k], find.ids)
  <2>1. CASE Len(Exprs) <= 1
    <3>1. find.req \in Requests
      BY DEF SearchInv, SearchShape
    <3>2. Exprs \in Seq(SUBSET TextSentences)
      BY <3>1, SearchAssumption DEF Request, Exprs
    <3>3. k \in 1 .. Len(Exprs) /\ n \in 1 .. Len(Exprs) /\ Len(Exprs) \in Nat
      BY <3>2
    <3>4. k = n
      BY <2>1, <3>3
    <3> QED
      BY <1>2, <1>3, <3>4
  <2>2. CASE ~(Len(Exprs) <= 1)
    <3>1. <<sentences[r].nlp, sentences[r].sid>> \in Exprs[k]
      BY <1>3, <2>2 DEF Reads
    <3>2. \E v \in Nlps : sentence_lemmas[r][v] > 0 /\ <<v, sentences[r].sid>> \in Exprs[k]
      BY <1>4, <2>2, <3>1 DEF Steadily, PayloadsIndexed
    <3> QED
      BY <1>3, <3>2 DEF CandidateRows, Indexed
  <2> QED
    BY <2>1, <2>2
<1> QED
  BY <1>3, <1>4, <1>5

\* A match that stays stays wanted, and once it is gone it is forgotten.
LEMMA SteadyShrinks ==
    ASSUME Witness, find.pc # "labels", find'.pc \notin {"idle", "labels"}
    PROVE  steady' = steady \cap Wanted' /\ removed \subseteq removed'
  BY DEF Witness

\* The beginning and the end of a search.
LEMMA EndsMissNothing ==
    ASSUME SearchInv, MissInv, StartSearch \/ ResolveLabels \/ Report
    PROVE  MissInv'
<1>1. CASE StartSearch
  <2>1. find'.pc = "labels" /\ find'.after = find.after /\ find.pc = "idle"
    BY <1>1 DEF StartSearch, SearchInv, SearchShape
  <2> QED
    BY <2>1 DEF MissInv, SteadyAreWanted
<1>2. CASE Report
  <2>1. find'.pc = "idle" /\ find'.after = 0
    BY <1>2 DEF Report, Idle
  <2> QED
    BY <2>1 DEF MissInv, SteadyAreWanted
<1>3. CASE ResolveLabels
  <2>1. /\ find.pc = "labels" /\ Witness
        /\ find' = [find EXCEPT !.ids = find.req.labels \cap labels,
                                !.pc = IF Exprs = <<>> THEN "done" ELSE "select"]
    BY <1>3 DEF ResolveLabels
  <2>2. /\ find'.pc = IF Exprs = <<>> THEN "done" ELSE "select"
        /\ find'.req = find.req /\ find'.after = 0 /\ find'.expr = 1
    BY <2>1 DEF SearchInv, SearchShape, MissInv
  <2>3. steady' = Wanted'
    BY <2>1, <2>2 DEF Witness
  <2>4. CASE Exprs = <<>>
    <3>1. Exprs' = <<>>
      BY <2>2, <2>4 DEF Exprs
    <3>2. Wanted' = {}
      BY <3>1 DEF Wanted, Range
    <3> QED
      BY <2>2, <2>3, <2>4, <3>2
      DEF MissInv, SteadyAreWanted, NothingMissed, NothingBehind, NoGap
  <2>5. CASE Exprs # <<>>
    <3>1. NothingBehind'
      <4>1. find.req \in Requests
        BY <2>1 DEF SearchInv, SearchShape
      <4>2. Exprs' \in Seq(SUBSET TextSentences)
        BY <2>2, <4>1, SearchAssumption DEF Request, Exprs
      <4>3. \A k \in DOMAIN Exprs' : ~(k < 1)
        BY <4>2
      <4>4. SearchInv'
        BY <1>3, ResolveKeeps
      <4>5. \A h \in Wanted' : ~(h.row <= 0)
        <5> SUFFICES ASSUME NEW h \in Wanted'
                     PROVE  ~(h.row <= 0)
          OBVIOUS
        <5>1. PICK e : h \in WantedBy(e)'
          BY DEF Wanted
        <5>2. PICK r \in DOMAIN sentences' : h = [row |-> r, sentence |-> sentences'[r]]
          BY <5>1 DEF WantedBy, CandidateRows
        <5>3. r \in Rowids
          BY <4>4, <5>2 DEF SearchInv, TypeInv, TypeOK, LiveTypeOK
        <5> QED
          BY <5>2, <5>3, DocStoreAssumption DEF Rowids
      <4> QED
        BY <2>2, <2>3, <4>3, <4>5 DEF NothingBehind
    <3> QED
      BY <2>2, <2>3, <2>5, <3>1 DEF MissInv, SteadyAreWanted, NothingMissed, NoGap
  <2> QED
    BY <2>4, <2>5
<1> QED
  BY <1>1, <1>2, <1>3

\* A step of the search leaves what it is to report as it is.
LEMMA WantedStays ==
    ASSUME UNCHANGED vars, find'.req = find.req, find'.ids = find.ids
    PROVE  /\ Exprs' = Exprs /\ Wanted' = Wanted
           /\ \A e : WantedBy(e)' = WantedBy(e)
<1>1. UNCHANGED <<sentences, sentence_lemmas, sentence_labels>> /\ Exprs' = Exprs
  BY DEF vars, liveVars, Exprs
<1>2. ASSUME NEW e
      PROVE  WantedBy(e)' = WantedBy(e)
  <2>1. CandidateRows(e, find.ids)' = CandidateRows(e, find.ids)
    BY <1>1 DEF CandidateRows, Indexed
  <2> QED
    BY <1>1, <2>1 DEF WantedBy, Text
<1>3. Wanted' = Wanted
  BY <1>1, <1>2 DEF Wanted
<1> QED
  BY <1>1, <1>2, <1>3

\* A page is selected, or an expression has come to its end.
LEMMA SelectMissesNothing ==
    ASSUME PayloadsStay => PayloadsIndexed, SearchInv, MissInv, SelectPage
    PROVE  MissInv'
<1> DEFINE S == RowsAfterCursor(Exprs[find.expr])
           page == FirstOf(PageSize, S)
<1>1. /\ find.pc = "select" /\ UNCHANGED vars /\ Witness
      /\ find' = IF page = {} THEN NextExpr(find)
                 ELSE [find EXCEPT !.pc = "fetch", !.page = page]
  BY DEF SelectPage
<1>2. Len(Exprs) \in Nat /\ DOMAIN Exprs = 1 .. Len(Exprs) /\ find.expr \in DOMAIN Exprs
  BY <1>1, RequestIs
<1>3. S \in SUBSET Rowids
  BY DEF RowsAfterCursor, CandidateRows, SearchInv, TypeInv, TypeOK, LiveTypeOK
<1>4. /\ page \subseteq S /\ (S # {} => page # {})
      /\ \A r \in S \ page : \A q \in page : q < r
  BY <1>3, SearchAssumption, FirstOfIs
<1>5. SearchShape /\ SteadyAreWanted /\ NothingMissed
  BY <1>1 DEF SearchInv, MissInv
<1> HIDE DEF page
<1>6. /\ find'.req = find.req /\ find'.ids = find.ids /\ find'.results = find.results
      /\ find'.cut = find.cut
      /\ \/ /\ page # {} /\ find'.pc = "fetch" /\ find'.expr = find.expr
            /\ find'.after = find.after /\ find'.page = page
         \/ /\ page = {} /\ find'.pc = "select" /\ find'.expr = find.expr + 1
            /\ find'.after = 0
         \/ page = {} /\ find'.pc = "done" /\ ~(find.expr < Len(Exprs))
  <2>1. CASE page = {}
    <3>1. find' = NextExpr(find)
      BY <1>1, <2>1
    <3> QED
      BY <1>5, <2>1, <3>1, NextExprGoes DEF SearchShape
  <2>2. CASE page # {}
    <3>1. find' = [find EXCEPT !.pc = "fetch", !.page = page]
      BY <1>1, <2>2
    <3> QED
      BY <1>5, <2>2, <3>1 DEF SearchShape
  <2> QED
    BY <2>1, <2>2
<1>7. Exprs' = Exprs /\ Found' = Found /\ Wanted' = Wanted
  <2>1. Found' = Found
    BY <1>6 DEF Found
  <2>2. find'.req = find.req /\ find'.ids = find.ids
    BY <1>6
  <2> QED
    BY <1>1, <2>1, <2>2, WantedStays
<1>8. steady' = steady /\ removed \subseteq removed'
  BY <1>1, <1>5, <1>6, <1>7, SteadyShrinks DEF SteadyAreWanted
<1>9. ASSUME Steadily, ~find.cut, "page" \notin removed
      PROVE  NothingBehind' /\ NoGap' /\ (find'.pc = "done" => steady' \subseteq Found')
  <2>1. NothingBehind
    BY <1>9, <1>5 DEF NothingMissed
  <2>2. ASSUME NEW h \in steady, Reads(find.expr, h), find.after < h.row
        PROVE  h.row \in S
    <3>1. h.row \in CandidateRows(Exprs[find.expr], find.ids)
      BY <1>1, <1>2, <1>5, <1>9, <2>2, ReadIsCandidate DEF SteadyAreWanted
    <3> QED
      BY <2>2, <3>1 DEF RowsAfterCursor
  <2>3. CASE find'.pc = "fetch"
    <3>1. NothingBehind'
      BY <1>1, <1>6, <1>7, <1>8, <2>1, <2>3 DEF NothingBehind, Reads
    <3>2. NoGap'
      BY <1>4, <1>6, <1>7, <1>8, <2>2, <2>3 DEF NoGap, Reads
    <3> QED
      BY <2>3, <3>1, <3>2
  <2>4. CASE page = {}
    <3>1. ASSUME NEW h \in steady, NEW k \in DOMAIN Exprs, Reads(k, h), k <= find.expr
          PROVE  h \in Found
      <4>1. CASE k < find.expr
        BY <1>1, <2>1, <3>1, <4>1 DEF NothingBehind
      <4>2. CASE k = find.expr
        <5>1. ~(find.after < h.row)
          BY <1>4, <2>2, <2>4, <3>1, <4>2
        <5>2. h \in Wanted
          BY <1>1, <1>5 DEF SteadyAreWanted
        <5>3. h.row \in Rowids
          BY <1>1, <1>2, <1>9, <3>1, <5>2, ReadIsCandidate
          DEF SearchInv, TypeInv, TypeOK, LiveTypeOK
        <5>4. h.row <= find.after
          BY <1>5, <5>1, <5>3, DocStoreAssumption DEF SearchShape, Rowids
        <5> QED
          BY <1>1, <2>1, <3>1, <4>2, <5>4 DEF NothingBehind
      <4>3. k \in Nat /\ find.expr \in Nat
        BY <1>2
      <4> QED
        BY <3>1, <4>1, <4>2, <4>3
    <3>2. CASE find'.pc = "select"
      <4>1. ASSUME NEW h \in steady, NEW k \in DOMAIN Exprs, Reads(k, h),
                   k < find.expr + 1 \/ (k = find.expr + 1 /\ h.row <= 0)
            PROVE  h \in Found
        <5>1. h \in Wanted
          BY <1>1, <1>5 DEF SteadyAreWanted
        <5>2. h.row \in Rowids
          BY <1>1, <1>2, <1>9, <4>1, <5>1, ReadIsCandidate
          DEF SearchInv, TypeInv, TypeOK, LiveTypeOK
        <5>3. ~(h.row <= 0)
          BY <5>2, DocStoreAssumption DEF Rowids
        <5>4. k <= find.expr
          BY <1>2, <4>1, <5>3
        <5> QED
          BY <3>1, <4>1, <5>4
      <4> QED
        BY <1>6, <1>7, <1>8, <2>4, <3>2, <4>1 DEF NothingBehind, NoGap, Reads
    <3>3. CASE find'.pc = "done"
      <4>1. ASSUME NEW h \in steady
            PROVE  h \in Found
        <5>1. h \in Wanted
          BY <1>1, <1>5 DEF SteadyAreWanted
        <5>2. PICK k \in DOMAIN Exprs : Reads(k, h)
          BY <1>9, <5>1, WantedIsRead
        <5>3. k <= find.expr
          BY <1>2, <1>6, <2>4, <3>3
        <5> QED
          BY <3>1, <5>2, <5>3
      <4> QED
        BY <1>6, <1>7, <1>8, <3>3, <4>1 DEF NothingBehind, NoGap
    <3> QED
      BY <1>6, <2>4, <3>2, <3>3
  <2> QED
    BY <1>6, <2>3, <2>4
<1>10. SteadyAreWanted'
  BY <1>1, <1>5, <1>6, <1>7, <1>8 DEF SteadyAreWanted
<1>11. Steadily' = Steadily
  BY <1>7 DEF Steadily
<1>12. NothingMissed'
  BY <1>6, <1>8, <1>9, <1>11 DEF NothingMissed
<1> QED
  BY <1>6, <1>10, <1>12 DEF MissInv

\* A page is fetched.
LEMMA FetchMissesNothing ==
    ASSUME PayloadsStay => PayloadsIndexed, SearchInv, MissInv, FetchPage
    PROVE  MissInv'
<1>1. find.pc = "fetch" /\ UNCHANGED vars /\ Witness
  BY DEF FetchPage
<1>2. Len(Exprs) \in Nat /\ DOMAIN Exprs = 1 .. Len(Exprs) /\ find.expr \in DOMAIN Exprs
  BY <1>1, RequestIs
<1>3. SearchShape /\ SteadyAreWanted /\ NothingMissed
  BY <1>1 DEF SearchInv, MissInv
<1>4. find'.pc \in {"select", "done"} /\ find'.req = find.req /\ find'.ids = find.ids
  BY FetchedFields
<1>5. Exprs' = Exprs /\ Wanted' = Wanted
  BY <1>1, <1>4, WantedStays
<1>6. steady' = steady /\ removed \subseteq removed'
  BY <1>1, <1>3, <1>4, <1>5, SteadyShrinks DEF SteadyAreWanted
<1>7. SteadyAreWanted'
  BY <1>1, <1>3, <1>5, <1>6 DEF SteadyAreWanted
<1>8. ASSUME Steadily, ~find'.cut, "page" \notin removed'
      PROVE  NothingBehind' /\ NoGap' /\ (find'.pc = "done" => steady' \subseteq Found')
  <2>1. "page" \notin removed
    BY <1>6, <1>8
  <2>2. find.page \subseteq DOMAIN sentences
    BY <1>1, <2>1 DEF SearchInv, PageWasLive
  <2>3. find.page # {} \/ find.cut
    BY <1>1, <1>3, <1>8, <2>1 DEF NothingMissed, NoGap
  <2>4. find.cut => find'.cut
    BY FetchedFields
  <2>5. PICK m \in find.page :
            /\ \A q \in find.page : q <= m
            /\ find'.pc = "select" /\ find'.req = find.req /\ find'.ids = find.ids
            /\ find'.expr = find.expr /\ find'.after = m /\ find'.page = {}
            /\ ~find.cut
            /\ Found' = Found \cup HitsIn(find.page)
    BY <1>8, <2>2, <2>3, <2>4, PageIsFetched
  <2>6. NothingBehind /\ NoGap
    BY <1>3, <1>8, <2>1, <2>5 DEF NothingMissed
  <2>7. ASSUME NEW h \in steady, NEW k \in DOMAIN Exprs, Reads(k, h),
               k < find.expr \/ (k = find.expr /\ h.row <= m)
        PROVE  h \in Found'
    <3>1. CASE k < find.expr \/ (k = find.expr /\ h.row <= find.after)
      BY <1>1, <2>5, <2>6, <2>7, <3>1 DEF NothingBehind
    <3>2. CASE k = find.expr /\ ~(h.row <= find.after)
      <4>1. h \in Wanted
        BY <1>1, <1>3 DEF SteadyAreWanted
      <4>2. /\ h.row \in DOMAIN sentences /\ Text(h.row) \in find.req.accepts
            /\ h = [row |-> h.row, sentence |-> sentences[h.row]]
        BY <1>1, <1>8, <2>7, <4>1, ReadIsCandidate
      <4>3. h.row \in Nat /\ find.after \in Nat /\ m \in Nat
        BY <1>3, <2>5, <4>2, DocStoreAssumption
        DEF SearchShape, Rowids, SearchInv, TypeInv, TypeOK, LiveTypeOK
      <4>4. find.after < h.row /\ h.row <= m
        BY <1>2, <2>7, <3>2, <4>3
      <4>5. h.row \in find.page
        BY <1>1, <2>5, <2>6, <2>7, <3>2, <4>3, <4>4 DEF NoGap
      <4>6. h \in HitsIn(find.page)
        BY <4>2, <4>5 DEF HitsIn
      <4> QED
        BY <2>5, <4>6
    <3> QED
      BY <2>7, <3>1, <3>2
  <2> QED
    BY <1>5, <1>6, <2>5, <2>7 DEF NothingBehind, NoGap, Reads
<1>9. Steadily' = Steadily
  BY <1>5 DEF Steadily
<1>10. NothingMissed'
  BY <1>8, <1>9 DEF NothingMissed
<1> QED
  BY <1>4, <1>7, <1>10 DEF MissInv

\* Other commands change what is wanted, but nothing that is steady.
LEMMA PublishingMissesNothing ==
    ASSUME SearchInv, MissInv, Publishing
    PROVE  MissInv'
<1>1. find' = find /\ Witness
  BY DEF Publishing
<1>2. CASE find.pc \in {"idle", "labels"}
  BY <1>1, <1>2 DEF MissInv, SteadyAreWanted
<1>3. CASE find.pc \notin {"idle", "labels"}
  <2>1. steady' = steady \cap Wanted' /\ removed \subseteq removed'
    BY <1>1, <1>3, SteadyShrinks
  <2>2. Exprs' = Exprs /\ Found' = Found
    BY <1>1 DEF Exprs, Found
  <2>3. steady' \subseteq steady /\ steady' \subseteq Wanted'
    BY <2>1
  <2>4. SteadyAreWanted'
    BY <2>3 DEF SteadyAreWanted
  <2>5. NothingMissed => NothingMissed'
    BY <1>1, <2>1, <2>2, <2>3 DEF NothingMissed, NothingBehind, NoGap, Steadily, Reads
  <2> QED
    BY <1>1, <1>3, <2>4, <2>5 DEF MissInv
<1> QED
  BY <1>2, <1>3

\* Every step keeps the invariant.
LEMMA MissInvStep ==
    ASSUME PayloadsStay => PayloadsIndexed, SearchInv, MissInv, [SearchNext]_searchVars
    PROVE  MissInv'
<1>1. CASE UNCHANGED searchVars
  <2>1. UNCHANGED <<find, steady, removed>> /\ Wanted' = Wanted
    BY <1>1
    DEF searchVars, histories, Wanted, Exprs, WantedBy, CandidateRows, Indexed, Text, vars,
        liveVars
  <2> QED
    BY <2>1
    DEF MissInv, SteadyAreWanted, NothingMissed, NothingBehind, NoGap, Steadily, Reads,
        Exprs, Found
<1>2. CASE SearchNext
  BY <1>2, EndsMissNothing, SelectMissesNothing, FetchMissesNothing, PublishingMissesNothing
  DEF SearchNext, FindStep
<1> QED
  BY <1>1, <1>2

\* The lemmas of a row are those of the payload its sentence is from, as long as
\* payloads are stable.
LEMMA PayloadsIndexedStep ==
    ASSUME StablePayloads, WInv, OnePayload, PayloadsIndexed, [Next]_vars
    PROVE  PayloadsIndexed'
<1> USE DEF PayloadsIndexed
<1>0. TypeInv /\ LemmaRows \subseteq DOMAIN sentences
  BY DEF WInv, IInv, Integrity
<1>1. ASSUME UNCHANGED liveVars
      PROVE  PayloadsIndexed'
  BY <1>1 DEF liveVars
<1>2. ASSUME NEW p \in Procs, Proceed(p)
      PROVE  PayloadsIndexed'
  <2> DEFINE d == Doc(p)
             w == job[p].nlp
  <2>1. CASE UNCHANGED <<sentences, sentence_lemmas>>
    BY <2>1
  <2>2. CASE WriteNlpData(d, w)
    <3>1. sentence_lemmas' = sentence_lemmas
      BY <2>2 DEF WriteNlpData
    <3>2. \A r \in DOMAIN sentences : r \in DOMAIN sentences' /\ sentences'[r] = sentences[r]
      BY <2>2 DEF WriteNlpData
    <3>3. \A r, v \in Nlps : TRUE
      OBVIOUS
    <3>4. ASSUME NEW r \in DOMAIN sentences', NEW v \in Nlps, sentence_lemmas[r][v] > 0
          PROVE  r \in DOMAIN sentences
      <4>1. TypeInv'
        BY <1>0, <1>2, NextType DEF Next, Run
      <4>2. r \in Rowids
        BY <4>1 DEF TypeInv, TypeOK, LiveTypeOK
      <4> QED
        BY <1>0, <3>4, <4>2 DEF LemmaRows
    <3> QED
      BY <3>1, <3>2, <3>4
  <2>3. CASE WriteLemmaOptimization(d, w)
    <3>1. ASSUME NEW r \in DOMAIN sentences, NEW v \in Nlps, r \in RowsOf(d), v = w
          PROVE  v = sentences[r].nlp
      <4>1. d \in Docs
        BY <1>0 DEF TypeInv, TypeOK, Job, Doc
      <4>2. PICK x \in Nlps : IsOf(d, x)
        BY <4>1 DEF OnePayload
      <4>3. sentences[r].nlp = x /\ w \in {x, NoNlp}
        BY <3>1, <4>2 DEF IsOf
      <4> QED
        BY <3>1, <4>3, CorpusStoreAssumption
    <3> QED
      BY <1>0, <2>3, <3>1 DEF WriteLemmaOptimization, TypeInv, TypeOK, LiveTypeOK
  <2>4. CASE DeleteLemmaOptimization(d)
    BY <1>0, <2>4 DEF DeleteLemmaOptimization, TypeInv, TypeOK, LiveTypeOK
  <2>5. CASE DeleteNlpData(d)
    BY <2>5 DEF DeleteNlpData
  <2> QED
    BY <1>2, <2>1, <2>2, <2>3, <2>4, <2>5, LiveEffects
    DEF liveVars, WriteMeta, UpdateLabels, WriteLabelsOptimization, DeleteLabelsOptimization,
        DeleteMeta
<1>3. ASSUME NEW p \in Procs,
             Fail(p) \/ StartPublish(p) \/ StartUnpublish(p) \/ StartPublishLabel(p)
      PROVE  PayloadsIndexed'
  BY <1>1, <1>3, OtherStepsKeepTables
<1>4. CASE Curate
  BY <1>1, <1>4 DEF Curate, CuratorSetLabel, CuratorIngestNlp, CuratorRemove
<1>5. CASE UNCHANGED vars
  BY <1>1, <1>5 DEF vars
<1> QED
  BY <1>2, <1>3, <1>4, <1>5 DEF Next, Run

\* The search leaves the tables to the commands.
LEMMA SearchIsBeside ==
    /\ SearchInit => Init
    /\ [SearchNext]_searchVars => [Next]_vars
  BY DEF SearchInit, SearchNext, StartSearch, FindStep, ResolveLabels, SelectPage, FetchPage,
         Report, Publishing, searchVars

\* All that the search relies on.
StayInv == PayloadsStay => WInv /\ OnePayload /\ PayloadsIndexed
FullInv == StayInv /\ SearchInv /\ MissInv

\* It holds at first and is kept by every step.
LEMMA FullInvInductive ==
    /\ SearchInit => FullInv
    /\ FullInv /\ [SearchNext]_searchVars => FullInv'
<1>1. ASSUME SearchInit
      PROVE  FullInv
  <2>1. Init
    BY <1>1, SearchIsBeside
  <2>2. PayloadsIndexed
    BY <2>1 DEF Init, LiveInit, PayloadsIndexed
  <2>3. StayInv
    BY <2>1, <2>2, WholeInductive, OnePayloadInit DEF StayInv, PayloadsStay
  <2>4. MissInv
    BY <1>1 DEF SearchInit, Idle, MissInv, SteadyAreWanted
  <2> QED
    BY <1>1, <2>3, <2>4, SearchInvInit DEF FullInv
<1>2. ASSUME FullInv, [SearchNext]_searchVars
      PROVE  FullInv'
  <2>1. [Next]_vars
    BY <1>2, SearchIsBeside
  <2>2. StayInv'
    BY <1>2, <2>1, WholeInductive, OnePayloadStep, PayloadsIndexedStep
    DEF FullInv, StayInv, PayloadsStay
  <2>3. MissInv'
    BY <1>2, MissInvStep DEF FullInv, StayInv
  <2> QED
    BY <1>2, <2>2, <2>3, SearchInvStep DEF FullInv
<1> QED
  BY <1>1, <1>2

\* A find that was not cut short has found every match that was there from its
\* beginning to its end, whatever the commands do between its pages, unless rows
\* are deleted between the two statements for a page; and so has a query for the
\* lemmas of one expression.
THEOREM FindMissesNoMatch ==
    SearchSpec => [](find.pc = "done" /\ Len(Exprs) <= 1 => FindMissesNothing)
<1>1. FullInv => (find.pc = "done" /\ Len(Exprs) <= 1 => FindMissesNothing)
  BY DEF FullInv, MissInv, NothingMissed, Steadily, FindMissesNothing
<1> QED
  BY <1>1, FullInvInductive, PTL DEF SearchSpec

\* The same of every search, of any number of expressions, as long as one command at
\* a time works on a document and payloads are stable: a row cannot pass from the
\* matches of one expression to those of another that is done.
THEOREM SearchMissesNoMatch ==
    Exclusive /\ StablePayloads => (SearchSpec => []FindMissesNothing)
<1> SUFFICES ASSUME PayloadsStay PROVE SearchSpec => []FindMissesNothing
  BY DEF PayloadsStay
<1>1. FullInv => FindMissesNothing
  BY DEF FullInv, MissInv, NothingMissed, Steadily, FindMissesNothing
<1> QED
  BY <1>1, FullInvInductive, PTL DEF SearchSpec

-----------------------------------------------------------------------------
(* Documents are found whole                                               *)

\* The rows of a document lie together; the labels that a publish has to index are
\* of a document that it has just created; and nobody runs publish-label.
Together ==
    \A r, q, x \in DOMAIN sentences :
        sentences[r].doc = sentences[q].doc /\ r < x /\ x < q
            => sentences[x].doc = sentences[r].doc
Fresh(p) ==
    pc[p] \in {"pub_has_sentences", "pub_write_sentences", "pub_has_labels",
               "pub_write_labels"} /\ job[p].ids # {} => Unindexed(Doc(p))
Arranged == Together /\ \A p \in Procs : Fresh(p) /\ pc[p] \notin LabelPCs

Undisturbed == Exclusive /\ "publish-label" \notin Commands

\* New rows come after all others.
LEMMA TogetherStep ==
    ASSUME WInv, Together, [Next]_vars
    PROVE  Together'
<1>0. TypeInv /\ TypeInv'
  BY NextType DEF WInv, IInv
<1>1. ASSUME NEW p \in Procs, Proceed(p)
      PROVE  Together'
  <2> DEFINE d == Doc(p)
             v == job[p].nlp
  <2>1. CASE pc[p] = "pub_write_sentences" /\ WriteNlpData(d, v)
    <3>1. RowsOf(d) = {}
      BY <2>1 DEF WInv, IInv, Progress
    <3>2. PICK top \in 0 .. MaxRowid :
            /\ IsTopRowid(top)
            /\ sentences' =
                [r \in DOMAIN sentences \cup (top + 1 .. top + NumSentences[v]) |->
                    IF r \in DOMAIN sentences
                    THEN sentences[r]
                    ELSE [doc |-> d, sid |-> r - top - 1, nlp |-> v]]
      BY <2>1 DEF WriteNlpData
    <3>3. \A r \in DOMAIN sentences : r \in Nat /\ r <= top /\ sentences[r].doc # d
      BY <1>0, <3>1, <3>2, DocStoreAssumption
      DEF IsTopRowid, RowsOf, TypeInv, TypeOK, LiveTypeOK, Rowids
    <3>4. \A r \in DOMAIN sentences' : r \in Nat
      BY <1>0, DocStoreAssumption DEF TypeInv, TypeOK, LiveTypeOK, Rowids
    <3>5. \A r \in DOMAIN sentences' :
            \/ r \in DOMAIN sentences /\ sentences'[r] = sentences[r] /\ r <= top
            \/ r \notin DOMAIN sentences /\ top < r /\ sentences'[r].doc = d
      <4> SUFFICES ASSUME NEW r \in DOMAIN sentences', r \notin DOMAIN sentences
                   PROVE  top < r /\ sentences'[r].doc = d
        BY <3>2, <3>3
      <4>1. r \in top + 1 .. top + NumSentences[v]
        BY <3>2
      <4> QED
        BY <3>2, <3>4, <4>1
    <3> SUFFICES ASSUME NEW r \in DOMAIN sentences', NEW q \in DOMAIN sentences',
                        NEW x \in DOMAIN sentences',
                        sentences'[r].doc = sentences'[q].doc, r < x, x < q
                 PROVE  sentences'[x].doc = sentences'[r].doc
      BY DEF Together
    <3>6. CASE r \in DOMAIN sentences
      <4>1. q \in DOMAIN sentences
        BY <3>3, <3>5, <3>6
      <4>2. x \in DOMAIN sentences
        BY <3>4, <3>5, <4>1
      <4> QED
        BY <3>5, <3>6, <4>1, <4>2 DEF Together
    <3>7. CASE r \notin DOMAIN sentences
      <4>1. x \notin DOMAIN sentences
        BY <3>4, <3>5, <3>7
      <4> QED
        BY <3>5, <3>7, <4>1
    <3> QED
      BY <3>6, <3>7
  <2>2. CASE DeleteNlpData(d)
    BY <2>2 DEF DeleteNlpData, Together
  <2>3. CASE UNCHANGED sentences
    BY <2>3 DEF Together
  <2> QED
    BY <1>1, <2>1, <2>2, <2>3, LiveEffects
    DEF liveVars, WriteMeta, UpdateLabels, WriteLabelsOptimization, DeleteLabelsOptimization,
        WriteLemmaOptimization, DeleteLemmaOptimization, DeleteMeta
<1>2. CASE UNCHANGED liveVars
  BY <1>2 DEF liveVars, Together
<1>3. CASE Next
  <2>1. CASE Curate
    BY <1>2, <2>1
    DEF Curate, CuratorSetLabel, CuratorIngestNlp, CuratorRemove
  <2>2. ASSUME NEW p \in Procs, Run(p)
        PROVE  Together'
    <3>1. CASE Proceed(p)
      BY <1>1, <3>1
    <3>2. CASE Fail(p) \/ StartPublish(p) \/ StartUnpublish(p) \/ StartPublishLabel(p)
      BY <1>2, <3>2, OtherStepsKeepTables
    <3> QED
      BY <2>2, <3>1, <3>2 DEF Run
  <2> QED
    BY <1>3, <2>1, <2>2 DEF Next
<1> QED
  BY <1>2, <1>3 DEF vars

\* A publish whose row of docs was there keeps no labels; one that has created the
\* row has a document without sentences before it.
LEMMA FreshStep ==
    ASSUME WInv, [Next]_vars, NEW p \in Procs, Fresh(p), Exclusive
    PROVE  Fresh(p)'
<1>0. TypeInv /\ Integrity /\ Progress(p)
  BY DEF WInv, IInv
<1>1. CASE UNCHANGED <<liveVars, pc, job>>
  BY <1>1 DEF liveVars, Fresh, Unindexed, RowsOf, LemmaRows, Doc
<1>2. CASE Proceed(p)
  <2> USE DEF Fresh, Step, Branch, Goto, Remember, TypeInv, TypeOK
  <2>1. CASE PubWriteMeta(p)
    <3>1. WriteMeta(Doc(p), job[p].labels) /\ Doc(p)' = Doc(p)
      BY <1>0, <2>1 DEF PubWriteMeta, Doc, Job
    <3>2. RowsOf(Doc(p)) = {}
      BY <1>0, <3>1 DEF WriteMeta, Integrity, RowsOf
    <3> QED
      BY <3>1, <3>2 DEF WriteMeta, Unindexed, RowsOf, LemmaRows
  <2>2. CASE PubExists(p)
    BY <1>0, <2>2 DEF PubExists, Progress
  <2>3. CASE PubHasSentences(p) \/ PubHasLabels(p)
    BY <1>0, <2>3 DEF PubHasSentences, PubHasLabels, liveVars, Unindexed, RowsOf, LemmaRows, Doc
  <2>4. CASE PubWriteSentences(p)
    <3>1. WriteNlpData(Doc(p), job[p].nlp) /\ job' = job /\ pc[p] = "pub_write_sentences"
      BY <2>4 DEF PubWriteSentences
    <3>2. RowsOf(Doc(p)) = {}
      BY <1>0, <3>1 DEF Progress
    <3>3. sentence_lemmas' = sentence_lemmas /\ LemmaRows \subseteq DOMAIN sentences
      BY <1>0, <3>1 DEF WriteNlpData, Integrity
    <3>4. \A r \in DOMAIN sentences : sentences'[r] = sentences[r]
      BY <3>1 DEF WriteNlpData
    <3>5. Unindexed(Doc(p))'
      BY <3>1, <3>2, <3>3, <3>4 DEF Unindexed, RowsOf, LemmaRows, Doc
    <3> QED
      BY <3>5
  <2>5. pc'[p] \in {"pub_has_sentences", "pub_write_sentences", "pub_has_labels",
                    "pub_write_labels"} =>
            PubWriteMeta(p) \/ PubExists(p) \/ PubHasSentences(p) \/ PubHasLabels(p)
                \/ PubWriteSentences(p)
    BY <1>0, <1>2
    DEF Proceed, PublishStep, UnpublishStep, PublishLabelStep, PubReadNlp, PubReadMeta,
        PubWriteLabels, PubHasLemmas, PubWriteLemmas, PubClear, AfterLemmas, UnpExists,
        UnpHasLemmas, UnpDeleteLemmas, UnpHasLabels, UnpDeleteLabels, UnpHasSentences,
        UnpDeleteSentences, UnpExistsAgain, UnpDeleteMeta, LabExists, LabReadMeta, LabDelete,
        LabUpdate, LabWrite
  <2> QED
    BY <2>1, <2>2, <2>3, <2>4, <2>5
<1>3. ASSUME NEW q \in Procs, q # p, Proceed(q)
      PROVE  Fresh(p)'
  <2>1. pc'[p] = pc[p] /\ job'[p] = job[p] /\ Active(q)
    BY <1>0, <1>3, OthersUnmoved
  <2>2. CASE Active(p)
    <3>1. Doc(p) # Doc(q) /\ Doc(p) \in Docs
      BY <1>0, <1>3, <2>1, <2>2 DEF WInv, IInv, OnePerDocument, TypeInv, TypeOK, Job, Doc
    <3>2. Untouched(Doc(p))
      BY <1>0, <1>3, <3>1, OtherDocumentsUntouched
    <3>3. Doc(p)' = Doc(p)
      BY <2>1 DEF Doc
    <3>4. Unindexed(Doc(p)) => Unindexed(Doc(p))'
      BY <3>2, <3>3 DEF Untouched, Unindexed, LemmaRows
    <3> QED
      BY <2>1, <3>3, <3>4 DEF Fresh
  <2>3. CASE ~Active(p)
    BY <2>1, <2>3 DEF Fresh, Active, Stopped
  <2> QED
    BY <2>2, <2>3
<1>4. ASSUME NEW q \in Procs,
             Fail(q) \/ StartPublish(q) \/ StartUnpublish(q) \/ StartPublishLabel(q)
      PROVE  Fresh(p)'
  <2>1. UNCHANGED liveVars
    BY <1>4, OtherStepsKeepTables
  <2>2. \/ pc'[p] = pc[p] /\ job'[p] = job[p]
        \/ pc'[p] \in {"failed", "pub_read_nlp", "unp_exists", "lab_exists"}
    BY <1>0, <1>4
    DEF Fail, StartPublish, StartUnpublish, StartPublishLabel, Start, Goto, Remember,
        TypeInv, TypeOK
  <2> QED
    BY <2>1, <2>2 DEF liveVars, Fresh, Unindexed, RowsOf, LemmaRows, Doc
<1>5. CASE Curate
  BY <1>1, <1>5 DEF Curate, CuratorSetLabel, CuratorIngestNlp, CuratorRemove
<1> QED
  BY <1>1, <1>2, <1>3, <1>4, <1>5 DEF Next, Run, vars

\* Nobody begins a publish-label that is not among the commands.
LEMMA NoLabelLines ==
    ASSUME TypeInv, "publish-label" \notin Commands, [Next]_vars, NEW p \in Procs,
           pc[p] \notin LabelPCs
    PROVE  pc'[p] \notin LabelPCs
<1>1. ASSUME NEW q \in Procs, Proceed(q)
      PROVE  pc'[p] \notin LabelPCs
  <2>1. CASE p # q
    BY <1>1, <2>1, OthersUnmoved
  <2>2. CASE p = q
    <3> USE DEF Step, Branch, Goto, LabelPCs, TypeInv, TypeOK
    <3>1. CASE PublishStep(p)
      BY <3>1
      DEF PublishStep, PubReadNlp, PubReadMeta, PubExists, PubWriteMeta, PubHasSentences,
          PubWriteSentences, PubHasLabels, PubWriteLabels, PubHasLemmas, PubWriteLemmas,
          PubClear, AfterLemmas
    <3>2. CASE UnpublishStep(p)
      BY <3>2
      DEF UnpublishStep, UnpExists, UnpHasLemmas, UnpDeleteLemmas, UnpHasLabels,
          UnpDeleteLabels, UnpHasSentences, UnpDeleteSentences, UnpExistsAgain, UnpDeleteMeta
    <3>3. CASE PublishLabelStep(p)
      BY <3>3 DEF PublishLabelStep, LabExists, LabReadMeta, LabDelete, LabUpdate, LabWrite
    <3> QED
      BY <1>1, <2>2, <3>1, <3>2, <3>3 DEF Proceed
  <2> QED
    BY <2>1, <2>2
<1>2. ASSUME NEW q \in Procs,
             Fail(q) \/ StartPublish(q) \/ StartUnpublish(q) \/ StartPublishLabel(q)
      PROVE  pc'[p] \notin LabelPCs
  BY <1>2
  DEF Fail, StartPublish, StartUnpublish, StartPublishLabel, Start, Goto, LabelPCs, TypeInv,
      TypeOK
<1> QED
  BY <1>1, <1>2
  DEF Next, Run, vars, Curate, CuratorSetLabel, CuratorIngestNlp, CuratorRemove

\* So the tables stay arranged.
LEMMA ArrangedInductive ==
    ASSUME Undisturbed
    PROVE  /\ Init => Arranged
           /\ WInv /\ Arranged /\ [Next]_vars => Arranged'
<1>1. Init => Arranged
  BY DEF Init, LiveInit, Arranged, Together, Fresh, LabelPCs
<1>2. ASSUME WInv, Arranged, [Next]_vars
      PROVE  Arranged'
  <2>1. TypeInv
    BY <1>2 DEF WInv, IInv
  <2> QED
    BY <1>2, <2>1, TogetherStep, FreshStep, NoLabelLines DEF Arranged, Undisturbed
<1> QED
  BY <1>1, <1>2

\* As long as no row is taken off the lemma index, the rows of a live document stay as
\* they are, in the table and in both indexes.
Kept(d) ==
    /\ RowsOf(d)' = RowsOf(d)
    /\ \A r \in RowsOf(d) : /\ sentences'[r] = sentences[r]
                            /\ sentence_lemmas'[r] = sentence_lemmas[r]
                            /\ sentence_labels'[r] = sentence_labels[r]

\* Rows are written only where there are none yet.
LEMMA LiveRowsStay ==
    ASSUME WInv, Arranged, [Next]_vars, LemmaRows \subseteq LemmaRows',
           NEW d \in Docs, ~Unindexed(d)
    PROVE  Kept(d)
<1>0. TypeInv
  BY DEF WInv, IInv
<1>1. CASE UNCHANGED liveVars
  BY <1>1 DEF liveVars, Kept, RowsOf
<1>2. ASSUME NEW p \in Procs, Proceed(p), Doc(p) # d
      PROVE  Kept(d)
  <2>1. Untouched(d)
    BY <1>0, <1>2, OtherDocumentsUntouched
  <2>2. \A r \in RowsOf(d) : r \in DOMAIN sentences /\ r \in DOMAIN sentences'
    BY <2>1 DEF Untouched, RowsOf
  <2>3. \A r \in RowsOf(d) : sentences'[r] = sentences[r]
    BY <1>0, <1>2, <2>2, SentencesStay DEF Next, Run
  <2> QED
    BY <2>1, <2>3 DEF Untouched, Kept
<1>3. ASSUME NEW p \in Procs, Proceed(p), Doc(p) = d
      PROVE  Kept(d)
  <2>1. /\ Progress(p) /\ Reached(p) /\ Fresh(p) /\ pc[p] \notin LabelPCs
    BY DEF WInv, IInv, Arranged
  <2>2. PICK r \in RowsOf(d) : r \in LemmaRows /\ r \in LemmaRows'
    BY DEF Unindexed
  <2>3. CASE /\ pc[p] \in {"pub_write_labels", "lab_write"}
             /\ WriteLabelsOptimization(d, job[p].ids)
    <3>1. job[p].ids = {}
      BY <1>3, <2>1, <2>3 DEF Fresh, LabelPCs
    <3>2. sentence_labels' = sentence_labels
      BY <1>0, <2>3, <3>1 DEF WriteLabelsOptimization, TypeInv, TypeOK, LiveTypeOK
    <3> QED
      BY <2>3, <3>2 DEF WriteLabelsOptimization, Kept, RowsOf
  <2>4. CASE DeleteLemmaOptimization(d)
    <3>1. r \in Rowids
      BY <2>2 DEF LemmaRows
    <3>2. \A v \in Nlps : sentence_lemmas'[r][v] = 0
      BY <2>2, <2>4, <3>1 DEF DeleteLemmaOptimization
    <3> QED
      BY <2>2, <3>2 DEF LemmaRows
  <2>5. ~(pc[p] = "pub_write_sentences")
    BY <1>3, <2>1, <2>2 DEF Progress
  <2>6. ~(pc[p] = "pub_write_lemmas")
    BY <1>3, <2>1 DEF Reached
  <2>7. ~(pc[p] \in {"unp_delete_labels", "lab_delete", "unp_delete_sentences"})
    BY <1>3, <2>1 DEF Progress, LabelPCs
  <2>8. CASE UNCHANGED <<sentences, sentence_lemmas, sentence_labels>>
    BY <2>8 DEF Kept, RowsOf
  <2> QED
    BY <1>3, <2>3, <2>4, <2>5, <2>6, <2>7, <2>8, LiveEffects
    DEF liveVars, WriteMeta, UpdateLabels, DeleteMeta
<1>4. CASE Next
  <2>1. CASE Curate
    BY <1>1, <2>1
    DEF Curate, CuratorSetLabel, CuratorIngestNlp, CuratorRemove
  <2>2. ASSUME NEW p \in Procs, Run(p)
        PROVE  Kept(d)
    BY <1>1, <1>2, <1>3, <2>2, OtherStepsKeepTables DEF Run
  <2> QED
    BY <1>4, <2>1, <2>2 DEF Next
<1> QED
  BY <1>1, <1>4 DEF vars

\* Rows that are candidates are of live documents.
LEMMA CandidatesAreLive ==
    ASSUME TypeInv, NEW e, NEW r \in CandidateRows(e, find.ids)
    PROVE  /\ r \in DOMAIN sentences /\ r \in LemmaRows
           /\ sentences[r].doc \in Docs /\ ~Unindexed(sentences[r].doc)
<1>1. r \in DOMAIN sentences /\ \E v \in Nlps : sentence_lemmas[r][v] > 0
  BY DEF CandidateRows, Indexed
<1>2. r \in Rowids /\ sentences[r] \in Sentence
  BY <1>1 DEF TypeInv, TypeOK, LiveTypeOK
<1> QED
  BY <1>1, <1>2 DEF LemmaRows, Unindexed, RowsOf, Sentence

\* While nothing is taken down, the candidates of a live document stay the same, and
\* so do its matches.
LEMMA LiveMatchesStay ==
    ASSUME NEW d \in Docs, Kept(d), find' = find, NEW e
    PROVE  /\ \A r \in RowsOf(d) :
                r \in CandidateRows(e, find.ids)' <=> r \in CandidateRows(e, find.ids)
           /\ \A w : w.sentence.doc = d => (w \in WantedBy(e)' <=> w \in WantedBy(e))
<1>1. \A r \in RowsOf(d) :
        /\ r \in DOMAIN sentences /\ r \in DOMAIN sentences'
        /\ sentences'[r] = sentences[r] /\ sentence_lemmas'[r] = sentence_lemmas[r]
        /\ sentence_labels'[r] = sentence_labels[r]
  BY DEF Kept, RowsOf
<1>2. ASSUME NEW r \in RowsOf(d)
      PROVE  r \in CandidateRows(e, find.ids)' <=> r \in CandidateRows(e, find.ids)
  BY <1>1 DEF CandidateRows, Indexed
<1>3. ASSUME NEW w, w.sentence.doc = d, w \in WantedBy(e)'
      PROVE  w \in WantedBy(e)
  <2>1. PICK r \in CandidateRows(e, find.ids)' :
            /\ <<sentences'[r].nlp, sentences'[r].sid>> \in find'.req.accepts
            /\ w = [row |-> r, sentence |-> sentences'[r]]
    BY <1>3 DEF WantedBy, Text
  <2>2. r \in DOMAIN sentences'
    BY <2>1 DEF CandidateRows
  <2>3. r \in RowsOf(d)
    BY <1>3, <2>1, <2>2 DEF Kept, RowsOf
  <2> QED
    BY <1>1, <1>2, <2>1, <2>3 DEF WantedBy, Text
<1>4. ASSUME NEW w, w.sentence.doc = d, w \in WantedBy(e)
      PROVE  w \in WantedBy(e)'
  <2>1. PICK r \in CandidateRows(e, find.ids) :
            /\ Text(r) \in find.req.accepts
            /\ w = [row |-> r, sentence |-> sentences[r]]
    BY <1>4 DEF WantedBy
  <2>2. r \in RowsOf(d)
    BY <1>4, <2>1 DEF CandidateRows, RowsOf
  <2>3. r \in CandidateRows(e, find.ids)'
    BY <1>2, <2>1, <2>2
  <2>4. <<sentences'[r].nlp, sentences'[r].sid>> \in find'.req.accepts
    BY <1>1, <2>1, <2>2 DEF Text
  <2> QED
    BY <1>1, <2>1, <2>2, <2>3, <2>4 DEF WantedBy, Text
<1> QED
  BY <1>2, <1>3, <1>4

\* No match of document d has been reported; all matches of an expression in it have.
Late(d) == \A h \in Found : h.sentence.doc # d
WholeOf(e, d) == \A w \in WantedBy(e) : w.sentence.doc = d => w \in Found

\* Behind the cursor is what has been found, and documents that came too late and lie
\* behind it with all their rows.
CursorIsLive == find.pc \in {"select", "fetch"} => find.after = 0 \/ find.after \in LemmaRows
WholeBehind ==
    find.pc \in {"select", "fetch"} =>
        \A e \in Range(Exprs) : e = Exprs[find.expr] =>
            \A w \in WantedBy(e) : w.row <= find.after =>
                \/ w \in Found
                \/ /\ Late(w.sentence.doc)
                   /\ \A q \in RowsOf(w.sentence.doc) : q < find.after

\* Before it are the page, what comes after the page, and what comes too late for it.
PageIsNext ==
    find.pc = "fetch" =>
        \A e \in Range(Exprs) : e = Exprs[find.expr] =>
            /\ find.page # {}
            /\ find.page \subseteq CandidateRows(e, find.ids)
            /\ \A w \in WantedBy(e) : find.after < w.row =>
                \/ w.row \in find.page
                \/ \A q \in find.page : q < w.row
                \/ /\ Late(w.sentence.doc)
                   /\ \A q \in find.page : sentences[q].doc # w.sentence.doc

\* The documents reported by earlier expressions are whole.
ReportedWhole ==
    \A h \in Found : \E e \in Range(Exprs) :
        /\ h \in WantedBy(e)
        /\ \/ WholeOf(e, h.sentence.doc)
           \/ find.pc \in {"select", "fetch"} /\ e = Exprs[find.expr]

WholeInv ==
    find.pc \in {"select", "fetch", "done"} /\ ~find.cut /\ "live" \notin removed =>
        CursorIsLive /\ WholeBehind /\ PageIsNext /\ ReportedWhole

\* A match is a row of a document that is live, and the cursor is at none.
LEMMA WantedIsLive ==
    ASSUME TypeInv, NEW e, NEW w \in WantedBy(e)
    PROVE  /\ w.row \in CandidateRows(e, find.ids) /\ Text(w.row) \in find.req.accepts
           /\ w = [row |-> w.row, sentence |-> sentences[w.row]]
           /\ w.row \in DOMAIN sentences /\ w.row \in Nat \ {0}
           /\ w.row \in RowsOf(w.sentence.doc) /\ w.sentence.doc \in Docs
           /\ ~Unindexed(w.sentence.doc)
<1>1. PICK r \in CandidateRows(e, find.ids) :
        Text(r) \in find.req.accepts /\ w = [row |-> r, sentence |-> sentences[r]]
  BY DEF WantedBy
<1>2. /\ r \in DOMAIN sentences /\ sentences[r].doc \in Docs
      /\ ~Unindexed(sentences[r].doc)
  BY CandidatesAreLive
<1>3. r \in Nat \ {0}
  BY <1>2, DocStoreAssumption DEF TypeInv, TypeOK, LiveTypeOK, Rowids
<1> QED
  BY <1>1, <1>2, <1>3 DEF RowsOf

\* A search begins with nothing found.
LEMMA EndsAreWhole ==
    ASSUME SearchInv, MissInv, StartSearch \/ ResolveLabels \/ Report
    PROVE  WholeInv'
<1>1. CASE StartSearch \/ Report
  <2>1. find'.pc \in {"labels", "idle"}
    <3>1. CASE StartSearch
      BY <3>1 DEF StartSearch, SearchInv, SearchShape
    <3>2. CASE Report
      BY <3>2 DEF Report, Idle
    <3> QED
      BY <1>1, <3>1, <3>2
  <2> QED
    BY <2>1 DEF WholeInv
<1>2. CASE ResolveLabels
  <2>1. /\ find.pc = "labels"
        /\ find' = [find EXCEPT !.ids = find.req.labels \cap labels,
                                !.pc = IF Exprs = <<>> THEN "done" ELSE "select"]
    BY <1>2 DEF ResolveLabels
  <2>2. find'.pc # "fetch" /\ find'.after = 0 /\ find'.results = <<>>
    BY <2>1 DEF SearchInv, SearchShape, MissInv
  <2>3. TypeInv'
    BY <1>2, ResolveKeeps DEF SearchInv
  <2>4. \A e : \A w \in WantedBy(e)' : ~(w.row <= 0)
    <3> SUFFICES ASSUME NEW e, NEW w \in WantedBy(e)' PROVE ~(w.row <= 0)
      OBVIOUS
    <3>1. PICK r \in DOMAIN sentences' : w = [row |-> r, sentence |-> sentences'[r]]
      BY DEF WantedBy, CandidateRows
    <3>2. r \in Rowids
      BY <2>3, <3>1 DEF TypeInv, TypeOK, LiveTypeOK
    <3> QED
      BY <3>1, <3>2, DocStoreAssumption DEF Rowids
  <2>5. Found' = {}
    BY <2>2 DEF Found, Range
  <2> QED
    BY <2>2, <2>4, <2>5 DEF WholeInv, CursorIsLive, WholeBehind, PageIsNext, ReportedWhole
<1> QED
  BY <1>1, <1>2

\* A page is selected, or an expression has come to its end.
LEMMA SelectFindsWhole ==
    ASSUME SearchInv, WholeInv, SelectPage
    PROVE  WholeInv'
<1> DEFINE c == Exprs[find.expr]
           S == RowsAfterCursor(c)
           page == FirstOf(PageSize, S)
<1>1. /\ find.pc = "select" /\ UNCHANGED vars /\ Witness
      /\ find' = IF page = {} THEN NextExpr(find)
                 ELSE [find EXCEPT !.pc = "fetch", !.page = page]
  BY DEF SelectPage
<1>2. TypeInv /\ SearchShape /\ find.after \in Nat
  BY DocStoreAssumption DEF SearchInv, SearchShape
<1>3. S \in SUBSET Rowids /\ S \subseteq CandidateRows(c, find.ids)
  BY <1>2 DEF RowsAfterCursor, CandidateRows, TypeInv, TypeOK, LiveTypeOK
<1>4. /\ page \subseteq S /\ (S # {} => page # {})
      /\ \A r \in S \ page : \A q \in page : q < r
  BY <1>3, SearchAssumption, FirstOfIs
<1> HIDE DEF page
<1>5. /\ find'.req = find.req /\ find'.ids = find.ids /\ find'.results = find.results
      /\ find'.cut = find.cut
      /\ \/ /\ page # {} /\ find'.pc = "fetch" /\ find'.expr = find.expr
            /\ find'.after = find.after /\ find'.page = page
         \/ /\ page = {} /\ find'.pc = "select" /\ find'.after = 0
         \/ page = {} /\ find'.pc = "done"
  <2>1. CASE page = {}
    <3>1. find' = NextExpr(find)
      BY <1>1, <2>1
    <3> QED
      BY <1>2, <2>1, <3>1, NextExprGoes DEF SearchShape
  <2>2. CASE page # {}
    <3>1. find' = [find EXCEPT !.pc = "fetch", !.page = page]
      BY <1>1, <2>2
    <3> QED
      BY <1>2, <2>2, <3>1 DEF SearchShape
  <2> QED
    BY <2>1, <2>2
<1>6. Exprs' = Exprs /\ Found' = Found /\ \A e : WantedBy(e)' = WantedBy(e)
  <2>1. find'.req = find.req /\ find'.ids = find.ids
    BY <1>5
  <2> QED
    BY <1>1, <1>5, <2>1, WantedStays DEF Found
<1>7. removed \subseteq removed'
  BY <1>1, <1>5, SteadyShrinks
<1> SUFFICES ASSUME ~find.cut, "live" \notin removed
             PROVE  CursorIsLive' /\ WholeBehind' /\ PageIsNext' /\ ReportedWhole'
  BY <1>5, <1>7 DEF WholeInv
<1>8. CursorIsLive /\ WholeBehind /\ ReportedWhole
  BY <1>1 DEF WholeInv
<1>9. /\ LemmaRows' = LemmaRows /\ sentences' = sentences
      /\ \A d : RowsOf(d)' = RowsOf(d)
  BY <1>1 DEF vars, liveVars, LemmaRows, RowsOf
<1>10. ASSUME NEW w \in WantedBy(c), find.after < w.row
       PROVE  w.row \in S
  BY <1>2, <1>10, WantedIsLive DEF RowsAfterCursor
<1>11. CASE find'.pc = "fetch"
  <2>1. page # {} /\ find'.page = page /\ find'.expr = find.expr
        /\ find'.after = find.after
    BY <1>5, <1>11
  <2>2. \A e : CandidateRows(e, find.ids)' = CandidateRows(e, find.ids)
    BY <1>1, <1>5 DEF vars, liveVars, CandidateRows, Indexed
  <2>3. PageIsNext'
    BY <1>3, <1>4, <1>6, <1>10, <2>1, <2>2 DEF PageIsNext
  <2>4. CursorIsLive'
    BY <1>1, <1>8, <1>9, <2>1 DEF CursorIsLive
  <2>5. WholeBehind'
    BY <1>1, <1>6, <1>8, <1>9, <2>1 DEF WholeBehind, Late
  <2>6. ReportedWhole'
    BY <1>1, <1>6, <1>8, <1>11, <2>1 DEF ReportedWhole, WholeOf
  <2> QED
    BY <2>3, <2>4, <2>5, <2>6
<1>12. CASE page = {}
  <2>1. find'.pc # "fetch" /\ (find'.pc = "select" => find'.after = 0)
    BY <1>5, <1>12
  <2>2. ASSUME NEW w \in WantedBy(c)
        PROVE  w \in Found \/ Late(w.sentence.doc)
    <3>1. ~(find.after < w.row) /\ w.row \in Nat
      BY <1>2, <1>4, <1>10, <1>12, WantedIsLive
    <3>2. w.row <= find.after
      BY <1>2, <3>1
    <3>3. find.expr \in DOMAIN Exprs
      BY <1>1, <1>2 DEF SearchShape
    <3>4. c \in Range(Exprs)
      BY <3>3 DEF Range
    <3> QED
      BY <1>1, <1>8, <3>2, <3>4 DEF WholeBehind
  <2>3. ReportedWhole'
    <3> SUFFICES ASSUME NEW h \in Found
                 PROVE  \E e \in Range(Exprs) : h \in WantedBy(e)
                                             /\ WholeOf(e, h.sentence.doc)
      BY <1>6 DEF ReportedWhole, WholeOf
    <3>1. PICK e \in Range(Exprs) :
            h \in WantedBy(e) /\ (WholeOf(e, h.sentence.doc) \/ e = c)
      BY <1>8 DEF ReportedWhole
    <3>2. e = c => WholeOf(e, h.sentence.doc)
      BY <2>2 DEF WholeOf, Late
    <3> QED
      BY <3>1, <3>2
  <2>4. CursorIsLive' /\ PageIsNext'
    BY <2>1 DEF CursorIsLive, PageIsNext
  <2>5. WholeBehind'
    <3>1. \A e : \A w \in WantedBy(e) : ~(w.row <= 0)
      BY <1>2, WantedIsLive
    <3> QED
      BY <1>6, <2>1, <3>1 DEF WholeBehind
  <2> QED
    BY <2>3, <2>4, <2>5
<1> QED
  BY <1>5, <1>11, <1>12

\* A page is fetched: the cursor goes to its last row, and no document that came too
\* late has rows on both sides of that.
LEMMA FetchFindsWhole ==
    ASSUME SearchInv, WholeInv, Together, LemmaRows \subseteq DOMAIN sentences, FetchPage
    PROVE  WholeInv'
<1> DEFINE c == Exprs[find.expr]
<1>1. find.pc = "fetch" /\ UNCHANGED vars /\ Witness
  BY DEF FetchPage
<1>2. TypeInv /\ SearchShape /\ find.after \in Nat /\ find.expr \in DOMAIN Exprs
  BY <1>1, DocStoreAssumption DEF SearchInv, SearchShape
<1>3. /\ find'.pc \in {"select", "done"} /\ find'.req = find.req /\ find'.ids = find.ids
      /\ find.cut => find'.cut
  BY FetchedFields
<1>4. Exprs' = Exprs /\ \A e : WantedBy(e)' = WantedBy(e)
  BY <1>1, <1>3, WantedStays
<1>5. removed \subseteq removed'
  BY <1>1, <1>3, SteadyShrinks
<1> SUFFICES ASSUME ~find.cut, ~find'.cut, "live" \notin removed
             PROVE  CursorIsLive' /\ WholeBehind' /\ PageIsNext' /\ ReportedWhole'
  BY <1>3, <1>5 DEF WholeInv
<1>6. CursorIsLive /\ WholeBehind /\ PageIsNext /\ ReportedWhole
  BY <1>1 DEF WholeInv
<1>7. c \in Range(Exprs)
  BY <1>2 DEF Range
<1>8. /\ find.page # {} /\ find.page \subseteq CandidateRows(c, find.ids)
      /\ \A w \in WantedBy(c) : find.after < w.row =>
            \/ w.row \in find.page
            \/ \A q \in find.page : q < w.row
            \/ /\ Late(w.sentence.doc)
               /\ \A q \in find.page : sentences[q].doc # w.sentence.doc
  BY <1>1, <1>6, <1>7 DEF PageIsNext
<1>9. \A q \in find.page : /\ q \in DOMAIN sentences /\ q \in Nat /\ q \in LemmaRows
                           /\ find.after < q
  BY <1>1, <1>2, <1>8, CandidatesAreLive, DocStoreAssumption
  DEF SearchInv, BehindCursor, TypeInv, TypeOK, LiveTypeOK, Rowids
<1>10. PICK m \in find.page :
        /\ \A q \in find.page : q <= m
        /\ find'.pc = "select" /\ find'.req = find.req /\ find'.ids = find.ids
        /\ find'.expr = find.expr /\ find'.after = m /\ find'.page = {}
        /\ ~find.cut
        /\ Found' = Found \cup HitsIn(find.page)
  BY <1>8, <1>9, PageIsFetched
<1>11. \A h \in HitsIn(find.page) :
          /\ h \in WantedBy(c) /\ h.row \in find.page
          /\ h.sentence = sentences[h.row]
  BY <1>8 DEF HitsIn, WantedBy
<1>12. /\ LemmaRows' = LemmaRows /\ \A d : RowsOf(d)' = RowsOf(d)
  BY <1>1 DEF vars, liveVars, LemmaRows, RowsOf
<1>13. CursorIsLive'
  BY <1>9, <1>10, <1>12 DEF CursorIsLive
<1>14. PageIsNext'
  BY <1>10 DEF PageIsNext
<1>15. ReportedWhole'
  <2> SUFFICES ASSUME NEW h \in Found'
               PROVE  \E e \in Range(Exprs) : /\ h \in WantedBy(e)
                                              /\ \/ WholeOf(e, h.sentence.doc)'
                                                 \/ e = c
    BY <1>4, <1>10 DEF ReportedWhole
  <2>1. CASE h \in Found
    <3>1. PICK e \in Range(Exprs) :
            h \in WantedBy(e) /\ (WholeOf(e, h.sentence.doc) \/ e = c)
      BY <1>6, <2>1 DEF ReportedWhole
    <3>2. WholeOf(e, h.sentence.doc) => WholeOf(e, h.sentence.doc)'
      BY <1>4, <1>10 DEF WholeOf
    <3> QED
      BY <3>1, <3>2
  <2>2. CASE h \in HitsIn(find.page)
    BY <1>7, <1>11, <2>2
  <2> QED
    BY <1>10, <2>1, <2>2
<1>16. ASSUME NEW w \in WantedBy(c), w.row <= m
       PROVE  \/ w \in Found'
              \/ Late(w.sentence.doc)' /\ \A q \in RowsOf(w.sentence.doc) : q < m
  <2> DEFINE d == w.sentence.doc
  <2>1. /\ w = [row |-> w.row, sentence |-> sentences[w.row]] /\ w.row \in RowsOf(d)
        /\ w.row \in DOMAIN sentences /\ w.row \in Nat /\ Text(w.row) \in find.req.accepts
        /\ \A q \in RowsOf(d) : q \in Nat /\ q \in DOMAIN sentences
    BY <1>2, WantedIsLive, DocStoreAssumption
    DEF RowsOf, TypeInv, TypeOK, LiveTypeOK, Rowids
  <2>2. m \in Nat /\ m \in DOMAIN sentences /\ find.after < m
    BY <1>9, <1>10
  <2>3. ASSUME Late(d), \A q \in find.page : sentences[q].doc # d
        PROVE  Late(d)'
    <3>1. \A h \in HitsIn(find.page) : h.sentence.doc # d
      BY <1>11, <2>3
    <3> QED
      BY <1>10, <2>3, <3>1 DEF Late
  <2>4. CASE w.row <= find.after
    <3>1. w \in Found \/ (Late(d) /\ \A q \in RowsOf(d) : q < find.after)
      BY <1>1, <1>6, <1>7, <2>4 DEF WholeBehind
    <3>2. ASSUME \A q \in RowsOf(d) : q < find.after
          PROVE  /\ \A q \in find.page : sentences[q].doc # d
                 /\ \A q \in RowsOf(d) : q < m
      BY <1>2, <1>9, <2>1, <2>2, <3>2 DEF RowsOf
    <3> QED
      BY <1>10, <2>3, <3>1, <3>2
  <2>5. CASE find.after < w.row
    <3>1. CASE w.row \in find.page
      BY <1>10, <2>1, <3>1 DEF HitsIn
    <3>2. ~(\A q \in find.page : q < w.row)
      BY <1>16, <2>1, <2>2
    <3>3. CASE Late(d) /\ \A q \in find.page : sentences[q].doc # d
      <4>1. sentences[m].doc # d /\ sentences[w.row].doc = d /\ w.row < m
        BY <1>16, <2>1, <2>2, <3>3 DEF RowsOf
      <4>2. ASSUME NEW q \in RowsOf(d)
            PROVE  q < m
        <5>1. q \in Nat /\ q \in DOMAIN sentences /\ sentences[q].doc = d
          BY <2>1 DEF RowsOf
        <5>2. ~(m < q)
          BY <2>1, <2>2, <4>1, <5>1 DEF Together
        <5> QED
          BY <2>2, <4>1, <5>1, <5>2
      <4> QED
        BY <2>3, <3>3, <4>2
    <3> QED
      BY <1>8, <2>5, <3>1, <3>2, <3>3
  <2> QED
    BY <1>2, <2>1, <2>4, <2>5
<1>17. WholeBehind'
  BY <1>4, <1>10, <1>12, <1>16 DEF WholeBehind
<1> QED
  BY <1>13, <1>14, <1>15, <1>17

\* While other commands go on, a document that goes live comes too late as a whole:
\* the cursor and the page are at rows of documents that were live before.
LEMMA PublishingFindsWhole ==
    ASSUME SearchInv, WholeInv, WInv, WInv', Arranged, Arranged', Publishing
    PROVE  WholeInv'
<1>1. Next /\ find' = find /\ Witness
  BY DEF Publishing
<1>2. TypeInv /\ SearchShape /\ find.after \in Nat /\ TypeInv'
  BY DocStoreAssumption DEF SearchInv, SearchShape, WInv, IInv
<1>3. CASE find.pc \in {"idle", "labels"}
  BY <1>1, <1>3 DEF WholeInv
<1>4. CASE find.pc \notin {"idle", "labels"}
  <2>1. /\ removed \subseteq removed'
        /\ "live" \notin removed' => LemmaRows \subseteq LemmaRows'
    BY <1>1, <1>4 DEF Witness
  <2> SUFFICES ASSUME ~find.cut, "live" \notin removed, LemmaRows \subseteq LemmaRows'
               PROVE  CursorIsLive' /\ WholeBehind' /\ PageIsNext' /\ ReportedWhole'
    BY <1>1, <2>1 DEF WholeInv
  <2>2. CursorIsLive /\ WholeBehind /\ PageIsNext /\ ReportedWhole
    BY <1>2, <1>4 DEF WholeInv, SearchShape
  <2>3. Exprs' = Exprs /\ Found' = Found
    BY <1>1 DEF Exprs, Found
  <2>4. \A d \in Docs : ~Unindexed(d) => Kept(d)
    BY <1>1, LiveRowsStay
  <2>5. ASSUME NEW d \in Docs, ~Unindexed(d), NEW e, NEW w, w.sentence.doc = d
        PROVE  w \in WantedBy(e)' <=> w \in WantedBy(e)
    BY <1>1, <2>4, <2>5, LiveMatchesStay
  <2>6. \A h \in Found : h.sentence.doc \in Docs /\ ~Unindexed(h.sentence.doc)
    BY <1>2, <2>2, WantedIsLive DEF ReportedWhole
  <2>7. \A r \in LemmaRows : /\ r \in DOMAIN sentences /\ r \in DOMAIN sentences'
                             /\ sentences'[r] = sentences[r]
                             /\ ~Unindexed(sentences[r].doc)
    <3>1. \A r \in LemmaRows : r \in DOMAIN sentences /\ r \in DOMAIN sentences'
      BY DEF WInv, IInv, Integrity
    <3> QED
      BY <1>1, <1>2, <3>1, SentencesStay DEF Unindexed, RowsOf
  <2>8. ASSUME NEW e, NEW w \in WantedBy(e)'
        PROVE  /\ w.sentence.doc \in Docs /\ w.row \in DOMAIN sentences' /\ w.row \in Nat \ {0}
               /\ w = [row |-> w.row, sentence |-> sentences'[w.row]]
    <3>1. PICK r \in DOMAIN sentences' : w = [row |-> r, sentence |-> sentences'[r]]
      BY DEF WantedBy, CandidateRows
    <3>2. r \in Nat \ {0} /\ sentences'[r].doc \in Docs
      BY <1>2, <3>1, DocStoreAssumption DEF TypeInv, TypeOK, LiveTypeOK, Sentence, Rowids
    <3> QED
      BY <3>1, <3>2
  <2>9. \A d : Unindexed(d) => Late(d)
    BY <2>6 DEF Late
  <2>10. CursorIsLive'
    BY <1>1, <2>2 DEF CursorIsLive
  <2>11. ReportedWhole'
    <3> SUFFICES ASSUME NEW h \in Found
                 PROVE  \E e \in Range(Exprs) :
                          /\ h \in WantedBy(e)'
                          /\ \/ \A w \in WantedBy(e)' : w.sentence.doc = h.sentence.doc
                                                            => w \in Found
                             \/ find.pc \in {"select", "fetch"} /\ e = Exprs[find.expr]
      BY <1>1, <2>3 DEF ReportedWhole, WholeOf
    <3>1. PICK e \in Range(Exprs) :
            /\ h \in WantedBy(e)
            /\ \/ WholeOf(e, h.sentence.doc)
               \/ find.pc \in {"select", "fetch"} /\ e = Exprs[find.expr]
      BY <2>2 DEF ReportedWhole
    <3>2. h \in WantedBy(e)'
      BY <2>5, <2>6, <3>1
    <3>3. \A w \in WantedBy(e)' : w.sentence.doc = h.sentence.doc => w \in WantedBy(e)
      BY <2>5, <2>6
    <3> QED
      BY <3>1, <3>2, <3>3 DEF WholeOf
  <2>12. WholeBehind'
    <3> SUFFICES ASSUME find.pc \in {"select", "fetch"}, NEW e \in Range(Exprs),
                        e = Exprs[find.expr], NEW w \in WantedBy(e)', w.row <= find.after
                 PROVE  \/ w \in Found
                        \/ /\ Late(w.sentence.doc)
                           /\ \A q \in RowsOf(w.sentence.doc)' : q < find.after
      BY <1>1, <2>3 DEF WholeBehind, Late
    <3>1. CASE ~Unindexed(w.sentence.doc)
      <4>1. w \in WantedBy(e)
        BY <2>5, <2>8, <3>1
      <4>2. RowsOf(w.sentence.doc)' = RowsOf(w.sentence.doc)
        BY <2>4, <2>8, <3>1 DEF Kept
      <4> QED
        BY <2>2, <4>1, <4>2 DEF WholeBehind
    <3>2. CASE Unindexed(w.sentence.doc)
      <4> DEFINE d == w.sentence.doc
                 a == find.after
      <4>1. w.row \in Nat \ {0} /\ w.row \in DOMAIN sentences' /\ sentences'[w.row].doc = d
        BY <2>8
      <4>2. a \in LemmaRows
        BY <1>2, <2>2, <4>1 DEF CursorIsLive
      <4>3. a \in DOMAIN sentences' /\ sentences'[a].doc # d
        BY <2>7, <3>2, <4>2
      <4>4. ASSUME NEW q \in RowsOf(d)'
            PROVE  q < a
        <5>1. q \in Nat /\ q \in DOMAIN sentences' /\ sentences'[q].doc = d
          BY <1>2, DocStoreAssumption DEF RowsOf, TypeInv, TypeOK, LiveTypeOK, Rowids
        <5>2. w.row < a
          BY <1>2, <4>1, <4>3
        <5>3. ~(a < q)
          BY <4>1, <4>3, <5>1, <5>2 DEF Arranged, Together
        <5> QED
          BY <1>2, <4>3, <5>1, <5>3
      <4> QED
        BY <2>9, <3>2, <4>4
    <3> QED
      BY <3>1, <3>2
  <2>13. PageIsNext'
    <3> SUFFICES ASSUME find.pc = "fetch", NEW e \in Range(Exprs), e = Exprs[find.expr]
                 PROVE  /\ find.page # {}
                        /\ find.page \subseteq CandidateRows(e, find.ids)'
                        /\ \A w \in WantedBy(e)' : find.after < w.row =>
                            \/ w.row \in find.page
                            \/ \A q \in find.page : q < w.row
                            \/ /\ Late(w.sentence.doc)
                               /\ \A q \in find.page : sentences'[q].doc # w.sentence.doc
      BY <1>1, <2>3 DEF PageIsNext, Late
    <3>1. find.page # {} /\ find.page \subseteq CandidateRows(e, find.ids)
      BY <2>2 DEF PageIsNext
    <3>2. \A q \in find.page : /\ q \in LemmaRows /\ q \in RowsOf(sentences[q].doc)
                               /\ sentences[q].doc \in Docs /\ ~Unindexed(sentences[q].doc)
      BY <1>2, <3>1, CandidatesAreLive DEF RowsOf
    <3>3. \A q \in find.page : sentences'[q] = sentences[q]
      BY <2>7, <3>2
    <3>4. ASSUME NEW q \in find.page
          PROVE  q \in CandidateRows(e, find.ids)'
      <4>1. PICK d \in Docs : d = sentences[q].doc
        BY <3>2
      <4>2. Kept(d) /\ q \in RowsOf(d)
        BY <2>4, <3>2, <4>1
      <4> QED
        BY <1>1, <3>1, <4>2, LiveMatchesStay
    <3>5. ASSUME NEW w \in WantedBy(e)', find.after < w.row
          PROVE  \/ w.row \in find.page
                 \/ \A q \in find.page : q < w.row
                 \/ /\ Late(w.sentence.doc)
                    /\ \A q \in find.page : sentences'[q].doc # w.sentence.doc
      <4>1. CASE ~Unindexed(w.sentence.doc)
        <5>1. w \in WantedBy(e)
          BY <2>5, <2>8, <4>1
        <5> QED
          BY <2>2, <3>3, <3>5, <5>1 DEF PageIsNext
      <4>2. CASE Unindexed(w.sentence.doc)
        BY <2>9, <3>2, <3>3, <4>2
      <4> QED
        BY <4>1, <4>2
    <3> QED
      BY <3>1, <3>4, <3>5
  <2> QED
    BY <2>10, <2>11, <2>12, <2>13
<1> QED
  BY <1>3, <1>4

\* Every step keeps the invariant.
LEMMA WholeInvStep ==
    ASSUME SearchInv, MissInv, WholeInv, WInv, WInv', Arranged, Arranged',
           [SearchNext]_searchVars
    PROVE  WholeInv'
<1>1. CASE UNCHANGED searchVars
  <2>1. /\ UNCHANGED vars /\ UNCHANGED <<find, removed>>
    BY <1>1 DEF searchVars, histories
  <2>2. /\ Exprs' = Exprs /\ Found' = Found /\ \A e : WantedBy(e)' = WantedBy(e)
    BY <2>1, WantedStays DEF Found
  <2>3. /\ sentences' = sentences /\ LemmaRows' = LemmaRows
        /\ \A d : RowsOf(d)' = RowsOf(d)
        /\ \A e : CandidateRows(e, find.ids)' = CandidateRows(e, find.ids)
    BY <2>1 DEF vars, liveVars, LemmaRows, RowsOf, CandidateRows, Indexed
  <2> QED
    BY <2>1, <2>2, <2>3
    DEF WholeInv, CursorIsLive, WholeBehind, PageIsNext, ReportedWhole, Late, WholeOf
<1>2. CASE SearchNext
  BY <1>2, EndsAreWhole, SelectFindsWhole, FetchFindsWhole, PublishingFindsWhole
  DEF SearchNext, FindStep, Arranged, WInv, IInv, Integrity
<1> QED
  BY <1>1, <1>2

\* All that it takes to find documents whole.
ArrangedInv == Undisturbed => WInv /\ Arranged /\ WholeInv

\* It holds at first and is kept by every step.
LEMMA ArrangedInvInductive ==
    /\ SearchInit => ArrangedInv
    /\ FullInv /\ ArrangedInv /\ [SearchNext]_searchVars => ArrangedInv'
<1>1. ASSUME SearchInit
      PROVE  ArrangedInv
  <2>1. Init
    BY <1>1, SearchIsBeside
  <2>2. WholeInv
    BY <1>1 DEF SearchInit, Idle, WholeInv
  <2> QED
    BY <2>1, <2>2, WholeInductive, ArrangedInductive DEF ArrangedInv, Undisturbed
<1>2. ASSUME FullInv, ArrangedInv, [SearchNext]_searchVars, Undisturbed
      PROVE  WInv' /\ Arranged' /\ WholeInv'
  <2>1. [Next]_vars
    BY <1>2, SearchIsBeside
  <2>2. WInv' /\ Arranged'
    BY <1>2, <2>1, WholeInductive, ArrangedInductive DEF ArrangedInv, Undisturbed
  <2> QED
    BY <1>2, <2>2, WholeInvStep DEF ArrangedInv, FullInv
<1>3. FullInv /\ ArrangedInv /\ [SearchNext]_searchVars => ArrangedInv'
  BY <1>2 DEF ArrangedInv
<1> QED
  BY <1>1, <1>3

\* As long as one command at a time works on a document and nobody runs publish-label
\* (which takes a live document off the label index for a while), an expression of a
\* search finds all of a document or nothing, even of one that goes live between two
\* of its pages: new rows come behind the cursor of no search, and the cursor is
\* never in the middle of a document that goes live.
THEOREM FindsAreWhole == Undisturbed => (SearchSpec => []FindsWholeDocuments)
<1> SUFFICES ASSUME Undisturbed PROVE SearchSpec => []FindsWholeDocuments
  OBVIOUS
<1>1. ArrangedInv => FindsWholeDocuments
  BY DEF ArrangedInv, WholeInv, ReportedWhole, WholeOf, FindsWholeDocuments
<1> QED
  BY <1>1, FullInvInductive, ArrangedInvInductive, PTL DEF SearchSpec
=============================================================================
