------------------------------- MODULE Sampler -------------------------------
(***************************************************************************)
(* The topic sampler (sample/topic/topic.go): for each expression of a     *)
(* topic, in a random order, it scans the rows of a label from a random    *)
(* row on and then from the first row to the random one, and picks a       *)
(* sample from the matches, with a part reserved for each group of them:   *)
(* those of the expressions whose String is the same.                      *)
(*                                                                         *)
(* The database does not change here (Search is about that): an expression *)
(* has the rows FindCandidates returns for its lemmas, and those of them   *)
(* its matcher accepts.                                                    *)
(***************************************************************************)
EXTENDS Integers, SequencesExt

CONSTANTS
    Exprs,     \* the entries of the list of expressions of the topic
    Strings,   \* what String returns of them
    Keyings,   \* which expression has which string
    MaxRow,    \* rows are 1 .. MaxRow
    Options,   \* options of a sampler
    MaxBatch   \* maxBatchSize: 500

\* A topic without expressions returns at once.
ASSUME SamplerAssumption ==
    /\ IsFiniteSet(Exprs) /\ Exprs # {} /\ IsFiniteSet(Strings)
    /\ Keyings \subseteq [Exprs -> Strings]
    /\ MaxRow \in Nat \ {0} /\ MaxBatch \in Nat \ {0}
    /\ Options \subseteq [size : Nat, minExprs : Int, minEach : Int, budget : Nat]

Rows == 1 .. MaxRow

VARIABLES
    opts,
    key,       \* key[e]: expr.String(), which keeps of an item its distance if it is
               \* above 0 and its lemma, or its tag if it has no lemma
    labelled,  \* the rows of the label
    cand,      \* cand[e]: candidates of an expression
    accepts,   \* accepts[e]: those its matcher accepts
    s          \* the state of Sample

samplerVars == <<opts, key, labelled, cand, accepts, s>>

\* The locals: todo, what is left of the shuffled expressions; random, the random
\* row of one; found, the rows its two scans have matched; matched, those that
\* matchedExprs counts; results, the matches grouped by string; and, of
\* scanRange, cursor, last (its maxRowid), fetched and the batch size.  handed
\* is history: the rows the callback was called with for this expression.
SamplerTypeOK ==
    /\ s.pc \in {"start", "begin", "forward", "wrap", "next", "select", "ok",
                 "error", "panic"}
    /\ s.todo \in Seq(Exprs)
    /\ s.random \in 0 .. MaxRow /\ s.cursor \in 0 .. MaxRow
    /\ s.last \in 0 .. MaxRow
    /\ s.fetched \in Nat /\ s.handed \in Nat /\ s.batch \in 0 .. MaxBatch
    /\ s.found \in Seq(Rows) /\ s.matched \subseteq Exprs
    /\ s.results \in [Strings -> Seq(Rows)]

\* A match is named by its group and its index in it.
Matches(k) == {k} \X DOMAIN s.results[k]
AllMatches == UNION {Matches(k) : k \in Strings}
Total == Cardinality(AllMatches)

SamplerInit ==
    /\ opts \in Options
    /\ key \in Keyings
    /\ labelled \in SUBSET Rows
    /\ cand \in [Exprs -> SUBSET labelled]
    /\ accepts \in {f \in [Exprs -> SUBSET labelled] :
                        \A e \in Exprs : f[e] \subseteq cand[e]}
    /\ s = [pc |-> "start", todo |-> <<>>, random |-> 0, cursor |-> 0, last |-> 0,
            fetched |-> 0, handed |-> 0, batch |-> 0, found |-> <<>>, matched |-> {},
            results |-> [k \in Strings |-> <<>>], tried |-> {}, sample |-> {}]

Do(next) == s' = next /\ UNCHANGED <<opts, key, labelled, cand, accepts>>

-----------------------------------------------------------------------------
(* Sample                                                                  *)

\* The checks of the options, the range of the label, and the shuffle.
Start ==
    /\ s.pc = "start"
    /\ IF opts.minEach < 1 \/ opts.minExprs * opts.minEach > opts.size
       THEN Do([s EXCEPT !.pc = "error"])
       ELSE IF labelled = {} THEN Do([s EXCEPT !.pc = "ok"])
       ELSE \E order \in SetToSeqs(Exprs) :
                Do([s EXCEPT !.pc = "begin", !.todo = order])

\* scanRange starts a loop of FindCandidates.
Scan(st, pc, cursor, last, budget) ==
    [st EXCEPT !.pc = pc, !.cursor = cursor, !.last = last,
               !.batch = IF budget < MaxBatch THEN budget ELSE MaxBatch]

Budget == opts.budget - s.fetched

\* The forward scan, from a random row of the range.
BeginExpr ==
    /\ s.pc = "begin"
    /\ \E r \in Min(labelled) .. Max(labelled) :
        Do(Scan([s EXCEPT !.random = r, !.fetched = 0, !.handed = 0, !.found = <<>>,
                          !.tried = @ \cup {Head(s.todo)}],
                "forward", r - 1, Max(labelled), opts.budget))

\* A wrong variant, for mutation: the first row of the label is left out.
WrapFromSecond(st) ==
    IF opts.budget > st.fetched
    THEN Scan(st, "wrap", Min(labelled), st.random, opts.budget - st.fetched)
    ELSE [st EXCEPT !.pc = "next"]

\* A wrong variant, for mutation: the wrap scan has a budget of its own.
WrapOwnBudget(st) ==
    IF opts.budget > st.fetched
    THEN Scan(st, "wrap", Min(labelled) - 1, st.random, opts.budget)
    ELSE [st EXCEPT !.pc = "next"]

\* The wrap scan has what is left of the budget, and ends with the random row.
Wrap(st) ==
    IF opts.budget > st.fetched
    THEN Scan(st, "wrap", Min(labelled) - 1, st.random, opts.budget - st.fetched)
    ELSE [st EXCEPT !.pc = "next"]

\* A wrong variant, for mutation: a wrap scan is followed by another.
EndScanWraps(st) == Wrap(st)

EndScan(st) == IF st.pc = "forward" THEN Wrap(st) ELSE [st EXCEPT !.pc = "next"]

\* "Ensures that subsequent queries respect the remaining budget."
BatchOf(size) == IF s.batch > size THEN size ELSE s.batch

Smaller(S, r) == Cardinality({q \in S : q < r})
Page(S, n) == {r \in S : Smaller(S, r) < n}
InOrder(S) == [i \in 1 .. Cardinality(S) |-> CHOOSE r \in S : Smaller(S, r) = i - 1]

\* One FindCandidates of scanRange.  The first row beyond last makes the
\* callback return ErrStopScan; FindCandidates takes it for a graceful end and
\* returns the cursor at that row, and the loop goes on from there: a row that
\* stops the callback is not counted, and each one behind it is read too.
FindCandidates ==
    /\ s.pc \in {"forward", "wrap"}
    /\ LET e == Head(s.todo)
           page == Page({r \in cand[e] : r > s.cursor}, s.batch)
           beyond == {r \in page : r > s.last}
           seen == {r \in page : r <= s.last}
           cursor == IF beyond # {} THEN Min(beyond) ELSE Max(page \cup {s.cursor})
           left == Budget - Cardinality(seen)
           st == [s EXCEPT !.fetched = @ + Cardinality(seen),
                           !.handed = @ + Cardinality(seen) + (IF beyond # {} THEN 1 ELSE 0),
                           !.found = @ \o InOrder(seen \cap accepts[e]),
                           !.cursor = cursor]
       IN Do(IF cursor = s.cursor \/ left = 0 THEN EndScan(st)
             ELSE [st EXCEPT !.batch = BatchOf(left)])

\* Early stop: enough expressions and enough matches.
MinExprs == IF opts.minExprs <= 0 \/ opts.minExprs > Cardinality(Exprs)
            THEN Cardinality(Exprs) ELSE opts.minExprs
TotalWithFound == Total + Len(s.found)
MatchedNow == IF s.found = <<>> THEN s.matched ELSE s.matched \cup {Head(s.todo)}
\* A wrong variant, for mutation: any expressions will do.
EnoughMatches == TotalWithFound >= opts.size
Enough == Cardinality(MatchedNow) >= MinExprs /\ TotalWithFound >= opts.size

\* What the scans of an expression have found joins the matches of its string.
NextExpr ==
    /\ s.pc = "next"
    /\ Do([s EXCEPT !.todo = Tail(@), !.matched = MatchedNow,
                    !.results[key[Head(s.todo)]] = @ \o s.found,
                    !.pc = IF Enough \/ Tail(s.todo) = <<>> THEN "select" ELSE "begin"])

\* selectDistributed: up to minEach matches of every string are reserved.
Take(k) == IF opts.minEach > Len(s.results[k]) THEN Len(s.results[k]) ELSE opts.minEach
Least(m, n) == IF m < n THEN m ELSE n
\* A wrong variant, for mutation: reserved matches are picked again.
PoolOfAll(reserved) == AllMatches
Pool(reserved) == AllMatches \ reserved

Select ==
    /\ s.pc = "select"
    /\ IF AllMatches = {} THEN Do([s EXCEPT !.pc = "ok"])
       ELSE \E reserved \in SUBSET AllMatches :
            LET pool == Pool(reserved)
                needed == Least(Least(opts.size, Total) - Cardinality(reserved),
                                Cardinality(pool))
            IN /\ \A k \in Strings : Cardinality(reserved \cap Matches(k)) = Take(k)
               /\ IF needed < 0 THEN Do([s EXCEPT !.pc = "panic"])
                  ELSE \E picks \in kSubset(needed, pool) :
                        Do([s EXCEPT !.pc = "ok", !.sample = reserved \cup picks])

SamplerNext == Start \/ BeginExpr \/ FindCandidates \/ NextExpr \/ Select

SamplerSpec == SamplerInit /\ [][SamplerNext]_samplerVars /\ WF_samplerVars(SamplerNext)

-----------------------------------------------------------------------------
(* Properties                                                              *)

\* The rows counted against CandidateBudget stay within it: the two scans of an
\* expression share one budget, whatever the batches.  The comment there (lines
\* 39-41) promises it of all candidates fetched, which the code does not keep: the
\* wrap scan reads rows beyond its range without counting them, after ErrStopScan
\* one by one.  They are candidates behind the random row, each read once more at
\* most.
BudgetIsKept ==
    /\ s.fetched <= opts.budget
    /\ s.pc \in {"forward", "wrap", "next"} =>
        s.handed <= s.fetched + Cardinality({r \in cand[Head(s.todo)] : r > s.random})

\* A large enough budget loses nothing: wherever they begin, the two scans of an
\* expression find every match of the label, and only the one in the random row,
\* which belongs to both of them, can be there twice.
ScansFindAll ==
    s.pc = "next" /\ opts.budget > Cardinality(cand[Head(s.todo)]) =>
        /\ Range(s.found) = accepts[Head(s.todo)]
        /\ \A i, j \in DOMAIN s.found :
                s.found[i] = s.found[j] => i = j \/ s.found[i] = s.random

\* The size of a sample is the one asked for if there are as many matches.  Up to
\* minEach matches of every string are in it, so that an expression that was
\* found is there, or another one written the same.  MinSizePerExpression (lines
\* 33-35) promises its part to "every distinct expression", which holds of those
\* that String tells apart.  It takes more strings than Size has room for, which
\* the check of the options (line 73) does not exclude, to make it panic.
SampleIsFair ==
    /\ s.pc = "ok" /\ AllMatches # {} =>
        /\ \A k \in Strings : Cardinality(s.sample \cap Matches(k)) >= Take(k)
        /\ \A e \in s.matched : s.sample \cap Matches(key[e]) # {}
        /\ Cardinality(s.sample) = Least(opts.size, Total)
    /\ s.pc = "panic" => opts.minEach * Cardinality({key[e] : e \in s.matched}) > opts.size

\* MinExpressions (line 29): the sampler gives up on expressions only when that
\* many have matches.
StopsLate ==
    s.pc \in {"select", "ok"} /\ labelled # {} =>
        s.tried = Exprs \/ Cardinality(s.matched) >= MinExprs

\* A sample ends.
SampleEnds == <>(s.pc \in {"ok", "error", "panic"})
=============================================================================
