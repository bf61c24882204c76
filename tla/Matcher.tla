------------------------------- MODULE Matcher -------------------------------
(***************************************************************************)
(* matchExpr (match/match.go): an expression is matched against a          *)
(* sentence item by item, extending the chains of tokens that match the    *)
(* items so far; and how FindCandidates finds the sentences it is tried on *)
(* (TopicExpr.Lemmas, topic/topic.go).  An expression comes from a topic,  *)
(* or from the arguments of a command, which Parse (topic/topic.go) makes  *)
(* items of.                                                               *)
(*                                                                         *)
(* A sentence is a sequence of tokens whose Index is their position; a     *)
(* lemma field a|b is the set {a, b}, and the tags of a token are the set  *)
(* of features its tag string contains.                                    *)
(*                                                                         *)
(* One step is one round of the innermost loop.                            *)
(***************************************************************************)
EXTENDS Integers, SequencesExt

CONSTANTS
    Sentences,    \* sentences that searches meet
    Expressions,  \* expressions of topics: sequences of items
    Inputs,       \* what users write: sequences of arguments, none of them empty
    Lemmas,
    Features,     \* features of tags
    Poses,        \* parts of speech
    MaxInt        \* the largest int, 2^63 - 1

Token == [lemma : Lemmas, tag : SUBSET Features, pos : Poses]

Ints == -(MaxInt + 1) .. MaxInt

\* near: how far from the token of the item before; lemmas = {}, tags = {} and
\* pos = {} are fields left out.
Item == [near : Ints, lemmas : SUBSET Lemmas, sep : {"|", "+"},
         tags : SUBSET Features, pos : SUBSET Poses]

\* An argument is a number, a tag (it begins with a capital letter) or a lemma.
Argument == [is : {"number"}, number : Ints] \cup [is : {"lemma"}, lemmas : SUBSET Lemmas]
            \cup [is : {"tag"}, sep : {"|", "+"}, tags : SUBSET Features]

ASSUME MatcherAssumption ==
    /\ Sentences \subseteq Seq(Token)
    /\ Expressions \subseteq Seq(Item)
    /\ Inputs \subseteq Seq(Argument)
    /\ IsFiniteSet(Lemmas) /\ MaxInt \in Nat
    /\ \A e \in Expressions : \A i \in DOMAIN e : Cardinality(e[i].pos) <= 1

VARIABLES
    pc,        \* "parse", "match", "matched" (perhaps nothing) or "panic"
    args,      \* of Parse; none for an expression of a topic
    read,      \* how many of them have been read
    expr,      \* the items
    sentence,
    done,      \* how many items have been matched
    chains,    \* candidates: chains of positions, one for each item done
    extended,  \* the chains with the next item, so far
    chain,     \* the index of the chain that is extended
    step       \* how many tokens after it have been looked at

matcherVars == <<pc, args, read, expr, sentence, done, chains, extended, chain, step>>

-----------------------------------------------------------------------------
(* Parse                                                                   *)

NoItem == [near |-> 0, lemmas |-> {}, sep |-> "|", tags |-> {}, pos |-> {}]
ItemOf(arg, near) ==
    IF arg.is = "tag" THEN [NoItem EXCEPT !.near = near, !.sep = arg.sep, !.tags = arg.tags]
    ELSE [NoItem EXCEPT !.near = near, !.lemmas = arg.lemmas]

IsNumber(i) == args[i].is = "number"

\* A number is the distance of the item after it; two of them, or one before all
\* items, are an error, and one at the end is dropped.
ParseArgument ==
    /\ pc = "parse" /\ read < Len(args)
    /\ read' = read + 1
    /\ IF IsNumber(read')
       THEN read > 0 /\ ~IsNumber(read) /\ UNCHANGED expr
       ELSE expr' = Append(expr, ItemOf(args[read'],
                IF read > 0 /\ IsNumber(read) THEN args[read].number ELSE 0))
    /\ UNCHANGED <<pc, args, sentence, done, chains, extended, chain, step>>

-----------------------------------------------------------------------------
\* A wrong variant, for mutation: a tag makes the lemma superfluous.
IsTokenMatchTagFirst(t, item) ==
    /\ item.lemmas # {} /\ item.tags = {} => t.lemma \in item.lemmas
    /\ item.tags # {} => IF item.sep = "|" THEN item.tags \cap t.tag # {}
                         ELSE item.tags \subseteq t.tag
    /\ item.pos # {} => t.pos \in item.pos

IsTokenMatch(t, item) ==
    /\ item.lemmas # {} => t.lemma \in item.lemmas
    /\ item.tags # {} => IF item.sep = "|" THEN item.tags \cap t.tag # {}
                         ELSE item.tags \subseteq t.tag
    /\ item.pos # {} => t.pos \in item.pos

\* Where the items after a chain begin: the first item is looked for in the whole
\* sentence, as if it came after an empty chain.
LastToken(c) == IF c = <<>> THEN 0 ELSE c[Len(c)]

\* A wrong variant, for mutation: the slice is one token too long.
AfterLoose(c, item) ==
    {j \in DOMAIN sentence :
        LastToken(c) < j /\ (c # <<>> => j <= LastToken(c) + item.near + 1)}

\* The slice an item is looked for in.
After(c, item) ==
    {j \in DOMAIN sentence :
        LastToken(c) < j /\ (c # <<>> => j <= LastToken(c) + item.near)}

\* The bounds of the slice cross, unless the chain ends with the sentence, when near is
\* negative, and when the sum of it and the index of the token (they begin with 0) is
\* more than an int holds.
Crosses(c, item) ==
    /\ c # <<>> /\ LastToken(c) < Len(sentence)
    /\ item.near < 0 \/ LastToken(c) - 1 + item.near > MaxInt

-----------------------------------------------------------------------------
(* matchExpr                                                               *)

MatcherInit ==
    /\ pc = "parse" /\ read = 0
    /\ \/ args \in Inputs /\ expr = <<>>
       \/ args = <<>> /\ expr \in Expressions
    /\ sentence = <<>> /\ done = 0
    /\ chains = <<>> /\ extended = <<>> /\ chain = 1 /\ step = 0

\* MatchSentence; an expression without items matches nothing.
MatchSentence ==
    /\ pc = "parse" /\ read = Len(args) /\ expr # <<>>
    /\ sentence' \in Sentences
    /\ pc' = "match" /\ chains' = <<<<>>>>
    /\ UNCHANGED <<args, read, expr, done, extended, chain, step>>

Wanted == expr[done + 1]
Chain == chains[chain]
Position == LastToken(Chain) + step + 1

Extending == pc = "match" /\ chain <= Len(chains)

LookAtToken ==
    /\ Extending /\ Position \in After(Chain, Wanted)
    /\ ~Crosses(Chain, Wanted)
    /\ step' = step + 1
    /\ extended' = IF IsTokenMatch(sentence[Position], Wanted)
                   THEN Append(extended, Append(Chain, Position)) ELSE extended
    /\ UNCHANGED <<pc, args, read, expr, sentence, done, chains, chain>>

NextChain ==
    /\ Extending /\ Position \notin After(Chain, Wanted)
    /\ ~Crosses(Chain, Wanted)
    /\ chain' = chain + 1 /\ step' = 0
    /\ UNCHANGED <<pc, args, read, expr, sentence, done, chains, extended>>

Panic ==
    /\ Extending /\ Crosses(Chain, Wanted)
    /\ pc' = "panic"
    /\ UNCHANGED <<args, read, expr, sentence, done, chains, extended, chain, step>>

\* When no chain is left the expression does not match: nil.
NextItem ==
    /\ pc = "match" /\ chain > Len(chains)
    /\ chains' = extended /\ extended' = <<>> /\ chain' = 1 /\ step' = 0
    /\ done' = done + 1
    /\ pc' = IF extended = <<>> \/ done' = Len(expr) THEN "matched" ELSE "match"
    /\ UNCHANGED <<args, read, expr, sentence>>

MatcherNext ==
    ParseArgument \/ MatchSentence \/ LookAtToken \/ NextChain \/ Panic \/ NextItem
MatcherSpec == MatcherInit /\ [][MatcherNext]_matcherVars

-----------------------------------------------------------------------------
(* Properties                                                              *)

\* The occurrences of the first n items, told without an algorithm.
Occurrences(n) ==
    {c \in [1 .. n -> DOMAIN sentence] :
        \A i \in 1 .. n :
            /\ IsTokenMatch(sentence[c[i]], expr[i])
            /\ i > 1 => c[i - 1] < c[i] /\ c[i] <= c[i - 1] + expr[i].near}

Before(c, d) == \E i \in DOMAIN c :
    c[i] < d[i] /\ \A j \in 1 .. i - 1 : c[j] = d[j]

\* The chains are all the occurrences of the expression, each of them once, and
\* in reading order: no greedy choice of an earlier token hides a later one.  It
\* takes a negative distance, which Parse lets through though match.go:84 says
\* "Items 1..n: must have Near > 0", or one next to the largest int, to make matchExpr
\* panic.
ChainsAreOccurrences ==
    /\ pc = "panic" => \E i \in 2 .. Len(expr) :
            expr[i].near < 0 \/ expr[i].near > MaxInt - (Len(sentence) - 2)
    /\ pc \in {"match", "matched"} =>
        /\ Range(chains) = Occurrences(done)
        /\ \A i, j \in DOMAIN chains : i < j => Before(chains[i], chains[j])

Matched == pc = "matched" /\ chains # <<>>

\* TopicExpr.Lemmas: a lemma field is one lemma of the query, whatever it holds.
ExprLemmas == {expr[i].lemmas : i \in DOMAIN expr} \ {{}}
IndexedLemmas == {{sentence[j].lemma} : j \in DOMAIN sentence}

\* What an expression matches is found: FindCandidates asks the index for the
\* lemmas of the expression, and each sentence the matcher accepts has them,
\* whatever tags and distances say, if each lemma field is one lemma.  With a
\* field a|b the index is asked for a lemma that no token has, though
\* match_test.go:136 has an "expected match for OR lemma" from the matcher.
MatchesAreCandidates ==
    Matched /\ (\A i \in DOMAIN expr : Cardinality(expr[i].lemmas) <= 1) =>
        ExprLemmas \subseteq IndexedLemmas
=============================================================================
