---------------------------- MODULE Matcher_proofs ----------------------------
(***************************************************************************)
(* Proofs about the matcher and what is printed of its matches:            *)
(*   - matchExpr finds every occurrence of an expression, once and in      *)
(*     reading order, and what it accepts has the lemmas of the            *)
(*     expression, so that the index leads to it;                          *)
(*   - what Render prints is the text of the book, and the words of the    *)
(*     matches, and no others, are bright, whichever part of the sentence  *)
(*     is shown (the induction is along the words, from the first shown).  *)
(***************************************************************************)
EXTENDS Render, SequenceLemmas, FiniteSetTheorems

MatcherTypeOK ==
    /\ pc \in {"parse", "match", "matched", "panic"}
    /\ args \in Seq(Argument) /\ read \in 0 .. Len(args)
    /\ expr \in Seq(Item) /\ sentence \in Seq(Token)
    /\ done \in Nat /\ chain \in Nat \ {0} /\ step \in Nat
    /\ extended \in Seq(Seq(DOMAIN sentence))

\* The chains are the occurrences of the items done, in order.
ChainsComplete ==
    /\ chains \in Seq(Occurrences(done))
    /\ Range(chains) = Occurrences(done)
    /\ \A i, j \in DOMAIN chains : i < j => Before(chains[i], chains[j])

\* What the loop over the chains has come to: the n-th chain with the token at j.
Visited(n, j) ==
    /\ n \in DOMAIN chains
    /\ j \in After(chains[n], Wanted) /\ IsTokenMatch(sentence[j], Wanted)
    /\ n < chain \/ (n = chain /\ j <= LastToken(chains[n]) + step)

\* The chains extended so far are those of the loop, in order.
ExtendedSoFar ==
    /\ \A i \in DOMAIN extended : \E n \in 1 .. chain, j \in DOMAIN sentence :
        Visited(n, j) /\ extended[i] = Append(chains[n], j)
    /\ \A n \in DOMAIN chains, j \in DOMAIN sentence :
        Visited(n, j) => \E i \in DOMAIN extended : extended[i] = Append(chains[n], j)
    /\ \A i, j \in DOMAIN extended : i < j => Before(extended[i], extended[j])

MatcherInv ==
    /\ MatcherTypeOK
    /\ pc = "parse" => done = 0 /\ chain = 1 /\ step = 0 /\ extended = <<>>
    /\ pc = "match" => done < Len(expr) /\ ExtendedSoFar
    /\ pc \in {"match", "matched"} => ChainsComplete
    /\ pc = "matched" => done = Len(expr) \/ chains = <<>>
    /\ pc = "panic" => \E i \in 2 .. Len(expr) :
            expr[i].near < 0 \/ expr[i].near > MaxInt - (Len(sentence) - 2)

-----------------------------------------------------------------------------
(* Chains                                                                  *)

\* An occurrence of n items is a chain of n tokens.
LEMMA OccurrenceIsChain ==
    ASSUME MatcherTypeOK, NEW n \in Nat, NEW c \in Occurrences(n)
    PROVE  /\ c \in Seq(DOMAIN sentence) /\ Len(c) = n /\ DOMAIN c = 1 .. n
           /\ c = <<>> <=> n = 0
           /\ LastToken(c) \in Nat
           /\ n > 0 => LastToken(c) = c[n]
<1>1. c \in [1 .. n -> DOMAIN sentence]
  BY DEF Occurrences
<1>2. c \in Seq(DOMAIN sentence) /\ Len(c) = n /\ DOMAIN c = 1 .. n
  BY <1>1
<1>3. c = <<>> <=> n = 0
  BY <1>2, EmptySeq
<1>4. n > 0 => c[n] \in DOMAIN sentence
  BY <1>1
<1>5. DOMAIN sentence \subseteq Nat
  BY DEF MatcherTypeOK
<1> QED
  BY <1>2, <1>3, <1>4, <1>5 DEF LastToken

\* An occurrence, extended by a token that the next item matches in its slice, is an
\* occurrence of one more item.
LEMMA ExtensionOccurs ==
    ASSUME MatcherTypeOK, NEW n \in Nat, n < Len(expr), NEW c \in Occurrences(n),
           NEW j \in After(c, expr[n + 1]), IsTokenMatch(sentence[j], expr[n + 1])
    PROVE  Append(c, j) \in Occurrences(n + 1)
<1> DEFINE d == Append(c, j)
<1>1. /\ c \in Seq(DOMAIN sentence) /\ Len(c) = n
      /\ \A i \in 1 .. n :
            /\ IsTokenMatch(sentence[c[i]], expr[i])
            /\ i > 1 => c[i - 1] < c[i] /\ c[i] <= c[i - 1] + expr[i].near
  BY OccurrenceIsChain DEF Occurrences
<1>2. j \in DOMAIN sentence /\ LastToken(c) < j
      /\ (n > 0 => j <= LastToken(c) + expr[n + 1].near)
  BY OccurrenceIsChain DEF After
<1>3. d \in Seq(DOMAIN sentence) /\ Len(d) = n + 1 /\ d[n + 1] = j
      /\ \A i \in 1 .. n : d[i] = c[i]
  BY <1>1, <1>2, AppendProperties
<1>4. d \in [1 .. n + 1 -> DOMAIN sentence]
  <2> HIDE DEF d
  <2> QED
    BY <1>3, LenProperties
<1>5. ASSUME NEW i \in 1 .. n + 1
      PROVE  /\ IsTokenMatch(sentence[d[i]], expr[i])
             /\ i > 1 => d[i - 1] < d[i] /\ d[i] <= d[i - 1] + expr[i].near
  <2>1. CASE i = n + 1
    <3>1. i > 1 => n > 0 /\ i - 1 = n /\ n \in 1 .. n
      BY <2>1
    <3>2. i > 1 => d[i - 1] = LastToken(c)
      BY <1>3, <3>1, OccurrenceIsChain
    <3> QED
      BY <1>2, <1>3, <2>1, <3>1, <3>2
  <2>2. CASE i # n + 1
    <3>1. i \in 1 .. n /\ (i > 1 => i - 1 \in 1 .. n)
      BY <2>2
    <3>2. d[i] = c[i] /\ (i > 1 => d[i - 1] = c[i - 1])
      BY <1>3, <3>1
    <3> HIDE DEF d
    <3> QED
      BY <1>1, <3>1, <3>2
  <2> QED
    BY <2>1, <2>2
<1> HIDE DEF d
<1>6. d \in Occurrences(n + 1)
  BY <1>4, <1>5 DEF Occurrences
<1> QED
  BY <1>6 DEF d

\* Every occurrence of one more item is such an extension.
LEMMA OccurrenceIsExtension ==
    ASSUME MatcherTypeOK, NEW n \in Nat, n < Len(expr), NEW d \in Occurrences(n + 1)
    PROVE  \E c \in Occurrences(n), j \in DOMAIN sentence :
              /\ j \in After(c, expr[n + 1]) /\ IsTokenMatch(sentence[j], expr[n + 1])
              /\ d = Append(c, j)
<1> DEFINE c == [i \in 1 .. n |-> d[i]]
           j == d[n + 1]
<1>1. /\ d \in [1 .. n + 1 -> DOMAIN sentence]
      /\ \A i \in 1 .. n + 1 :
            /\ IsTokenMatch(sentence[d[i]], expr[i])
            /\ i > 1 => d[i - 1] < d[i] /\ d[i] <= d[i - 1] + expr[i].near
  BY DEF Occurrences
<1>2. 1 .. n \subseteq 1 .. n + 1 /\ n + 1 \in 1 .. n + 1
  OBVIOUS
<1>3. c \in [1 .. n -> DOMAIN sentence] /\ j \in DOMAIN sentence
  BY <1>1, <1>2
<1>4. c \in Occurrences(n)
  <2> SUFFICES ASSUME NEW i \in 1 .. n
               PROVE  /\ IsTokenMatch(sentence[c[i]], expr[i])
                      /\ i > 1 => c[i - 1] < c[i] /\ c[i] <= c[i - 1] + expr[i].near
    BY <1>3 DEF Occurrences
  <2>1. c[i] = d[i] /\ (i > 1 => i - 1 \in 1 .. n /\ c[i - 1] = d[i - 1])
    OBVIOUS
  <2> QED
    BY <1>1, <1>2, <2>1
<1>5. j \in After(c, expr[n + 1])
  <2>1. n = 0 => c = <<>> /\ LastToken(c) = 0 /\ j > 0
    BY <1>3, <1>4, OccurrenceIsChain DEF LastToken, MatcherTypeOK
  <2>2. n > 0 => LastToken(c) = d[n] /\ c # <<>>
    BY <1>4, OccurrenceIsChain
  <2>3. n > 0 => d[n] < j /\ j <= d[n] + expr[n + 1].near
    <3>1. n + 1 - 1 = n /\ (n > 0 => n + 1 > 1)
      OBVIOUS
    <3> QED
      BY <1>1, <1>2, <3>1
  <2>4. CASE n = 0
    BY <1>3, <2>1, <2>4 DEF After
  <2>5. CASE n > 0
    BY <1>3, <2>2, <2>3, <2>5 DEF After
  <2> QED
    BY <2>4, <2>5
<1>6. d = Append(c, j)
  <2>1. c \in Seq(DOMAIN sentence) /\ Len(c) = n /\ d \in Seq(DOMAIN sentence) /\ Len(d) = n + 1
    BY <1>1, <1>3
  <2>2. /\ Append(c, j) \in Seq(DOMAIN sentence) /\ Len(Append(c, j)) = n + 1
        /\ Append(c, j)[n + 1] = j /\ \A i \in 1 .. n : Append(c, j)[i] = c[i]
    BY <1>3, <2>1, AppendProperties
  <2>3. \A i \in 1 .. n + 1 : i = n + 1 \/ i \in 1 .. n
    OBVIOUS
  <2>4. \A i \in 1 .. n + 1 : Append(c, j)[i] = d[i]
    BY <2>2, <2>3
  <2> QED
    BY <2>1, <2>2, <2>4, SeqEqual
<1> QED
  BY <1>1, <1>2, <1>3, <1>4, <1>5, <1>6

\* Extensions come in the order of their chains, and of their tokens.
LEMMA ExtensionsInOrder ==
    ASSUME NEW n \in Nat, NEW c \in Seq(Nat), NEW d \in Seq(Nat), Len(c) = n, Len(d) = n,
           NEW i \in Nat, NEW j \in Nat, Before(c, d) \/ (c = d /\ i < j)
    PROVE  Before(Append(c, i), Append(d, j))
<1>1. /\ Len(Append(c, i)) = n + 1 /\ DOMAIN Append(c, i) = 1 .. n + 1
      /\ Append(c, i)[n + 1] = i /\ Append(d, j)[n + 1] = j
      /\ \A k \in 1 .. n : Append(c, i)[k] = c[k] /\ Append(d, j)[k] = d[k]
  BY AppendProperties
<1>2. CASE Before(c, d)
  <2>1. PICK k \in 1 .. n : c[k] < d[k] /\ \A m \in 1 .. k - 1 : c[m] = d[m]
    BY <1>2 DEF Before
  <2>2. k \in 1 .. n + 1 /\ \A m \in 1 .. k - 1 : m \in 1 .. n
    OBVIOUS
  <2> QED
    BY <1>1, <2>1, <2>2 DEF Before
<1>3. CASE c = d /\ i < j
  <2>1. n + 1 \in 1 .. n + 1 /\ n + 1 - 1 = n
    OBVIOUS
  <2> QED
    BY <1>1, <1>3, <2>1 DEF Before
<1> QED
  BY <1>2, <1>3

-----------------------------------------------------------------------------
(* The invariant is inductive                                              *)

\* At first no item is done.
LEMMA MatcherInitInv == MatcherInit => MatcherInv
<1> SUFFICES ASSUME MatcherInit PROVE MatcherInv
  OBVIOUS
<1>1. args \in Seq(Argument) /\ expr \in Seq(Item)
  BY MatcherAssumption, EmptySeq DEF MatcherInit
<1>2. MatcherTypeOK
  BY <1>1 DEF MatcherInit, MatcherTypeOK
<1> QED
  BY <1>2 DEF MatcherInit, MatcherInv

\* An argument that is read adds an item or none.
LEMMA ParseKeepsInv ==
    ASSUME MatcherInv, ParseArgument
    PROVE  MatcherInv'
<1> USE DEF MatcherInv, MatcherTypeOK, ParseArgument
<1>1. read' \in 1 .. Len(args) /\ (read > 0 => read \in 1 .. Len(args))
  OBVIOUS
<1>2. args[read'] \in Argument /\ (read > 0 => args[read] \in Argument)
  BY <1>1, ElementOfSeq
<1>3. ASSUME NEW arg \in Argument, arg.is # "number", NEW near \in Ints
      PROVE  ItemOf(arg, near) \in Item
  BY <1>3 DEF Argument, ItemOf, NoItem, Item
<1>4. /\ \A arg \in Argument : arg.is = "number" => arg.number \in Ints
      /\ 0 \in Ints
  BY MatcherAssumption DEF Argument, Ints
<1>5. expr' \in Seq(Item)
  <2>1. CASE IsNumber(read')
    BY <2>1
  <2>2. CASE ~IsNumber(read')
    <3> DEFINE near == IF read > 0 /\ IsNumber(read) THEN args[read].number ELSE 0
    <3>1. near \in Ints
      BY <1>2, <1>4 DEF IsNumber
    <3>2. expr' = Append(expr, ItemOf(args[read'], near))
      BY <2>2
    <3>3. ItemOf(args[read'], near) \in Item
      BY <1>2, <1>3, <2>2, <3>1 DEF IsNumber
    <3> QED
      BY <3>2, <3>3, AppendProperties
  <2> QED
    BY <2>1, <2>2
<1>6. MatcherTypeOK'
  BY <1>1, <1>5
<1> QED
  BY <1>6

\* The match begins with the only occurrence of no items.
LEMMA MatchBegins ==
    ASSUME MatcherInv, MatchSentence
    PROVE  MatcherInv'
<1> USE DEF MatchSentence
<1>1. MatcherTypeOK'
  BY MatcherAssumption DEF MatcherInv, MatcherTypeOK
<1>2. done' = 0 /\ pc' = "match" /\ chains' = <<<<>>>> /\ chain' = 1 /\ step' = 0
      /\ extended' = <<>>
  BY DEF MatcherInv
<1>3. Occurrences(done)' = {<<>>}
  <2>1. <<>> \in Occurrences(done)'
    BY <1>2 DEF Occurrences
  <2>2. \A c \in Occurrences(done)' : c = <<>>
    BY <1>2 DEF Occurrences
  <2> QED
    BY <2>1, <2>2
<1>4. ChainsComplete'
  BY <1>2, <1>3 DEF ChainsComplete, Range
<1>5. \A n, j : ~Visited(n, j)'
  <2> SUFFICES ASSUME NEW n, NEW j, Visited(n, j)'
               PROVE  FALSE
    OBVIOUS
  <2>1. n = 1
    BY <1>2 DEF Visited
  <2>2. chains'[n] = <<>> /\ LastToken(chains'[n]) = 0
    BY <1>2, <2>1 DEF LastToken
  <2>3. j \in DOMAIN sentence' /\ 0 < j /\ j <= 0
    BY <1>2, <2>1, <2>2 DEF Visited, After
  <2>4. j \in Nat
    BY <1>1, <2>3 DEF MatcherTypeOK
  <2> QED
    BY <2>3, <2>4
<1>6. ExtendedSoFar'
  BY <1>2, <1>5 DEF ExtendedSoFar
<1>7. done' < Len(expr')
  BY <1>1, <1>2, EmptySeq DEF MatcherTypeOK
<1> QED
  BY <1>1, <1>2, <1>4, <1>6, <1>7 DEF MatcherInv

\* The chains of a match, as sequences.
LEMMA ChainsAreSequences ==
    ASSUME MatcherTypeOK, ChainsComplete
    PROVE  /\ DOMAIN chains = 1 .. Len(chains) /\ Len(chains) \in Nat
           /\ \A n \in DOMAIN chains :
                /\ chains[n] \in Occurrences(done) /\ chains[n] \in Seq(DOMAIN sentence)
                /\ chains[n] \in Seq(Nat) /\ Len(chains[n]) = done
                /\ LastToken(chains[n]) \in Nat /\ (chains[n] = <<>> <=> done = 0)
<1>1. DOMAIN sentence \subseteq Nat
  BY DEF MatcherTypeOK
<1>2. \A n \in DOMAIN chains : chains[n] \in Occurrences(done)
  BY DEF ChainsComplete
<1>3. ASSUME NEW c \in Occurrences(done)
      PROVE  /\ c \in Seq(DOMAIN sentence) /\ c \in Seq(Nat) /\ Len(c) = done
             /\ LastToken(c) \in Nat /\ (c = <<>> <=> done = 0)
  <2>1. c \in Seq(DOMAIN sentence) /\ Len(c) = done /\ LastToken(c) \in Nat
        /\ (c = <<>> <=> done = 0)
    BY OccurrenceIsChain DEF MatcherTypeOK
  <2> QED
    BY <1>1, <2>1, SeqMonotonic
<1> QED
  BY <1>2, <1>3, LenProperties DEF ChainsComplete

\* Looking at a token extends the chain by it, or not.
LEMMA LookKeepsExtended ==
    ASSUME MatcherInv, LookAtToken
    PROVE  ExtendedSoFar' /\ extended' \in Seq(Seq(DOMAIN sentence))
<1> DEFINE p == Position
           c == Chain
           hit == IsTokenMatch(sentence[p], Wanted)
<1>1. /\ MatcherTypeOK /\ ChainsComplete /\ ExtendedSoFar /\ pc = "match"
      /\ p \in After(c, Wanted) /\ p \in DOMAIN sentence /\ p \in Nat
      /\ step' = step + 1 /\ chain \in DOMAIN chains /\ c = chains[chain]
      /\ UNCHANGED <<expr, sentence, done, chains, chain>>
  <2>1. MatcherTypeOK /\ ChainsComplete /\ ExtendedSoFar /\ pc = "match"
    BY DEF MatcherInv, LookAtToken, Extending
  <2>2. chain \in DOMAIN chains
    BY <2>1, ChainsAreSequences DEF LookAtToken, Extending, MatcherTypeOK
  <2> QED
    BY <2>1, <2>2 DEF LookAtToken, After, Chain, MatcherTypeOK
<1>2. c \in Seq(DOMAIN sentence) /\ LastToken(c) \in Nat /\ p = LastToken(c) + step + 1
  BY <1>1, ChainsAreSequences DEF Position, Chain
<1> HIDE DEF p, c
<1>3. \A n \in DOMAIN chains, j \in DOMAIN sentence :
        Visited(n, j)' <=> Visited(n, j) \/ (n = chain /\ j = p /\ hit)
  <2> SUFFICES ASSUME NEW n \in DOMAIN chains, NEW j \in DOMAIN sentence
               PROVE  Visited(n, j)' <=> Visited(n, j) \/ (n = chain /\ j = p /\ hit)
    OBVIOUS
  <2>1. Visited(n, j)' <=>
          /\ j \in After(chains[n], Wanted) /\ IsTokenMatch(sentence[j], Wanted)
          /\ n < chain \/ (n = chain /\ j <= LastToken(chains[n]) + step + 1)
    <3>1. Wanted' = Wanted /\ sentence' = sentence /\ chains' = chains
          /\ chain' = chain /\ step' = step + 1
      BY <1>1 DEF Wanted
    <3>2. After(chains[n], Wanted)' = After(chains[n], Wanted)
      BY <3>1 DEF After
    <3>3. j <= LastToken(chains[n]) + step' <=> j <= LastToken(chains[n]) + step + 1
      BY <1>1, <3>1, ChainsAreSequences, SMTT(20) DEF MatcherTypeOK
    <3> QED
      BY <3>1, <3>2, <3>3 DEF Visited
  <2>2. j \in Nat /\ n \in Nat /\ chain \in Nat /\ step \in Nat
    BY <1>1, ChainsAreSequences DEF MatcherTypeOK
  <2>3. n = chain => (j <= LastToken(chains[n]) + step + 1
                      <=> j <= LastToken(chains[n]) + step \/ j = p)
    BY <1>1, <1>2, <2>2
  <2> QED
    BY <1>1, <2>1, <2>2, <2>3 DEF Visited
<1>4. CASE ~hit
  <2>1. extended' = extended
    BY <1>4 DEF LookAtToken, p
  <2>2. \A n \in DOMAIN chains, j \in DOMAIN sentence : Visited(n, j)' <=> Visited(n, j)
    BY <1>3, <1>4
  <2>3. \A n, j : Visited(n, j) => n \in DOMAIN chains
    BY DEF Visited
  <2> QED
    BY <1>1, <2>1, <2>2, <2>3 DEF ExtendedSoFar, MatcherTypeOK
<1>5. CASE hit
  <2> DEFINE new == Append(c, p)
             k == Len(extended)
  <2>1. extended' = Append(extended, new)
    BY <1>5 DEF LookAtToken, p, c
  <2>2. new \in Seq(DOMAIN sentence)
    BY <1>1, <1>2, AppendProperties
  <2>3. /\ extended' \in Seq(Seq(DOMAIN sentence)) /\ k \in Nat
        /\ DOMAIN extended = 1 .. k /\ DOMAIN extended' = 1 .. k + 1
        /\ extended'[k + 1] = new /\ \A i \in 1 .. k : extended'[i] = extended[i]
    BY <1>1, <2>1, <2>2, AppendProperties, LenProperties DEF MatcherTypeOK
  <2>4. \A i \in DOMAIN extended : Before(extended[i], new)
    <3> SUFFICES ASSUME NEW i \in DOMAIN extended
                 PROVE  Before(extended[i], new)
      OBVIOUS
    <3>1. PICK n \in 1 .. chain, j \in DOMAIN sentence :
            Visited(n, j) /\ extended[i] = Append(chains[n], j)
      BY <1>1 DEF ExtendedSoFar
    <3>2. /\ n \in DOMAIN chains /\ n \in Nat /\ j \in Nat /\ chain \in Nat
          /\ n < chain \/ (n = chain /\ j <= LastToken(c) + step)
      BY <1>1, <3>1, SMTT(20) DEF Visited, MatcherTypeOK
    <3>3. Before(chains[n], c) \/ (chains[n] = c /\ j < p)
      <4>1. n < chain => Before(chains[n], c)
        BY <1>1, <3>2 DEF ChainsComplete
      <4>2. n = chain => chains[n] = c /\ j < p
        BY <1>1, <1>2, <3>2, SMTT(20) DEF MatcherTypeOK
      <4> QED
        BY <3>2, <4>1, <4>2
    <3>4. /\ done \in Nat /\ chains[n] \in Seq(Nat) /\ c \in Seq(Nat)
          /\ Len(chains[n]) = done /\ Len(c) = done
      BY <1>1, <3>2, ChainsAreSequences DEF MatcherTypeOK
    <3> QED
      BY <1>1, <3>1, <3>2, <3>3, <3>4, ExtensionsInOrder
  <2> HIDE DEF new, k
  <2>5. \A i \in DOMAIN extended' : \E n \in 1 .. chain, j \in DOMAIN sentence :
          Visited(n, j)' /\ extended'[i] = Append(chains[n], j)
    <3> SUFFICES ASSUME NEW i \in DOMAIN extended'
                 PROVE  \E n \in 1 .. chain, j \in DOMAIN sentence :
                           Visited(n, j)' /\ extended'[i] = Append(chains[n], j)
      OBVIOUS
    <3>1. CASE i = k + 1
      <4>1. PICK n \in DOMAIN chains, j \in DOMAIN sentence : n = chain /\ j = p
        BY <1>1
      <4>2. Visited(n, j)'
        BY <1>3, <1>5, <4>1
      <4>3. n \in 1 .. chain
        BY <1>1, <4>1 DEF MatcherTypeOK
      <4>4. extended'[i] = Append(chains[n], j)
        BY <1>1, <2>3, <3>1, <4>1 DEF new
      <4> QED
        BY <4>2, <4>3, <4>4
    <3>2. CASE i # k + 1
      <4>1. i \in DOMAIN extended /\ extended'[i] = extended[i]
        BY <2>3, <3>2
      <4>2. PICK n \in 1 .. chain, j \in DOMAIN sentence :
              Visited(n, j) /\ extended[i] = Append(chains[n], j)
        BY <1>1, <4>1 DEF ExtendedSoFar
      <4>3. n \in DOMAIN chains
        BY <4>2 DEF Visited
      <4> QED
        BY <1>3, <4>1, <4>2, <4>3
    <3> QED
      BY <3>1, <3>2
  <2>6. \A n \in DOMAIN chains, j \in DOMAIN sentence :
          Visited(n, j)' => \E i \in DOMAIN extended' : extended'[i] = Append(chains[n], j)
    <3> SUFFICES ASSUME NEW n \in DOMAIN chains, NEW j \in DOMAIN sentence, Visited(n, j)'
                 PROVE  \E i \in DOMAIN extended' : extended'[i] = Append(chains[n], j)
      OBVIOUS
    <3>1. CASE Visited(n, j)
      <4>1. PICK i \in DOMAIN extended : extended[i] = Append(chains[n], j)
        BY <1>1, <3>1 DEF ExtendedSoFar
      <4>2. i \in DOMAIN extended' /\ extended'[i] = extended[i]
        BY <2>3, <4>1
      <4> QED
        BY <4>1, <4>2
    <3>2. CASE n = chain /\ j = p
      <4>1. k + 1 \in DOMAIN extended'
        BY <2>3
      <4> QED
        BY <1>1, <2>3, <3>2, <4>1 DEF new
    <3> QED
      BY <1>3, <3>1, <3>2
  <2>7. \A i, j \in DOMAIN extended' : i < j => Before(extended'[i], extended'[j])
    <3> SUFFICES ASSUME NEW i \in DOMAIN extended', NEW j \in DOMAIN extended', i < j
                 PROVE  Before(extended'[i], extended'[j])
      OBVIOUS
    <3>1. i \in DOMAIN extended /\ extended'[i] = extended[i]
      BY <2>3
    <3>2. CASE j = k + 1
      BY <2>3, <2>4, <3>1, <3>2
    <3>3. CASE j # k + 1
      <4>1. j \in DOMAIN extended /\ extended'[j] = extended[j]
        BY <2>3, <3>3
      <4> QED
        BY <1>1, <3>1, <4>1 DEF ExtendedSoFar
    <3> QED
      BY <3>2, <3>3
  <2> QED
    BY <1>1, <2>3, <2>5, <2>6, <2>7 DEF ExtendedSoFar
<1> QED
  BY <1>4, <1>5

\* Looking at a token, and all else but the loops' counters, stays as it is.
LEMMA LookKeepsInv ==
    ASSUME MatcherInv, LookAtToken
    PROVE  MatcherInv'
<1>1. /\ pc = "match" /\ step' \in Nat /\ MatcherTypeOK /\ ChainsComplete /\ done < Len(expr)
      /\ UNCHANGED <<pc, args, read, expr, sentence, done, chains, chain>>
  BY DEF MatcherInv, MatcherTypeOK, LookAtToken, Extending
<1>2. ExtendedSoFar' /\ extended' \in Seq(Seq(DOMAIN sentence))
  BY LookKeepsExtended
<1>3. MatcherTypeOK'
  BY <1>1, <1>2 DEF MatcherTypeOK
<1>4. ChainsComplete'
  BY <1>1 DEF ChainsComplete, Occurrences
<1> QED
  BY <1>1, <1>2, <1>3, <1>4 DEF MatcherInv

\* A chain is left when its slice has been looked at.
LEMMA NextChainKeepsInv ==
    ASSUME MatcherInv, NextChain
    PROVE  MatcherInv'
<1>1. /\ pc = "match" /\ MatcherTypeOK /\ ChainsComplete /\ ExtendedSoFar /\ done < Len(expr)
      /\ UNCHANGED <<pc, args, read, expr, sentence, done, chains, extended>>
      /\ chain' = chain + 1 /\ step' = 0 /\ chain \in Nat /\ step \in Nat
      /\ chain \in DOMAIN chains
  BY ChainsAreSequences DEF MatcherInv, MatcherTypeOK, NextChain, Extending
<1>2. MatcherTypeOK'
  BY <1>1 DEF MatcherTypeOK
<1>3. ChainsComplete'
  BY <1>1 DEF ChainsComplete, Occurrences
<1>4. \A j \in After(chains[chain], Wanted) : j <= LastToken(chains[chain]) + step
  <2> SUFFICES ASSUME NEW j \in After(chains[chain], Wanted)
               PROVE  j <= LastToken(chains[chain]) + step
    OBVIOUS
  <2> DEFINE from == LastToken(chains[chain])
             near == Wanted.near
  <2>1. from \in Nat /\ j \in DOMAIN sentence /\ from < j
        /\ (chains[chain] # <<>> => j <= from + near)
    BY <1>1, ChainsAreSequences DEF After
  <2>2. /\ DOMAIN sentence = 1 .. Len(sentence) /\ Len(sentence) \in Nat
        /\ near \in Int
    <3>1. Wanted \in Item
      BY <1>1, ElementOfSeq DEF MatcherTypeOK, Wanted
    <3> QED
      BY <1>1, <3>1, LenProperties, MatcherAssumption DEF MatcherTypeOK, Item, Ints
  <2>3. ~(/\ from + step + 1 \in DOMAIN sentence
          /\ chains[chain] # <<>> => from + step + 1 <= from + near)
    BY <1>1, <2>1 DEF NextChain, Position, Chain, After
  <2> HIDE DEF from, near
  <2>4. j <= from + step
    BY <1>1, <2>1, <2>2, <2>3
  <2> QED
    BY <2>4 DEF from
<1>5. \A n \in DOMAIN chains, j \in DOMAIN sentence : Visited(n, j)' <=> Visited(n, j)
  <2> SUFFICES ASSUME NEW n \in DOMAIN chains, NEW j \in DOMAIN sentence
               PROVE  Visited(n, j)' <=> Visited(n, j)
    OBVIOUS
  <2>1. Wanted' = Wanted /\ After(chains[n], Wanted)' = After(chains[n], Wanted)
    BY <1>1 DEF Wanted, After
  <2>2. Visited(n, j)' <=>
          /\ j \in After(chains[n], Wanted) /\ IsTokenMatch(sentence[j], Wanted)
          /\ n < chain + 1 \/ (n = chain + 1 /\ j <= LastToken(chains[n]) + 0)
    BY <1>1, <2>1 DEF Visited
  <2>3. n \in Nat /\ j \in Nat /\ LastToken(chains[n]) \in Nat
    BY <1>1, ChainsAreSequences DEF MatcherTypeOK
  <2>4. j \in After(chains[n], Wanted) => LastToken(chains[n]) < j
    BY DEF After
  <2>5. Visited(n, j)' <=>
          /\ j \in After(chains[n], Wanted) /\ IsTokenMatch(sentence[j], Wanted)
          /\ n < chain \/ n = chain
    BY <1>1, <2>2, <2>3, <2>4
  <2> QED
    BY <1>4, <2>5 DEF Visited
<1>6. ExtendedSoFar'
  <2>1. ASSUME NEW i \in DOMAIN extended
        PROVE  \E n \in 1 .. chain', j \in DOMAIN sentence :
                  Visited(n, j)' /\ extended[i] = Append(chains[n], j)
    <3>1. PICK n \in 1 .. chain, j \in DOMAIN sentence :
            Visited(n, j) /\ extended[i] = Append(chains[n], j)
      BY <1>1 DEF ExtendedSoFar
    <3>2. n \in DOMAIN chains /\ n \in 1 .. chain'
      BY <1>1, <3>1 DEF Visited
    <3> QED
      BY <1>5, <3>1, <3>2
  <2>2. \A n \in DOMAIN chains, j \in DOMAIN sentence :
          Visited(n, j)' => \E i \in DOMAIN extended : extended[i] = Append(chains[n], j)
    BY <1>1, <1>5 DEF ExtendedSoFar
  <2>3. \A i, j \in DOMAIN extended : i < j => Before(extended[i], extended[j])
    BY <1>1 DEF ExtendedSoFar
  <2> QED
    BY <1>1, <2>1, <2>2, <2>3 DEF ExtendedSoFar
<1> QED
  BY <1>1, <1>2, <1>3, <1>6 DEF MatcherInv

\* Bounds cross only at an item with a negative distance.
LEMMA PanicKeepsInv ==
    ASSUME MatcherInv, Panic
    PROVE  MatcherInv'
<1>1. /\ pc = "match" /\ MatcherTypeOK /\ ChainsComplete /\ done < Len(expr)
      /\ UNCHANGED <<args, read, expr, sentence, done, chains, extended, chain, step>>
      /\ pc' = "panic" /\ chain \in DOMAIN chains /\ Crosses(chains[chain], Wanted)
  BY ChainsAreSequences DEF MatcherInv, MatcherTypeOK, Panic, Extending, Chain
<1>2. done # 0 /\ done \in Nat
  BY <1>1, ChainsAreSequences DEF Crosses, MatcherTypeOK
<1>3. /\ done + 1 \in 2 .. Len(expr)
      /\ \/ expr[done + 1].near < 0
         \/ expr[done + 1].near > MaxInt - (Len(sentence) - 2)
  <2>1. Len(sentence) \in Nat /\ LastToken(chains[chain]) \in Nat
    <3>1. sentence \in Seq(Token)
      BY <1>1 DEF MatcherTypeOK
    <3>2. Len(sentence) \in Nat
      BY <3>1, LenProperties
    <3>3. LastToken(chains[chain]) \in Nat
      BY <1>1, ChainsAreSequences
    <3> QED
      BY <3>2, <3>3
  <2>2. Wanted = expr[done + 1] /\ expr[done + 1].near \in Int
    <3>1. expr[done + 1] \in Item
      BY <1>1, <1>2, ElementOfSeq DEF MatcherTypeOK
    <3> QED
      BY <3>1, MatcherAssumption DEF Wanted, Item, Ints
  <2>3. /\ LastToken(chains[chain]) < Len(sentence)
        /\ \/ expr[done + 1].near < 0
           \/ LastToken(chains[chain]) - 1 + expr[done + 1].near > MaxInt
    BY <1>1, <2>2 DEF Crosses
  <2> QED
    BY <1>1, <1>2, <2>1, <2>2, <2>3, MatcherAssumption DEF MatcherTypeOK
<1>4. MatcherTypeOK'
  BY <1>1 DEF MatcherTypeOK
<1> QED
  BY <1>1, <1>3, <1>4 DEF MatcherInv

\* When all chains have been extended, their extensions are the occurrences of one
\* more item.
LEMMA NextItemKeepsInv ==
    ASSUME MatcherInv, NextItem
    PROVE  MatcherInv'
<1>1. /\ pc = "match" /\ MatcherTypeOK /\ ChainsComplete /\ ExtendedSoFar /\ done < Len(expr)
      /\ UNCHANGED <<args, read, expr, sentence>>
      /\ chains' = extended /\ extended' = <<>> /\ chain' = 1 /\ step' = 0
      /\ done' = done + 1 /\ done \in Nat /\ chain \in Nat
      /\ pc' = IF extended = <<>> \/ done' = Len(expr) THEN "matched" ELSE "match"
      /\ DOMAIN chains = 1 .. Len(chains) /\ chain > Len(chains)
  BY ChainsAreSequences DEF MatcherInv, MatcherTypeOK, NextItem
<1>2. MatcherTypeOK'
  BY <1>1, EmptySeq DEF MatcherTypeOK
<1>3. \A n \in DOMAIN chains, j \in DOMAIN sentence :
        Visited(n, j) <=>
          j \in After(chains[n], expr[done + 1]) /\ IsTokenMatch(sentence[j], expr[done + 1])
  BY <1>1 DEF Visited, Wanted
<1>4. \A i \in DOMAIN extended : extended[i] \in Occurrences(done + 1)
  <2> SUFFICES ASSUME NEW i \in DOMAIN extended
               PROVE  extended[i] \in Occurrences(done + 1)
    OBVIOUS
  <2>1. PICK n \in 1 .. chain, j \in DOMAIN sentence :
          Visited(n, j) /\ extended[i] = Append(chains[n], j)
    BY <1>1 DEF ExtendedSoFar
  <2>2. n \in DOMAIN chains
    BY <2>1 DEF Visited
  <2>3. j \in After(chains[n], expr[done + 1]) /\ IsTokenMatch(sentence[j], expr[done + 1])
    BY <1>3, <2>1, <2>2
  <2>4. chains[n] \in Occurrences(done)
    BY <1>1, <2>2, ChainsAreSequences
  <2> QED
    BY <1>1, <2>1, <2>3, <2>4, ExtensionOccurs
<1>5. ASSUME NEW d \in Occurrences(done + 1)
      PROVE  \E i \in DOMAIN extended : extended[i] = d
  <2>1. PICK c \in Occurrences(done), j \in DOMAIN sentence :
          /\ j \in After(c, expr[done + 1]) /\ IsTokenMatch(sentence[j], expr[done + 1])
          /\ d = Append(c, j)
    BY <1>1, OccurrenceIsExtension
  <2>2. PICK n \in DOMAIN chains : chains[n] = c
    BY <1>1, <2>1 DEF ChainsComplete, Range
  <2>3. Visited(n, j)
    BY <1>3, <2>1, <2>2
  <2> QED
    BY <1>1, <2>1, <2>2, <2>3 DEF ExtendedSoFar
<1>6. Occurrences(done)' = Occurrences(done + 1)
  BY <1>1 DEF Occurrences
<1>7. ChainsComplete'
  <2>1. extended \in Seq(Occurrences(done + 1))
    <3>1. extended \in [1 .. Len(extended) -> Occurrences(done + 1)] /\ Len(extended) \in Nat
      BY <1>1, <1>4, LenProperties DEF MatcherTypeOK
    <3> QED
      BY <3>1
  <2>2. Range(extended) = Occurrences(done + 1)
    BY <1>4, <1>5 DEF Range
  <2>3. \A i, j \in DOMAIN extended : i < j => Before(extended[i], extended[j])
    BY <1>1 DEF ExtendedSoFar
  <2> QED
    BY <1>1, <1>6, <2>1, <2>2, <2>3 DEF ChainsComplete
<1>8. ExtendedSoFar'
  <2>1. ASSUME NEW n, NEW j, Visited(n, j)'
        PROVE  FALSE
    <3>1. n \in DOMAIN extended /\ (n < 1 \/ (n = 1 /\ j <= LastToken(extended[n]) + 0))
          /\ j \in DOMAIN sentence /\ LastToken(extended[n]) < j
      BY <1>1, <2>1 DEF Visited, After, LastToken
    <3>2. n = 1
      <4>1. n \in 1 .. Len(extended) /\ Len(extended) \in Nat
        BY <1>1, <3>1, LenProperties DEF MatcherTypeOK
      <4> QED
        BY <3>1, <4>1
    <3>3. LastToken(extended[n]) \in Nat /\ j \in Nat
      <4>1. extended[n] \in Seq(DOMAIN sentence) /\ DOMAIN sentence \subseteq Nat
        BY <1>1, <3>1 DEF MatcherTypeOK
      <4> QED
        BY <3>1, <4>1, EmptySeq DEF LastToken
    <3> QED
      BY <3>1, <3>2, <3>3
  <2> QED
    BY <1>1, <2>1 DEF ExtendedSoFar
<1>9. done' < Len(expr') \/ done' = Len(expr')
  BY <1>1 DEF MatcherTypeOK
<1> QED
  BY <1>1, <1>2, <1>7, <1>8, <1>9 DEF MatcherInv

\* So every step keeps the invariant.
LEMMA MatcherInductive == MatcherInv /\ [MatcherNext]_matcherVars => MatcherInv'
<1> SUFFICES ASSUME MatcherInv, [MatcherNext]_matcherVars PROVE MatcherInv'
  OBVIOUS
<1>1. CASE UNCHANGED matcherVars
  <2>1. /\ UNCHANGED <<pc, args, read, expr, sentence, done, chains, extended, chain, step>>
        /\ Wanted' = Wanted
    BY <1>1 DEF matcherVars, Wanted
  <2>2. MatcherTypeOK' = MatcherTypeOK /\ Occurrences(done)' = Occurrences(done)
    BY <2>1 DEF MatcherTypeOK, Occurrences
  <2>3. ChainsComplete' = ChainsComplete
    BY <2>1, <2>2 DEF ChainsComplete
  <2>4. ASSUME NEW n, NEW j
        PROVE  Visited(n, j)' = Visited(n, j)
    BY <2>1 DEF Visited, After
  <2>5. ExtendedSoFar' = ExtendedSoFar
    BY <2>1, <2>4 DEF ExtendedSoFar
  <2> QED
    BY <2>1, <2>2, <2>3, <2>5 DEF MatcherInv
<1> QED
  BY <1>1, ParseKeepsInv, MatchBegins, LookKeepsInv, NextChainKeepsInv, PanicKeepsInv,
     NextItemKeepsInv
  DEF MatcherNext

-----------------------------------------------------------------------------
(* Theorems                                                                *)

\* matchExpr returns every occurrence of the expression, each once and in reading
\* order, for all sentences and all expressions, and fails only at a negative
\* distance, or at one with which the index of a token overflows.
THEOREM MatcherFindsAll == MatcherSpec => []ChainsAreOccurrences
<1>1. MatcherInv => ChainsAreOccurrences
  BY DEF MatcherInv, ChainsComplete, ChainsAreOccurrences
<1> QED
  BY <1>1, MatcherInitInv, MatcherInductive, PTL DEF MatcherSpec

\* A sentence that the matcher accepts has the lemmas that the index is asked for, as
\* long as each lemma field is one lemma.
THEOREM IndexLeadsToMatches == MatcherSpec => []MatchesAreCandidates
<1>1. MatcherInv => MatchesAreCandidates
  <2> SUFFICES ASSUME MatcherInv, Matched,
                      \A i \in DOMAIN expr : Cardinality(expr[i].lemmas) <= 1,
                      NEW i \in DOMAIN expr, expr[i].lemmas # {}
               PROVE  expr[i].lemmas \in IndexedLemmas
    BY DEF MatchesAreCandidates, ExprLemmas
  <2>1. /\ MatcherTypeOK /\ ChainsComplete /\ done = Len(expr) /\ chains # <<>>
    BY DEF MatcherInv, Matched
  <2>2. 1 \in DOMAIN chains
    BY <2>1, EmptySeq, ChainsAreSequences
  <2>3. PICK c \in Occurrences(done) : TRUE
    BY <2>1, <2>2, ChainsAreSequences
  <2>4. c[i] \in DOMAIN sentence /\ IsTokenMatch(sentence[c[i]], expr[i])
    BY <2>1 DEF Occurrences, MatcherTypeOK
  <2>5. sentence[c[i]].lemma \in expr[i].lemmas
    BY <2>4 DEF IsTokenMatch
  <2>6. IsFiniteSet(expr[i].lemmas)
    <3>1. expr[i] \in Item
      BY <2>1 DEF MatcherTypeOK
    <3> QED
      BY <3>1, MatcherAssumption, FS_Subset DEF Item
  <2>7. expr[i].lemmas = {sentence[c[i]].lemma}
    <3>1. Cardinality(expr[i].lemmas) = 0 \/ Cardinality(expr[i].lemmas) = 1
      BY <2>6, FS_CardinalityType
    <3>2. PICK l : expr[i].lemmas = {l}
      BY <2>5, <2>6, <3>1, FS_EmptySet, FS_Singleton
    <3> QED
      BY <2>5, <3>2
  <2> QED
    BY <2>4, <2>7 DEF IndexedLemmas
<1> QED
  BY <1>1, MatcherInitInv, MatcherInductive, PTL DEF MatcherSpec

-----------------------------------------------------------------------------
(* What is printed, piece by piece                                         *)

Sign == STRING \cup {"blank"}
Cell == [char : Sign, bright : BOOLEAN]
Word == [text : Seq(STRING), idx : Nat]

\* What is printed of characters, and of cells; and the letters in bright.
Line(text) == [n \in DOMAIN text |-> OnOneLine(text[n])]
Chars(cells) == [n \in DOMAIN cells |-> OnOneLine(cells[n].char)]
Shine(cells) ==
    FlattenSeq([n \in DOMAIN cells |->
        IF cells[n].bright THEN <<OnOneLine(cells[n].char)>> ELSE <<>>])

LEMMA OnOneLineTyped ==
    ASSUME NEW c \in Sign
    PROVE  OnOneLine(c) \in Sign
BY DEF OnOneLine, Sign

LEMMA SingleTyped ==
    ASSUME NEW S, NEW e \in S
    PROVE  <<e>> \in Seq(S)
OBVIOUS

\* f of each element, and of those of two sequences one after the other.
Mapped(f, s) == [n \in DOMAIN s |-> f[s[n]]]
Maps(f, S, T) == f \in [S -> T]

LEMMA MapConcat ==
    ASSUME NEW S, NEW T, NEW f, Maps(f, S, T), NEW s \in Seq(S), NEW t \in Seq(S)
    PROVE  /\ Mapped(f, s) \in Seq(T) /\ Len(Mapped(f, s)) = Len(s)
           /\ \A n \in 1 .. Len(s) : Mapped(f, s)[n] = f[s[n]]
           /\ Mapped(f, t) \in Seq(T)
           /\ Mapped(f, s \o t) = Mapped(f, s) \o Mapped(f, t)
<1> DEFINE m(u) == Mapped(f, u)
<1>1. ASSUME NEW u \in Seq(S)
      PROVE  m(u) \in Seq(T) /\ Len(m(u)) = Len(u) /\ \A n \in 1 .. Len(u) : m(u)[n] = f[u[n]]
  <2>1. DOMAIN u = 1 .. Len(u) /\ Len(u) \in Nat /\ \A n \in 1 .. Len(u) : u[n] \in S
    BY LenProperties, ElementOfSeq
  <2>2. m(u) \in [1 .. Len(u) -> T] /\ \A n \in 1 .. Len(u) : m(u)[n] = f[u[n]]
    BY <2>1 DEF Mapped, Maps
  <2> HIDE DEF m
  <2> QED
    BY <2>1, <2>2, FunctionIsSeq
<1>2. s \o t \in Seq(S) /\ Len(s \o t) = Len(s) + Len(t) /\ Len(s) \in Nat /\ Len(t) \in Nat
      /\ \A i \in 1 .. Len(s) + Len(t) : (s \o t)[i] = IF i <= Len(s) THEN s[i] ELSE t[i - Len(s)]
  BY ConcatProperties, LenProperties
<1> HIDE DEF m
<1> DEFINE a == m(s)  b == m(t)  c == m(s \o t)
<1>3. /\ a \in Seq(T) /\ b \in Seq(T) /\ c \in Seq(T) /\ Len(a) = Len(s) /\ Len(b) = Len(t)
      /\ Len(c) = Len(s) + Len(t)
  BY <1>1, <1>2
<1>4. a \o b \in Seq(T) /\ Len(a \o b) = Len(s) + Len(t)
      /\ \A i \in 1 .. Len(s) + Len(t) : (a \o b)[i] = IF i <= Len(s) THEN a[i] ELSE b[i - Len(s)]
  <2> HIDE DEF a, b
  <2> QED
    BY <1>3, ConcatProperties, SMTT(20)
<1>5. ASSUME NEW i \in 1 .. Len(s) + Len(t)
      PROVE  c[i] = (a \o b)[i]
  <2>1. c[i] = f[(s \o t)[i]]
    BY <1>1, <1>2
  <2>2. CASE i <= Len(s)
    <3>1. i \in 1 .. Len(s)
      BY <2>2
    <3>2. a[i] = f[s[i]]
      BY <1>1, <3>1
    <3> QED
      BY <1>2, <1>4, <2>1, <2>2, <3>2
  <2>3. CASE ~(i <= Len(s))
    <3>1. i - Len(s) \in 1 .. Len(t)
      BY <1>2, <2>3
    <3>2. b[i - Len(s)] = f[t[i - Len(s)]]
      BY <1>1, <3>1
    <3> QED
      BY <1>2, <1>4, <2>1, <2>3, <3>2
  <2> QED
    BY <2>2, <2>3
<1>6. c = a \o b
  <2> HIDE DEF a, b, c
  <2> QED
    BY <1>3, <1>4, <1>5, SeqEqual
<1> QED
  BY <1>1, <1>3, <1>6 DEF m

LEMMA LineConcat ==
    ASSUME NEW s \in Seq(Sign), NEW t \in Seq(Sign)
    PROVE  Line(s) \in Seq(Sign) /\ Len(Line(s)) = Len(s) /\ Line(s \o t) = Line(s) \o Line(t)
<1> DEFINE T == Sign  f == [c \in Sign |-> OnOneLine(c)]
<1>1. Maps(f, Sign, T) /\ \A c \in Sign : f[c] = OnOneLine(c)
  BY OnOneLineTyped DEF Maps
<1>2. ASSUME NEW u \in Seq(Sign)
      PROVE  Line(u) = Mapped(f, u)
  <2>1. \A n \in DOMAIN u : u[n] \in Sign
    BY LenProperties, ElementOfSeq
  <2> HIDE DEF f
  <2> QED
    BY <1>1, <2>1 DEF Line, Mapped
<1> HIDE DEF f, T
<1>3. s \o t \in Seq(Sign)
  BY ConcatProperties
<1>4. Line(s) = Mapped(f, s) /\ Line(t) = Mapped(f, t) /\ Line(s \o t) = Mapped(f, s \o t)
  BY <1>2, <1>3
<1>5. /\ Mapped(f, s) \in Seq(T) /\ Len(Mapped(f, s)) = Len(s)
      /\ Mapped(f, s \o t) = Mapped(f, s) \o Mapped(f, t)
  BY <1>1, MapConcat
<1> QED
  BY <1>4, <1>5 DEF T

LEMMA CharsConcat ==
    ASSUME NEW s \in Seq(Cell), NEW t \in Seq(Cell)
    PROVE  Chars(s) \in Seq(Sign) /\ Len(Chars(s)) = Len(s) /\ Chars(s \o t) = Chars(s) \o Chars(t)
<1> DEFINE f == [c \in Cell |-> OnOneLine(c.char)]
<1>1. Maps(f, Cell, Sign) /\ \A c \in Cell : f[c] = OnOneLine(c.char)
  <2>1. \A c \in Cell : OnOneLine(c.char) \in Sign
    BY OnOneLineTyped DEF Cell
  <2> QED
    BY <2>1 DEF Maps
<1>2. ASSUME NEW u \in Seq(Cell)
      PROVE  Chars(u) = Mapped(f, u)
  <2>1. \A n \in DOMAIN u : u[n] \in Cell
    BY LenProperties, ElementOfSeq
  <2> HIDE DEF f
  <2> QED
    BY <1>1, <2>1 DEF Chars, Mapped
<1> HIDE DEF f
<1>3. s \o t \in Seq(Cell)
  BY ConcatProperties
<1>4. Chars(s) = Mapped(f, s) /\ Chars(t) = Mapped(f, t) /\ Chars(s \o t) = Mapped(f, s \o t)
  BY <1>2, <1>3
<1>5. /\ Mapped(f, s) \in Seq(Sign) /\ Len(Mapped(f, s)) = Len(s)
      /\ Mapped(f, s \o t) = Mapped(f, s) \o Mapped(f, t)
  BY <1>1, MapConcat
<1> QED
  BY <1>4, <1>5

LEMMA ShineConcat ==
    ASSUME NEW s \in Seq(Cell), NEW t \in Seq(Cell)
    PROVE  Shine(s) \in Seq(Sign) /\ Shine(s \o t) = Shine(s) \o Shine(t)
<1> DEFINE g(c) == IF c.bright THEN <<OnOneLine(c.char)>> ELSE <<>>
           f == [c \in Cell |-> g(c)]
<1>1. Maps(f, Cell, Seq(Sign)) /\ \A c \in Cell : f[c] = g(c)
  <2>1. ASSUME NEW c \in Cell
        PROVE  g(c) \in Seq(Sign)
    <3>1. OnOneLine(c.char) \in Sign
      BY OnOneLineTyped DEF Cell
    <3>2. <<OnOneLine(c.char)>> \in Seq(Sign) /\ <<>> \in Seq(Sign)
      BY <3>1, SingleTyped, EmptySeq
    <3> QED
      BY <3>2
  <2> HIDE DEF g
  <2> QED
    BY <2>1 DEF Maps
<1>2. ASSUME NEW u \in Seq(Cell)
      PROVE  Shine(u) = FlattenSeq(Mapped(f, u))
  <2>1. \A n \in DOMAIN u : u[n] \in Cell
    BY LenProperties, ElementOfSeq
  <2>2. [n \in DOMAIN u |-> g(u[n])] = Mapped(f, u)
    <3> HIDE DEF f, g
    <3> QED
      BY <1>1, <2>1 DEF Mapped
  <2> HIDE DEF f
  <2> QED
    BY <2>2 DEF Shine
<1> HIDE DEF f, g
<1> DEFINE a == Mapped(f, s)  b == Mapped(f, t)
<1>3. s \o t \in Seq(Cell)
  BY ConcatProperties
<1>4. /\ a \in Seq(Seq(Sign)) /\ b \in Seq(Seq(Sign))
      /\ Mapped(f, s \o t) = a \o b
  BY <1>1, MapConcat
<1> HIDE DEF a, b
<1>5. FlattenSeq(a \o b) = FlattenSeq(a) \o FlattenSeq(b) /\ FlattenSeq(a) \in Seq(Sign)
  BY <1>4, FlattenConcat, FlattenTyped
<1>6. Shine(s) = FlattenSeq(a) /\ Shine(t) = FlattenSeq(b)
  BY <1>2 DEF a, b
<1>7. Shine(s \o t) = FlattenSeq(a \o b)
  BY <1>2, <1>3, <1>4
<1> QED
  BY <1>5, <1>6, <1>7

LEMMA LettersConcat ==
    ASSUME NEW s \in Seq(Sign), NEW t \in Seq(Sign)
    PROVE  Letters(s) \in Seq(Sign) /\ Letters(s \o t) = Letters(s) \o Letters(t)
<1> DEFINE g(c) == IF c = "blank" THEN <<>> ELSE <<c>>
           f == [c \in Sign |-> g(c)]
<1>1. Maps(f, Sign, Seq(Sign)) /\ \A c \in Sign : f[c] = g(c)
  <2>1. ASSUME NEW c \in Sign
        PROVE  g(c) \in Seq(Sign)
    BY SingleTyped, EmptySeq
  <2> HIDE DEF g
  <2> QED
    BY <2>1 DEF Maps
<1>2. ASSUME NEW u \in Seq(Sign)
      PROVE  Letters(u) = FlattenSeq(Mapped(f, u))
  <2>1. \A n \in DOMAIN u : u[n] \in Sign
    BY LenProperties, ElementOfSeq
  <2>2. [n \in DOMAIN u |-> g(u[n])] = Mapped(f, u)
    <3> HIDE DEF f, g
    <3> QED
      BY <1>1, <2>1 DEF Mapped
  <2> HIDE DEF f
  <2> QED
    BY <2>2 DEF Letters
<1> HIDE DEF f, g
<1> DEFINE a == Mapped(f, s)  b == Mapped(f, t)
<1>3. s \o t \in Seq(Sign)
  BY ConcatProperties
<1>4. /\ a \in Seq(Seq(Sign)) /\ b \in Seq(Seq(Sign))
      /\ Mapped(f, s \o t) = a \o b
  BY <1>1, MapConcat
<1> HIDE DEF a, b
<1>5. FlattenSeq(a \o b) = FlattenSeq(a) \o FlattenSeq(b) /\ FlattenSeq(a) \in Seq(Sign)
  BY <1>4, FlattenConcat, FlattenTyped
<1>6. Letters(s) = FlattenSeq(a) /\ Letters(t) = FlattenSeq(b)
  BY <1>2 DEF a, b
<1>7. Letters(s \o t) = FlattenSeq(a \o b)
  BY <1>2, <1>3, <1>4
<1> QED
  BY <1>5, <1>6, <1>7

-----------------------------------------------------------------------------
(* Words in the text of the book                                           *)

Laid == layout \in Layouts /\ sentence \in Sentences

LEMMA LaidOut ==
    ASSUME Laid
    PROVE  /\ DOMAIN sentence = 1 .. Len(sentence) /\ Len(sentence) \in Nat
           /\ DOMAIN layout = 1 .. Len(layout) /\ Len(layout) \in Nat
           /\ Len(sentence) <= Len(layout)
           /\ \A i \in 2 .. Len(layout) :
                 layout[i] = layout[i - 1] \/ End(layout[i - 1]) <= layout[i].idx
<1>1. sentence \in Seq(Token)
  BY MatcherAssumption DEF Laid
<1>2. layout \in Seq(Word)
  BY RenderAssumption DEF Laid, Word
<1>3. DOMAIN layout = 1 .. Len(layout) /\ Len(layout) \in Nat
  BY <1>2, LenProperties
<1>4. DOMAIN sentence = 1 .. Len(sentence) /\ Len(sentence) \in Nat
  BY <1>1, LenProperties
<1> QED
  BY <1>3, <1>4, RenderAssumption DEF Laid

LEMMA WordIs ==
    ASSUME Laid, NEW i \in 1 .. Len(layout)
    PROVE  /\ layout[i].text \in Seq(STRING) /\ layout[i].text \in Seq(Sign)
           /\ DOMAIN layout[i].text = 1 .. Len(layout[i].text)
           /\ Len(layout[i].text) \in Nat \ {0} /\ layout[i].idx \in Nat
           /\ End(layout[i]) \in Nat /\ layout[i].idx < End(layout[i])
           /\ End(layout[i]) = layout[i].idx + Len(layout[i].text)
<1>1. layout \in Seq(Word)
  BY RenderAssumption DEF Laid, Word
<1>2. layout[i] \in Word
  BY <1>1, ElementOfSeq
<1> DEFINE w == layout[i]
<1>3. w.text \in Seq(STRING) /\ w.idx \in Nat
  BY <1>2 DEF Word
<1>4. w.text # <<>>
  BY LaidOut, RenderAssumption DEF Laid
<1>5. /\ Len(w.text) \in Nat \ {0} /\ DOMAIN w.text = 1 .. Len(w.text)
      /\ \A n \in 1 .. Len(w.text) : w.text[n] \in STRING
  BY <1>3, <1>4, EmptySeq, LenProperties, ElementOfSeq
<1>6. w.text \in Seq(Sign)
  <2> DEFINE t == w.text
  <2> HIDE DEF w, t
  <2>1. t = [n \in 1 .. Len(t) |-> t[n]] /\ Len(t) \in Nat
    BY <1>3, <1>5, LenProperties DEF t
  <2>2. \A n \in 1 .. Len(t) : t[n] \in Sign
    BY <1>5 DEF t, Sign
  <2>3. t \in [1 .. Len(t) -> Sign]
    BY <2>1, <2>2
  <2> QED
    BY <2>1, <2>3, FunctionIsSeq DEF t
<1>7. End(w) = w.idx + Len(w.text)
  BY DEF End
<1> HIDE DEF w
<1>8. End(w) \in Nat /\ w.idx < End(w)
  BY <1>3, <1>5, <1>7
<1> QED
  BY <1>3, <1>5, <1>6, <1>7, <1>8 DEF w

\* Words that come later are further on in the text, but for the parts of one word.
LEMMA Later ==
    ASSUME Laid, NEW j \in 1 .. Len(layout), NEW k \in 1 .. Len(layout), j <= k
    PROVE  layout[j] = layout[k] \/ End(layout[j]) <= layout[k].idx
<1> DEFINE n == Len(layout)
           T == {d \in 0 .. n - j : \/ layout[j] = layout[j + d]
                                    \/ End(layout[j]) <= layout[j + d].idx}
<1>1. n \in Nat /\ j \in 1 .. n /\ n - j \in Nat /\ j + 0 = j
  BY LaidOut
<1>2. 0 \in T
  BY <1>1
<1>3. ASSUME NEW d \in 0 .. n - j, d # n - j, d \in T
      PROVE  d + 1 \in T
  <2> DEFINE a == layout[j]  b == layout[j + d]  c == layout[j + (d + 1)]
  <2>1. /\ j + d \in 1 .. n /\ j + (d + 1) \in 1 .. n /\ j + (d + 1) \in 2 .. n
        /\ (j + (d + 1)) - 1 = j + d /\ d + 1 \in 0 .. n - j
    BY <1>1, <1>3, SMTT(20)
  <2>2. a = b \/ End(a) <= b.idx
    BY <1>3
  <2>3. c = b \/ End(b) <= c.idx
    BY <2>1, LaidOut
  <2>4. /\ End(a) \in Nat /\ End(b) \in Nat /\ b.idx \in Nat /\ c.idx \in Nat
        /\ b.idx < End(b)
    BY <1>1, <2>1, WordIs
  <2>5. a = c \/ End(a) <= c.idx
    <3> HIDE DEF a, b, c
    <3> QED
      BY <2>2, <2>3, <2>4
  <2> QED
    BY <2>1, <2>5
<1>4. k - j \in 0 .. n - j /\ j + (k - j) = k
  BY <1>1
<1> HIDE DEF T, n
<1>5. 0 .. n - j \subseteq T
  BY <1>1, <1>2, <1>3, UpTo
<1>6. k - j \in T
  BY <1>4, <1>5
<1> QED
  BY <1>4, <1>6 DEF T

LEMMA CharInWord ==
    ASSUME Laid, NEW k \in 1 .. Len(sentence), NEW o \in Nat,
           layout[k].idx <= o, o < End(layout[k])
    PROVE  CharAt(o) = OnOneLine(layout[k].text[o - layout[k].idx + 1])
<1> DEFINE m == Min(WordsAt(o))
<1>1. /\ Len(sentence) \in Nat /\ DOMAIN sentence = 1 .. Len(sentence)
      /\ \A i \in 1 .. Len(sentence) : i \in 1 .. Len(layout)
  BY LaidOut
<1>2. WordsAt(o) \in SUBSET (1 .. Len(sentence)) /\ k \in WordsAt(o)
  BY <1>1 DEF WordsAt
<1>3. m \in 1 .. Len(sentence) /\ layout[m].idx <= o /\ o < End(layout[m])
  <2>1. m \in WordsAt(o)
    BY <1>1, <1>2, LeastOf
  <2> QED
    BY <1>2, <2>1 DEF WordsAt
<1> HIDE DEF m
<1>4. layout[m] = layout[k]
  <2>1. m \in 1 .. Len(layout) /\ k \in 1 .. Len(layout) /\ (m <= k \/ k <= m)
    BY <1>1, <1>3
  <2>2. \/ layout[m] = layout[k] \/ End(layout[m]) <= layout[k].idx
        \/ End(layout[k]) <= layout[m].idx
    BY <2>1, Later
  <2>3. /\ End(layout[m]) \in Nat /\ End(layout[k]) \in Nat
        /\ layout[m].idx \in Nat /\ layout[k].idx \in Nat
    BY <2>1, WordIs
  <2> QED
    BY <1>3, <2>2, <2>3
<1> QED
  BY <1>2, <1>4 DEF CharAt, m

LEMMA CharInGap ==
    ASSUME Laid, NEW k \in 1 .. Len(sentence), k + 1 \in 1 .. Len(sentence), NEW o \in Nat,
           End(layout[k]) <= o, o < layout[k + 1].idx
    PROVE  CharAt(o) = "blank"
<1>1. /\ Len(sentence) \in Nat /\ DOMAIN sentence = 1 .. Len(sentence)
      /\ \A i \in 1 .. Len(sentence) : i \in 1 .. Len(layout)
  BY LaidOut
<1>2. ASSUME NEW i \in 1 .. Len(sentence), layout[i].idx <= o, o < End(layout[i])
      PROVE  FALSE
  <2> DEFINE a == layout[i]  b == layout[k]  c == layout[k + 1]
  <2>1. /\ i \in 1 .. Len(layout) /\ k \in 1 .. Len(layout) /\ k + 1 \in 1 .. Len(layout)
        /\ (i <= k \/ k + 1 <= i)
    BY <1>1
  <2>2. /\ End(a) \in Nat /\ End(b) \in Nat /\ End(c) \in Nat
        /\ a.idx \in Nat /\ b.idx \in Nat /\ c.idx \in Nat
        /\ a.idx < End(a) /\ b.idx < End(b) /\ c.idx < End(c)
    BY <2>1, WordIs
  <2>3. CASE i <= k
    <3>1. a = b \/ End(a) <= b.idx
      BY <2>1, <2>3, Later
    <3> HIDE DEF a, b, c
    <3> QED
      BY <1>2, <2>2, <3>1 DEF a, b, c
  <2>4. CASE k + 1 <= i
    <3>1. c = a \/ End(c) <= a.idx
      BY <2>1, <2>4, Later
    <3> QED
      BY <1>2, <2>2, <3>1
  <2> QED
    BY <2>1, <2>3, <2>4
<1>3. WordsAt(o) = {}
  BY <1>1, <1>2 DEF WordsAt
<1> QED
  BY <1>3 DEF CharAt

LEMMA CharAtTyped ==
    ASSUME Laid, NEW o \in Nat
    PROVE  CharAt(o) \in Sign
<1>1. /\ DOMAIN sentence = 1 .. Len(sentence)
      /\ \A i \in 1 .. Len(sentence) : i \in 1 .. Len(layout)
  BY LaidOut
<1>2. CASE WordsAt(o) = {}
  BY <1>2 DEF CharAt, Sign
<1>3. CASE WordsAt(o) # {}
  <2>1. PICK k \in 1 .. Len(sentence) : layout[k].idx <= o /\ o < End(layout[k])
    BY <1>1, <1>3 DEF WordsAt
  <2>2. CharAt(o) = OnOneLine(layout[k].text[o - layout[k].idx + 1])
    BY <2>1, CharInWord
  <2> DEFINE w == layout[k]  n == o - w.idx + 1
  <2>3. /\ w.text \in Seq(Sign) /\ w.idx \in Nat /\ Len(w.text) \in Nat
        /\ End(w) = w.idx + Len(w.text) /\ End(w) \in Nat
    BY <1>1, WordIs
  <2>4. n \in 1 .. Len(w.text)
    <3> DEFINE a == w.idx  b == End(w)  l == Len(w.text)
    <3>1. a \in Nat /\ b = a + l /\ l \in Nat /\ a <= o /\ o < b /\ n = o - a + 1
      BY <2>1, <2>3
    <3> HIDE DEF a, b, l, n
    <3>2. n \in 1 .. l
      BY <3>1
    <3> QED
      BY <3>2 DEF l
  <2> HIDE DEF n
  <2>5. w.text[n] \in Sign
    BY <2>3, <2>4, ElementOfSeq
  <2>6. OnOneLine(w.text[n]) \in Sign
    BY <2>5, OnOneLineTyped
  <2> QED
    BY <2>2, <2>6 DEF n
<1> QED
  BY <1>2, <1>3

LEMMA BookTextIs ==
    ASSUME Laid, NEW a \in Nat, NEW b \in Nat, a <= b
    PROVE  /\ BookText(a, b) \in Seq(Sign) /\ Len(BookText(a, b)) = b - a
           /\ \A n \in 1 .. b - a : BookText(a, b)[n] = CharAt(a + n - 1)
<1> DEFINE f == [n \in 1 .. b - a |-> CharAt(a + n - 1)]
<1>1. \A n \in 1 .. b - a : a + n - 1 \in Nat
  OBVIOUS
<1>2. f \in [1 .. b - a -> Sign] /\ b - a \in Nat /\ \A n \in 1 .. b - a : f[n] = CharAt(a + n - 1)
  BY <1>1, CharAtTyped
<1>3. BookText(a, b) = f
  BY DEF BookText
<1> HIDE DEF f
<1> QED
  BY <1>2, <1>3, FunctionIsSeq

LEMMA BookTextSplit ==
    ASSUME Laid, NEW a \in Nat, NEW b \in Nat, NEW c \in Nat, a <= b, b <= c
    PROVE  BookText(a, c) = BookText(a, b) \o BookText(b, c)
<1> DEFINE s == BookText(a, b)  t == BookText(b, c)  u == BookText(a, c)
<1>0. a <= c
  OBVIOUS
<1>1. /\ s \in Seq(Sign) /\ Len(s) = b - a /\ \A n \in 1 .. b - a : s[n] = CharAt(a + n - 1)
      /\ t \in Seq(Sign) /\ Len(t) = c - b /\ \A n \in 1 .. c - b : t[n] = CharAt(b + n - 1)
      /\ u \in Seq(Sign) /\ Len(u) = c - a /\ \A n \in 1 .. c - a : u[n] = CharAt(a + n - 1)
  BY <1>0, BookTextIs
<1> HIDE DEF s, t, u
<1>2. /\ s \o t \in Seq(Sign) /\ Len(s \o t) = Len(s) + Len(t)
      /\ \A i \in 1 .. Len(s) + Len(t) :
            (s \o t)[i] = IF i <= Len(s) THEN s[i] ELSE t[i - Len(s)]
  BY <1>1, ConcatProperties
<1>3. Len(s) + Len(t) = c - a
  BY <1>1
<1>4. ASSUME NEW i \in 1 .. c - a
      PROVE  u[i] = (s \o t)[i]
  <2>1. CASE i <= b - a
    <3>1. i \in 1 .. b - a
      BY <2>1
    <3> QED
      BY <1>1, <1>2, <1>3, <2>1, <3>1
  <2>2. CASE ~(i <= b - a)
    <3>1. i - (b - a) \in 1 .. c - b /\ b + (i - (b - a)) - 1 = a + i - 1
      BY <2>2
    <3>2. t[i - (b - a)] = CharAt(a + i - 1)
      BY <1>1, <3>1
    <3> QED
      BY <1>1, <1>2, <1>3, <2>2, <3>2
  <2> QED
    BY <2>1, <2>2
<1>5. u = s \o t
  BY <1>1, <1>2, <1>3, <1>4, SeqEqual
<1> QED
  BY <1>5 DEF s, t, u

LEMMA BookWord ==
    ASSUME Laid, NEW k \in 1 .. Len(sentence)
    PROVE  BookText(layout[k].idx, End(layout[k])) = Line(layout[k].text)
<1> DEFINE w == layout[k]  a == w.idx  b == End(w)  l == Len(w.text)
           s == BookText(a, b)  t == Line(w.text)
<1>1. k \in 1 .. Len(layout)
  BY LaidOut
<1>2. /\ w.text \in Seq(Sign) /\ DOMAIN w.text = 1 .. l /\ l \in Nat /\ a \in Nat
      /\ b \in Nat /\ b = a + l /\ a <= b /\ b - a = l
  <2>1. /\ w.text \in Seq(Sign) /\ DOMAIN w.text = 1 .. l /\ l \in Nat /\ a \in Nat
        /\ b \in Nat /\ b = a + l
    BY <1>1, WordIs
  <2> HIDE DEF w, a, b, l
  <2> QED
    BY <2>1
<1>3. ASSUME NEW n \in 1 .. l
      PROVE  CharAt(a + n - 1) = OnOneLine(w.text[n])
  <2> DEFINE o == a + n - 1
  <2>1. o \in Nat /\ a <= o /\ o < b /\ o - a + 1 = n
    <3> HIDE DEF w, a, b, l
    <3> QED
      BY <1>2
  <2> HIDE DEF o
  <2>2. o \in Nat /\ layout[k].idx <= o /\ o < End(layout[k]) /\ o - layout[k].idx + 1 = n
    BY <2>1
  <2>3. CharAt(o) = OnOneLine(layout[k].text[o - layout[k].idx + 1])
    BY <2>2, CharInWord
  <2> QED
    BY <2>2, <2>3 DEF o
<1>4. /\ s \in Seq(Sign) /\ Len(s) = l /\ \A n \in 1 .. l : s[n] = CharAt(a + n - 1)
  <2>1. /\ s \in Seq(Sign) /\ Len(s) = b - a /\ \A n \in 1 .. b - a : s[n] = CharAt(a + n - 1)
    <3> HIDE DEF w, a, b, l
    <3> QED
      BY <1>2, BookTextIs
  <2> QED
    BY <1>2, <2>1
<1>5. t \in Seq(Sign) /\ Len(t) = l /\ \A n \in 1 .. l : t[n] = OnOneLine(w.text[n])
  BY <1>2, LineConcat DEF Line
<1> HIDE DEF s, t, w, a, b, l
<1>6. s = t
  BY <1>3, <1>4, <1>5, SeqEqual
<1> QED
  BY <1>6 DEF s, t, w, a, b

Gap(n) == [i \in 1 .. n |-> "blank"]

LEMMA BookGap ==
    ASSUME Laid, NEW k \in 1 .. Len(sentence), k + 1 \in 1 .. Len(sentence),
           End(layout[k]) <= layout[k + 1].idx
    PROVE  BookText(End(layout[k]), layout[k + 1].idx) = Gap(layout[k + 1].idx - End(layout[k]))
<1> DEFINE a == End(layout[k])  b == layout[k + 1].idx
<1>1. k \in 1 .. Len(layout) /\ k + 1 \in 1 .. Len(layout)
  BY LaidOut
<1>2. a \in Nat /\ b \in Nat /\ a <= b
  BY <1>1, WordIs
<1>3. ASSUME NEW n \in 1 .. b - a
      PROVE  CharAt(a + n - 1) = "blank"
  <2> DEFINE o == a + n - 1
  <2>1. o \in Nat /\ a <= o /\ o < b
    <3> HIDE DEF a, b
    <3> QED
      BY <1>2
  <2> HIDE DEF o
  <2>2. CharAt(o) = "blank"
    BY <2>1, CharInGap
  <2> QED
    BY <2>2 DEF o
<1> HIDE DEF a, b
<1>4. BookText(a, b) = Gap(b - a)
  BY <1>3 DEF BookText, Gap
<1> QED
  BY <1>4 DEF a, b

-----------------------------------------------------------------------------
(* What WriteToken writes                                                  *)

LEMMA BlanksAre ==
    ASSUME NEW n \in Nat
    PROVE  /\ Blanks(n) \in Seq(Cell) /\ Chars(Blanks(n)) = Gap(n) /\ Gap(n) \in Seq(Sign)
           /\ Letters(Gap(n)) = <<>> /\ Shine(Blanks(n)) = <<>>
<1>1. Dark("blank") \in Cell /\ "blank" \in Sign
  BY DEF Dark, Cell, Sign
<1>2. Blanks(n) \in [1 .. n -> Cell] /\ Gap(n) \in [1 .. n -> Sign]
      /\ DOMAIN Blanks(n) = 1 .. n /\ DOMAIN Gap(n) = 1 .. n
  BY <1>1 DEF Blanks, Gap
<1>3. Blanks(n) \in Seq(Cell) /\ Gap(n) \in Seq(Sign)
  BY <1>2, FunctionIsSeq
<1>4. Chars(Blanks(n)) = Gap(n)
  BY DEF Chars, Blanks, Gap, Dark, OnOneLine
<1> DEFINE p == [i \in 1 .. n |-> <<>>]
<1>5. p \in Seq(Seq(Sign)) /\ Len(p) = n /\ \A i \in 1 .. n : p[i] = <<>>
  <2>1. p \in [1 .. n -> Seq(Sign)] /\ \A i \in 1 .. n : p[i] = <<>>
    BY EmptySeq
  <2> HIDE DEF p
  <2> QED
    BY <2>1, FunctionIsSeq
<1>6. Letters(Gap(n)) = FlattenSeq(p)
  BY DEF Letters, Gap
<1>7. Shine(Blanks(n)) = FlattenSeq(p)
  BY DEF Shine, Blanks, Dark
<1>8. FlattenSeq(p) = <<>>
  <2> HIDE DEF p
  <2> QED
    BY <1>5, FlattenNothing
<1> QED
  BY <1>3, <1>4, <1>6, <1>7, <1>8

LEMMA ColoredIs ==
    ASSUME Laid, NEW i \in 1 .. Len(layout)
    PROVE  /\ Colored(layout, i) \in Seq(Cell)
           /\ Chars(Colored(layout, i)) = Line(layout[i].text)
           /\ Shine(Colored(layout, i)) = IF i \in AllTokens THEN Line(layout[i].text) ELSE <<>>
<1> DEFINE t == layout[i].text  c == Colored(layout, i)  l == Len(t)  bright == i \in AllTokens
<1>1. t \in Seq(Sign) /\ DOMAIN t = 1 .. l /\ l \in Nat
  BY WordIs
<1>2. c = [j \in 1 .. l |-> [char |-> t[j], bright |-> bright]]
  BY <1>1 DEF Colored
<1>3. \A j \in 1 .. l : t[j] \in Sign
  BY <1>1, ElementOfSeq
<1> HIDE DEF c
<1>4. bright \in BOOLEAN
  OBVIOUS
<1> HIDE DEF t, l, bright
<1>5. c \in [1 .. l -> Cell] /\ DOMAIN c = 1 .. l
      /\ \A j \in 1 .. l : c[j].char = t[j] /\ c[j].bright = bright
  <2>1. \A j \in 1 .. l : [char |-> t[j], bright |-> bright] \in Cell
    BY <1>3, <1>4 DEF Cell
  <2> QED
    BY <1>2, <2>1
<1>6. c \in Seq(Cell)
  BY <1>1, <1>5, FunctionIsSeq
<1>7. Chars(c) = Line(t)
  BY <1>1, <1>5 DEF Chars, Line
<1> DEFINE p == [j \in DOMAIN c |-> IF c[j].bright THEN <<OnOneLine(c[j].char)>> ELSE <<>>]
<1>8. /\ Line(t) \in Seq(Sign) /\ Len(Line(t)) = l
      /\ \A j \in 1 .. l : Line(t)[j] = OnOneLine(t[j]) /\ OnOneLine(t[j]) \in Sign
  BY <1>1, <1>3, LineConcat, OnOneLineTyped DEF Line, l
<1>9. p \in Seq(Seq(Sign)) /\ Len(p) = l
      /\ \A j \in 1 .. l : p[j] = IF bright THEN <<Line(t)[j]>> ELSE <<>>
  <2>1. \A j \in 1 .. l : p[j] = IF bright THEN <<Line(t)[j]>> ELSE <<>>
    BY <1>5, <1>8
  <2>2. \A j \in 1 .. l : p[j] \in Seq(Sign)
    <3>1. \A j \in 1 .. l : <<Line(t)[j]>> \in Seq(Sign) /\ <<>> \in Seq(Sign)
      BY <1>8, SingleTyped, EmptySeq
    <3> HIDE DEF p
    <3> QED
      BY <2>1, <3>1
  <2>3. p = [j \in 1 .. l |-> p[j]]
    BY <1>5
  <2> HIDE DEF p
  <2>4. p \in [1 .. l -> Seq(Sign)]
    BY <2>2, <2>3
  <2> QED
    BY <1>1, <2>1, <2>4, FunctionIsSeq
<1>10. Shine(c) = FlattenSeq(p)
  BY DEF Shine
<1> HIDE DEF p
<1>11. FlattenSeq(p) = IF bright THEN Line(t) ELSE <<>>
  <2>1. CASE bright
    BY <1>8, <1>9, <2>1, FlattenSingles
  <2>2. CASE ~bright
    BY <1>9, <2>2, FlattenNothing
  <2> QED
    BY <2>1, <2>2
<1> QED
  BY <1>6, <1>7, <1>10, <1>11 DEF c, t, bright

\* After a word, what is in the text of the book up to the end of the next one.
LEMMA BookGrows ==
    ASSUME Laid, NEW from \in 1 .. Len(sentence), NEW p \in 1 .. Len(sentence), from <= p,
           p + 1 \in 1 .. Len(sentence)
    PROVE  LET a == layout[from].idx  b == End(layout[p])
               c == layout[p + 1].idx  d == End(layout[p + 1]) IN
           /\ a \in Nat /\ b \in Nat /\ c \in Nat /\ d \in Nat /\ a <= layout[p].idx /\ a <= b
           /\ layout[p].idx \in Nat /\ layout[p].idx < b /\ c < d
           /\ b = layout[p].idx + Len(layout[p].text) /\ Len(layout[p].text) \in Nat
           /\ layout[p + 1] = layout[p] \/ b <= c
           /\ BookText(a, b) \in Seq(Sign)
           /\ b <= c => BookText(a, d) = (BookText(a, b) \o Gap(c - b)) \o Line(layout[p + 1].text)
<1> DEFINE f == layout[from]  v == layout[p]  w == layout[p + 1]
           a == f.idx  b == End(v)  c == w.idx  d == End(w)
<1>1. /\ from \in 1 .. Len(layout) /\ p \in 1 .. Len(layout) /\ p + 1 \in 1 .. Len(layout)
      /\ p <= p + 1
  BY LaidOut
<1>2. /\ a \in Nat /\ b \in Nat /\ c \in Nat /\ d \in Nat /\ v.idx \in Nat /\ v.idx < b /\ c < d
      /\ End(f) \in Nat /\ a < End(f)
      /\ b = v.idx + Len(v.text) /\ Len(v.text) \in Nat
  BY <1>1, WordIs
<1>3. f = v \/ End(f) <= v.idx
  BY <1>1, Later
<1>4. v = w \/ b <= c
  BY <1>1, Later
<1>5. a <= v.idx /\ a <= b
  <2> HIDE DEF f, v, b
  <2> QED
    BY <1>2, <1>3
<1>6. BookText(a, b) \in Seq(Sign)
  BY <1>2, <1>5, BookTextIs
<1>7. ASSUME b <= c
      PROVE  BookText(a, d) = (BookText(a, b) \o Gap(c - b)) \o Line(w.text)
  <2>1. a <= c /\ c <= d
    <3> HIDE DEF a, b, c, d
    <3> QED
      BY <1>2, <1>5, <1>7
  <2>2. BookText(a, d) = BookText(a, c) \o BookText(c, d)
    <3>1. a \in Nat /\ c \in Nat /\ d \in Nat
      BY <1>2
    <3> HIDE DEF a, c, d
    <3> QED
      BY <2>1, <3>1, BookTextSplit
  <2>3. BookText(a, c) = BookText(a, b) \o BookText(b, c)
    <3>1. a \in Nat /\ b \in Nat /\ c \in Nat /\ a <= b /\ b <= c
      BY <1>2, <1>5, <1>7
    <3> HIDE DEF a, b, c
    <3> QED
      BY <3>1, BookTextSplit
  <2>4. BookText(b, c) = Gap(c - b)
    BY <1>7, BookGap
  <2>5. BookText(c, d) = Line(w.text)
    BY BookWord
  <2> QED
    BY <2>2, <2>3, <2>4, <2>5
<1> QED
  BY <1>2, <1>4, <1>5, <1>6, <1>7

\* What is written up to word i of a part of the sentence.
Reads(from, i, out) ==
    LET text == BookText(layout[from].idx, End(layout[i])) IN
    /\ layout[from].idx # 0 \/ i = from => Chars(out) = text
    /\ layout[from].idx = 0 /\ i # from /\ layout[from + 1].idx # 0 =>
          Letters(Chars(out)) = Letters(text)

LEMMA WriteFirst ==
    ASSUME Laid, NEW from \in 1 .. Len(sentence), NEW s, s = NothingWritten,
           NEW r, r = WriteToken(layout, s, from)
    PROVE  /\ r.last = layout[from].idx /\ r.len = Len(layout[from].text)
           /\ r.out = Colored(layout, from) /\ r.out \in Seq(Cell)
           /\ Reads(from, from, r.out)
<1> DEFINE w == layout[from]  c == Colored(layout, from)
<1>1. from \in 1 .. Len(layout)
  BY LaidOut
<1>2. c \in Seq(Cell) /\ Chars(c) = Line(w.text)
  BY <1>1, ColoredIs
<1>3. s.last = 0 /\ s.out = <<>>
  BY DEF NothingWritten
<1>4. r.last = w.idx /\ r.len = Len(w.text) /\ r.out = <<>> \o c
  BY <1>3 DEF WriteToken
<1>5. r.out = c
  BY <1>2, <1>4, ConcatEmptySeq
<1>6. Chars(c) = BookText(w.idx, End(w))
  BY <1>2, BookWord
<1>7. Reads(from, from, r.out)
  BY <1>5, <1>6 DEF Reads
<1> QED
  BY <1>2, <1>4, <1>5, <1>7

\* WriteToken writes the word, with the blanks before it, or nothing.
LEMMA WriteIs ==
    ASSUME Laid, NEW i \in 1 .. Len(layout), NEW s,
           s.last \in Nat, s.len \in Nat,
           NEW r, r = WriteToken(layout, s, i)
    PROVE  LET diff == layout[i].idx - s.last  c == Colored(layout, i) IN
           /\ r.last = layout[i].idx /\ r.len = Len(layout[i].text)
           /\ s.last = 0 => r.out = s.out \o c
           /\ s.last # 0 /\ diff > 0 => r.out = (s.out \o Blanks(diff - s.len)) \o c
           /\ s.last # 0 /\ ~(diff > 0) => r.out = s.out
<1> DEFINE diff == layout[i].idx - s.last  c == Colored(layout, i)
<1>1. r.last = layout[i].idx /\ r.len = Len(layout[i].text)
  BY DEF WriteToken
<1>2. r.out = CASE s.last = 0 -> s.out \o c
                [] s.last # 0 /\ diff > 0 -> (s.out \o Blanks(diff - s.len)) \o c
                [] OTHER -> s.out
  BY DEF WriteToken
<1> HIDE DEF diff, c
<1> QED
  BY <1>1, <1>2 DEF diff, c

\* Word i comes after what is written.
Grown(out, new, i) ==
    \/ new = out \o Colored(layout, i)
    \/ \E g \in Nat : new = (out \o Blanks(g)) \o Colored(layout, i)

LEMMA WriteNext ==
    ASSUME Laid, NEW from \in 1 .. Len(sentence), NEW p \in 1 .. Len(sentence), from <= p,
           p + 1 \in 1 .. Len(sentence),
           NEW s, s.last = layout[p].idx, s.len = Len(layout[p].text), s.out \in Seq(Cell),
           Reads(from, p, s.out),
           NEW r, r = WriteToken(layout, s, p + 1)
    PROVE  /\ r.last = layout[p + 1].idx /\ r.len = Len(layout[p + 1].text)
           /\ r.out \in Seq(Cell) /\ Reads(from, p + 1, r.out)
           /\ \/ layout[p + 1] = layout[p] /\ r.out = s.out
              \/ Grown(s.out, r.out, p + 1)
<1> DEFINE v == layout[p]  w == layout[p + 1]  out == s.out
           a == layout[from].idx  b == End(v)  d == End(w)  first == layout[from + 1].idx
           x == BookText(a, b)  y == Line(w.text)  g == w.idx - b  col == Colored(layout, p + 1)
<1>1. /\ a \in Nat /\ b \in Nat /\ w.idx \in Nat /\ d \in Nat /\ a <= v.idx /\ a <= b
      /\ v.idx \in Nat /\ v.idx < b /\ w.idx < d
      /\ b = v.idx + Len(v.text) /\ Len(v.text) \in Nat
      /\ w = v \/ b <= w.idx
      /\ x \in Seq(Sign)
      /\ b <= w.idx => BookText(a, d) = (x \o Gap(g)) \o y
  BY BookGrows
<1>2. /\ p + 1 \in 1 .. Len(layout) /\ p \in 1 .. Len(layout) /\ from + 1 \in 1 .. Len(layout)
      /\ from + 1 <= p + 1 /\ (p # from => from + 1 <= p) /\ p + 1 # from
  BY LaidOut
<1>3. /\ r.last = w.idx /\ r.len = Len(w.text)
      /\ s.last = 0 => r.out = out \o col
      /\ s.last # 0 /\ w.idx - s.last > 0 => r.out = (out \o Blanks((w.idx - s.last) - s.len)) \o col
      /\ s.last # 0 /\ ~(w.idx - s.last > 0) => r.out = out
  <2>1. s.last \in Nat /\ s.len \in Nat
    BY <1>2, WordIs
  <2> QED
    BY <1>2, <2>1, WriteIs, ZenonT(30)
<1>4. first \in Nat /\ (p # from => first <= v.idx)
  <2>1. first \in Nat /\ End(layout[from + 1]) \in Nat /\ first < End(layout[from + 1])
    BY <1>2, WordIs
  <2>2. p # from => layout[from + 1] = v \/ End(layout[from + 1]) <= v.idx
    BY <1>2, Later
  <2> QED
    BY <1>1, <2>1, <2>2
<1>5. col \in Seq(Cell) /\ Chars(col) = y /\ y \in Seq(Sign)
  BY <1>2, ColoredIs, WordIs, LineConcat
<1>6. out \in Seq(Cell) /\ Chars(out) \in Seq(Sign) /\ out \o col \in Seq(Cell)
      /\ Chars(out \o col) = Chars(out) \o y
  BY <1>5, CharsConcat, ConcatProperties
<1>7. /\ a # 0 \/ p = from => Chars(out) = x
      /\ a = 0 /\ p # from /\ first # 0 => Letters(Chars(out)) = Letters(x)
  BY DEF Reads
<1>8. Reads(from, p + 1, r.out) <=>
        /\ a # 0 => Chars(r.out) = BookText(a, d)
        /\ a = 0 /\ first # 0 => Letters(Chars(r.out)) = Letters(BookText(a, d))
  BY <1>2 DEF Reads
<1>9. p = from => v.idx = a /\ w.idx = first
  OBVIOUS
<1>10. g \in Int /\ (b <= w.idx => g \in Nat /\ (w.idx - v.idx) - Len(v.text) = g /\ w.idx - v.idx > 0)
  <2> DEFINE m == w.idx  n == v.idx  l == Len(v.text)
  <2>1. m \in Nat /\ n \in Nat /\ l \in Nat /\ b \in Nat /\ b = n + l /\ n < b
    BY <1>1
  <2> HIDE DEF v, w, b, m, n, l
  <2>2. m - b \in Int /\ (b <= m => m - b \in Nat /\ (m - n) - l = m - b /\ m - n > 0)
    BY <2>1
  <2> QED
    BY <2>2 DEF m, n, l
<1>11. ASSUME b <= w.idx
       PROVE  Letters(BookText(a, d)) = Letters(x) \o Letters(y)
  <2>1. Gap(g) \in Seq(Sign) /\ Letters(Gap(g)) = <<>>
    BY <1>10, <1>11, BlanksAre
  <2>2. x \o Gap(g) \in Seq(Sign)
    BY <1>1, <2>1, ConcatProperties
  <2>3. Letters((x \o Gap(g)) \o y) = Letters(x \o Gap(g)) \o Letters(y)
    BY <1>5, <2>2, LettersConcat
  <2>4. Letters(x \o Gap(g)) = Letters(x) \o <<>> /\ Letters(x) \in Seq(Sign)
    BY <1>1, <2>1, LettersConcat
  <2>5. Letters(x) \o <<>> = Letters(x)
    BY <2>4, ConcatEmptySeq
  <2> QED
    BY <1>1, <1>11, <2>3, <2>4, <2>5
<1> HIDE DEF v, w, out, a, b, d, first, x, y, g, col
<1>12. s.last = v.idx /\ s.len = Len(v.text) /\ s.out = out
  BY DEF v, out
<1>13. CASE v.idx = 0
  <2>1. a = 0 /\ r.out = out \o col
    BY <1>1, <1>3, <1>12, <1>13
  <2>2. ASSUME first # 0
        PROVE  Letters(Chars(r.out)) = Letters(BookText(a, d))
    <3>1. p = from
      BY <1>4, <1>13, <2>2
    <3>2. w.idx # v.idx
      BY <1>9, <1>13, <2>2, <3>1
    <3>3. b <= w.idx /\ Chars(out) = x
      BY <1>1, <1>7, <3>1, <3>2
    <3>4. Letters(Chars(r.out)) = Letters(x) \o Letters(y)
      <4>1. Letters(x \o y) = Letters(x) \o Letters(y)
        BY <1>1, <1>5, LettersConcat
      <4>2. Chars(r.out) = x \o y
        BY <1>6, <2>1, <3>3
      <4> QED
        BY <4>1, <4>2
    <3> QED
      BY <1>11, <3>3, <3>4
  <2>3. Reads(from, p + 1, r.out) /\ r.out \in Seq(Cell)
    BY <1>6, <1>8, <2>1, <2>2
  <2>4. Grown(out, r.out, p + 1)
    BY <2>1 DEF Grown, col
  <2> QED
    BY <1>3, <2>3, <2>4 DEF w, out
<1>14. CASE v.idx # 0 /\ w = v
  <2>1. r.out = out
    <3>1. ~(w.idx - v.idx > 0)
      BY <1>1, <1>14
    <3> QED
      BY <1>3, <1>12, <1>14, <3>1
  <2>2. d = b
    BY <1>14 DEF d, b
  <2>3. a # 0 => Chars(out) = BookText(a, d)
    BY <1>7, <2>2 DEF x
  <2>4. a = 0 /\ first # 0 => Letters(Chars(out)) = Letters(BookText(a, d))
    <3>1. a = 0 => p # from
      BY <1>9, <1>14
    <3> QED
      BY <1>7, <2>2, <3>1 DEF x
  <2>5. Reads(from, p + 1, r.out)
    BY <1>8, <2>1, <2>3, <2>4
  <2> QED
    BY <1>3, <1>6, <1>14, <2>1, <2>5 DEF w, v, out
<1>15. CASE v.idx # 0 /\ b <= w.idx
  <2>1. r.out = (out \o Blanks(g)) \o col
    BY <1>3, <1>10, <1>12, <1>15
  <2>2. /\ Blanks(g) \in Seq(Cell) /\ Chars(Blanks(g)) = Gap(g) /\ Gap(g) \in Seq(Sign)
        /\ Letters(Gap(g)) = <<>>
    BY <1>10, <1>15, BlanksAre
  <2>3. out \o Blanks(g) \in Seq(Cell) /\ Chars(out \o Blanks(g)) = Chars(out) \o Gap(g)
    BY <1>6, <2>2, CharsConcat, ConcatProperties
  <2>4. r.out \in Seq(Cell) /\ Chars(r.out) = (Chars(out) \o Gap(g)) \o y
    <3> DEFINE o == out \o Blanks(g)
    <3>1. o \in Seq(Cell) /\ r.out = o \o col
      BY <2>1, <2>3
    <3> HIDE DEF o
    <3>2. o \o col \in Seq(Cell) /\ Chars(o \o col) = Chars(o) \o Chars(col)
      BY <1>5, <3>1, CharsConcat, ConcatProperties
    <3> QED
      BY <1>5, <2>3, <3>1, <3>2 DEF o
  <2>5. a # 0 => Chars(r.out) = BookText(a, d)
    BY <1>1, <1>7, <1>15, <2>4
  <2>6. ASSUME a = 0, first # 0
        PROVE  Letters(Chars(r.out)) = Letters(BookText(a, d))
    <3>1. p # from
      BY <1>9, <1>15, <2>6
    <3>2. Letters(Chars(out)) = Letters(x)
      BY <1>7, <2>6, <3>1
    <3>3. Letters(Chars(out) \o Gap(g)) = Letters(Chars(out))
      <4>1. Letters(Chars(out)) \in Seq(Sign)
            /\ Letters(Chars(out) \o Gap(g)) = Letters(Chars(out)) \o Letters(Gap(g))
        BY <1>6, <2>2, LettersConcat
      <4> QED
        BY <2>2, <4>1, ConcatEmptySeq
    <3>4. Chars(out) \o Gap(g) \in Seq(Sign)
      BY <1>6, <2>2, ConcatProperties
    <3>5. Letters((Chars(out) \o Gap(g)) \o y) = Letters(Chars(out) \o Gap(g)) \o Letters(y)
      BY <1>5, <3>4, LettersConcat
    <3> QED
      BY <1>11, <1>15, <2>4, <3>2, <3>3, <3>5
  <2>7. Reads(from, p + 1, r.out)
    BY <1>8, <2>5, <2>6
  <2>8. Grown(out, r.out, p + 1)
    BY <1>10, <1>15, <2>1 DEF Grown, col
  <2> QED
    BY <1>3, <2>4, <2>7, <2>8 DEF w, out
<1> QED
  BY <1>1, <1>13, <1>14, <1>15

\* The bright letters of word i.
Shown(i) == IF i \in AllTokens THEN Line(layout[i].text) ELSE <<>>

LEMMA ShownIs ==
    ASSUME Laid, NEW i \in 1 .. Len(layout)
    PROVE  Shown(i) \in Seq(Sign) /\ Shine(Colored(layout, i)) = Shown(i)
<1>1. Line(layout[i].text) \in Seq(Sign)
  BY WordIs, LineConcat
<1> QED
  BY <1>1, ColoredIs, EmptySeq DEF Shown

LEMMA Shines ==
    ASSUME Laid, NEW i \in 1 .. Len(layout), NEW out \in Seq(Cell), NEW new,
           \/ new = out /\ i \notin AllTokens
           \/ Grown(out, new, i)
    PROVE  new \in Seq(Cell) /\ Shine(new) = Shine(out) \o Shown(i)
<1> DEFINE col == Colored(layout, i)
<1>1. col \in Seq(Cell) /\ Shine(col) = Shown(i) /\ Shine(out) \in Seq(Sign)
  BY ColoredIs, ShownIs, ShineConcat
<1> HIDE DEF col
<1>2. CASE new = out /\ i \notin AllTokens
  <2>1. Shown(i) = <<>>
    BY <1>2 DEF Shown
  <2>2. Shine(out) \o <<>> = Shine(out)
    BY <1>1, ConcatEmptySeq
  <2> QED
    BY <1>2, <2>1, <2>2
<1>3. CASE new = out \o col
  <2>1. out \o col \in Seq(Cell) /\ Shine(out \o col) = Shine(out) \o Shine(col)
    BY <1>1, ShineConcat, ConcatProperties
  <2> QED
    BY <1>1, <1>3, <2>1
<1>4. ASSUME NEW g \in Nat, new = (out \o Blanks(g)) \o col
      PROVE  new \in Seq(Cell) /\ Shine(new) = Shine(out) \o Shown(i)
  <2> DEFINE o == out \o Blanks(g)
  <2>1. Blanks(g) \in Seq(Cell) /\ Shine(Blanks(g)) = <<>>
    BY BlanksAre
  <2>2. o \in Seq(Cell) /\ Shine(o) = Shine(out) \o <<>>
    BY <2>1, ShineConcat, ConcatProperties
  <2>3. Shine(out) \o <<>> = Shine(out)
    BY <1>1, ConcatEmptySeq
  <2> HIDE DEF o
  <2>4. o \o col \in Seq(Cell) /\ Shine(o \o col) = Shine(o) \o Shine(col)
    BY <1>1, <2>2, ShineConcat, ConcatProperties
  <2>5. new = o \o col
    BY <1>4 DEF o
  <2> QED
    BY <1>1, <2>2, <2>3, <2>4, <2>5
<1> QED
  BY <1>2, <1>3, <1>4 DEF Grown, col

-----------------------------------------------------------------------------
(* The words of a part of the sentence, one after the other                *)

\* f has what is written up to each word: the function of SentenceText.
Writes(words, from, to, f) ==
    f = [i \in from - 1 .. to |->
            IF i = from - 1 THEN NothingWritten ELSE WriteToken(words, f[i - 1], i)]

LEMMA WritesMore ==
    ASSUME NEW words, NEW from \in Nat, NEW k \in Int, from - 1 <= k,
           NEW f, Writes(words, from, k, f)
    PROVE  \E g : Writes(words, from, k + 1, g)
<1> DEFINE g == [i \in from - 1 .. k + 1 |-> IF i # k + 1 THEN f[i]
                                             ELSE WriteToken(words, f[k], i)]
<1>1. ASSUME NEW i \in from - 1 .. k + 1
      PROVE  g[i] = IF i = from - 1 THEN NothingWritten ELSE WriteToken(words, g[i - 1], i)
  <2>1. CASE i = k + 1
    <3>1. i # from - 1 /\ i - 1 = k /\ k \in from - 1 .. k + 1 /\ k # k + 1
      BY <2>1
    <3>2. g[k] = f[k]
      BY <3>1
    <3>3. g[i] = WriteToken(words, f[k], i)
      BY <2>1
    <3> HIDE DEF g
    <3> QED
      BY <3>1, <3>2, <3>3
  <2>2. CASE i # k + 1
    <3>1. i \in from - 1 .. k /\ g[i] = f[i]
      BY <2>2
    <3>2. i # from - 1 => i - 1 \in from - 1 .. k + 1 /\ i - 1 # k + 1
      BY <3>1
    <3>3. i # from - 1 => g[i - 1] = f[i - 1]
      BY <3>2
    <3> HIDE DEF g
    <3> QED
      BY <3>1, <3>3 DEF Writes
  <2> QED
    BY <2>1, <2>2
<1>2. g = [i \in from - 1 .. k + 1 |-> g[i]]
  OBVIOUS
<1> HIDE DEF g
<1>3. Writes(words, from, k + 1, g)
  BY <1>1, <1>2 DEF Writes
<1> QED
  BY <1>3

LEMMA WritesAll ==
    ASSUME NEW words, NEW from \in Nat, NEW to \in Int, from - 1 <= to
    PROVE  \E f : Writes(words, from, to, f)
<1> DEFINE n == to - (from - 1)
           S == {k \in 0 .. n : \E f : Writes(words, from, (from - 1) + k, f)}
<1>0. n \in Nat /\ (from - 1) + n = to /\ from - 1 \in Int /\ (from - 1) + 0 = from - 1
  OBVIOUS
<1>1. 0 \in S
  <2>1. Writes(words, from, from - 1, [i \in from - 1 .. from - 1 |-> NothingWritten])
    BY DEF Writes
  <2> QED
    BY <1>0, <2>1
<1>2. ASSUME NEW i \in 0 .. n, i # n, i \in S
      PROVE  i + 1 \in S
  <2> DEFINE k == (from - 1) + i
  <2>1. k \in Int /\ from - 1 <= k /\ k + 1 = (from - 1) + (i + 1) /\ i + 1 \in 0 .. n
    BY <1>0, <1>2
  <2>2. PICK f : Writes(words, from, k, f)
    BY <1>2
  <2> HIDE DEF k
  <2>3. \E g : Writes(words, from, k + 1, g)
    BY <2>1, <2>2, WritesMore
  <2> QED
    BY <2>1, <2>3
<1> HIDE DEF n, S
<1>3. 0 .. n \subseteq S
  BY <1>0, <1>1, <1>2, UpTo
<1>4. n \in S
  BY <1>0, <1>3
<1> QED
  BY <1>0, <1>4 DEF S

LEMMA SentenceTextIs ==
    ASSUME NEW words, NEW from \in Nat, NEW to \in Int, from - 1 <= to
    PROVE  \E f : Writes(words, from, to, f) /\ SentenceText(words, from, to) = f[to].out
<1> DEFINE f == CHOOSE g : Writes(words, from, to, g)
<1>1. Writes(words, from, to, f)
  BY WritesAll
<1>2. SentenceText(words, from, to) = f[to].out
  BY DEF SentenceText, Writes
<1> HIDE DEF f
<1> QED
  BY <1>1, <1>2

\* What is written up to word i of the part that begins with word from.
Well(from, i, s) ==
    /\ s.last = layout[i].idx /\ s.len = Len(layout[i].text)
    /\ s.out \in Seq(Cell) /\ Reads(from, i, s.out)

AllFirst == \A i \in AllTokens : IsFirst(i)

LEMMA WellFirst ==
    ASSUME Laid, NEW from \in 1 .. Len(sentence), NEW r, r = WriteToken(layout, NothingWritten, from)
    PROVE  Well(from, from, r) /\ Shine(r.out) = Shown(from)
<1>1. from \in 1 .. Len(layout)
  BY LaidOut
<1>2. /\ r.last = layout[from].idx /\ r.len = Len(layout[from].text)
      /\ r.out = Colored(layout, from) /\ r.out \in Seq(Cell)
      /\ Reads(from, from, r.out)
  BY WriteFirst
<1>3. Shine(Colored(layout, from)) = Shown(from)
  BY <1>1, ShownIs
<1> QED
  BY <1>2, <1>3 DEF Well

LEMMA WellNext ==
    ASSUME Laid, NEW from \in 1 .. Len(sentence), NEW p \in 1 .. Len(sentence), from <= p,
           p + 1 \in 1 .. Len(sentence),
           NEW s, Well(from, p, s), NEW r, r = WriteToken(layout, s, p + 1)
    PROVE  Well(from, p + 1, r) /\ (AllFirst => Shine(r.out) = Shine(s.out) \o Shown(p + 1))
<1>1. /\ s.last = layout[p].idx /\ s.len = Len(layout[p].text)
      /\ s.out \in Seq(Cell) /\ Reads(from, p, s.out)
  BY DEF Well
<1>2. /\ r.last = layout[p + 1].idx /\ r.len = Len(layout[p + 1].text)
      /\ r.out \in Seq(Cell) /\ Reads(from, p + 1, r.out)
      /\ (layout[p + 1] = layout[p] /\ r.out = s.out) \/ Grown(s.out, r.out, p + 1)
  BY <1>1, WriteNext
<1>3. p + 1 \in 1 .. Len(layout) /\ p + 1 # 1 /\ (p + 1) - 1 = p
  BY LaidOut
<1>4. ASSUME AllFirst
      PROVE  Shine(r.out) = Shine(s.out) \o Shown(p + 1)
  <2>1. layout[p + 1] = layout[p] => p + 1 \notin AllTokens
    BY <1>3, <1>4 DEF AllFirst, IsFirst
  <2>2. (r.out = s.out /\ p + 1 \notin AllTokens) \/ Grown(s.out, r.out, p + 1)
    BY <1>2, <2>1
  <2> QED
    BY <1>1, <1>3, <2>2, Shines
<1>5. Well(from, p + 1, r)
  BY <1>2 DEF Well
<1> QED
  BY <1>4, <1>5

\* The words of the matches, one by one.
Pieces == [i \in DOMAIN sentence |->
              IF i \in AllTokens /\ IsFirst(i) THEN layout[i].text ELSE <<>>]

LEMMA PiecesGrow ==
    ASSUME Laid, AllFirst
    PROVE  \E g : /\ g \in [0 .. Len(sentence) -> Seq(Sign)] /\ g[0] = <<>>
                  /\ MatchedWords = g[Len(sentence)]
                  /\ \A i \in 0 .. Len(sentence) : i # Len(sentence) =>
                        /\ i + 1 \notin AllTokens => g[i + 1] = g[i]
                        /\ Line(g[i + 1]) = Line(g[i]) \o Shown(i + 1)
<1> DEFINE n == Len(sentence)  p == Pieces
<1>1. n \in Nat /\ DOMAIN sentence = 1 .. n /\ \A i \in 1 .. n : i \in 1 .. Len(layout)
  BY LaidOut
<1>2. \A i \in 1 .. n : layout[i].text \in Seq(Sign) /\ <<>> \in Seq(Sign)
  BY <1>1, WordIs, EmptySeq
<1>3. /\ p = [i \in 1 .. n |-> p[i]]
      /\ \A i \in 1 .. n : p[i] = IF i \in AllTokens THEN layout[i].text ELSE <<>>
  BY <1>1 DEF Pieces, AllFirst
<1> HIDE DEF p
<1>4. \A i \in 1 .. n : p[i] \in Seq(Sign)
  BY <1>2, <1>3
<1>5. p \in [1 .. n -> Seq(Sign)]
  BY <1>3, <1>4
<1>6. p \in Seq(Seq(Sign)) /\ Len(p) = n
  BY <1>1, <1>5, FunctionIsSeq
<1>7. PICK g : IsFlattened(Sign, p, g)
  BY <1>6, FlattenIs
<1>8. /\ g \in [0 .. n -> Seq(Sign)] /\ g[0] = <<>> /\ FlattenSeq(p) = g[n]
      /\ \A i \in 0 .. n : i # n => g[i + 1] = g[i] \o p[i + 1]
  BY <1>6, <1>7 DEF IsFlattened
<1>9. MatchedWords = g[n]
  BY <1>8 DEF MatchedWords, p, Pieces
<1>10. ASSUME NEW i \in 0 .. n, i # n
       PROVE  /\ i + 1 \notin AllTokens => g[i + 1] = g[i]
              /\ Line(g[i + 1]) = Line(g[i]) \o Shown(i + 1)
  <2>1. i + 1 \in 1 .. n
    <3> HIDE DEF n
    <3> QED
      BY <1>1, <1>10
  <2>2. g[i + 1] = g[i] \o p[i + 1]
    BY <1>8, <1>10
  <2>3. g[i] \in Seq(Sign) /\ p[i + 1] \in Seq(Sign)
    BY <1>4, <1>8, <2>1
  <2>4. Line(g[i] \o p[i + 1]) = Line(g[i]) \o Line(p[i + 1])
    BY <2>3, LineConcat
  <2>5. g[i] \o <<>> = g[i]
    BY <2>3, ConcatEmptySeq
  <2>6. p[i + 1] = IF i + 1 \in AllTokens THEN layout[i + 1].text ELSE <<>>
    BY <1>3, <2>1
  <2>7. Line(<<>>) = <<>>
    BY DEF Line
  <2>8. Line(p[i + 1]) = Shown(i + 1)
    BY <2>6, <2>7 DEF Shown
  <2> QED
    BY <2>2, <2>4, <2>5, <2>6, <2>8
<1> QED
  BY <1>8, <1>9, <1>10

\* The text of a part of the sentence, and its bright letters.
LEMMA PartIsWell ==
    ASSUME Laid, NEW from \in 1 .. Len(sentence), NEW to \in 1 .. Len(sentence), from <= to
    PROVE  LET out == SentenceText(layout, from, to) IN
           /\ out \in Seq(Cell) /\ Reads(from, to, out)
           /\ AllFirst /\ AllTokens \subseteq from .. to => Shine(out) = Line(MatchedWords)
<1> DEFINE N == Len(sentence)
<1>1. PICK f : Writes(layout, from, to, f) /\ SentenceText(layout, from, to) = f[to].out
  BY SentenceTextIs
<1>2. N \in Nat /\ DOMAIN sentence = 1 .. N /\ from \in Nat /\ to \in Nat /\ to - from \in Nat
  BY LaidOut
<1>3. f[from] = WriteToken(layout, NothingWritten, from)
  <2>1. from \in from - 1 .. to /\ from - 1 \in from - 1 .. to /\ from # from - 1
    BY <1>2
  <2>2. f[from] = WriteToken(layout, f[from - 1], from) /\ f[from - 1] = NothingWritten
    BY <1>1, <2>1 DEF Writes
  <2> QED
    BY <2>2
<1>4. ASSUME NEW p \in from .. to, p # to
      PROVE  f[p + 1] = WriteToken(layout, f[p], p + 1)
  <2>1. p + 1 \in from - 1 .. to /\ p + 1 # from - 1 /\ (p + 1) - 1 = p
    BY <1>2, <1>4
  <2> QED
    BY <1>1, <2>1 DEF Writes
<1> DEFINE T == {d \in 0 .. to - from : Well(from, from + d, f[from + d])}
<1>5. 0 \in T
  <2>1. from + 0 = from
    BY <1>2
  <2> QED
    BY <1>2, <1>3, <2>1, WellFirst
<1>6. ASSUME NEW d \in 0 .. to - from, d # to - from, d \in T
      PROVE  d + 1 \in T
  <2> DEFINE p == from + d
  <2>1. /\ p \in from .. to /\ p # to /\ p \in 1 .. N /\ from <= p /\ p + 1 \in 1 .. N
        /\ p + 1 = from + (d + 1) /\ d + 1 \in 0 .. to - from
    BY <1>2, <1>6
  <2>2. Well(from, p, f[p])
    BY <1>6
  <2> HIDE DEF p
  <2>3. Well(from, p + 1, f[p + 1])
    BY <1>4, <2>1, <2>2, WellNext
  <2> QED
    BY <2>1, <2>3
<1> HIDE DEF T
<1>7. 0 .. to - from \subseteq T
  BY <1>2, <1>5, <1>6, UpTo
<1>8. ASSUME NEW p \in from .. to
      PROVE  Well(from, p, f[p])
  <2>1. p - from \in 0 .. to - from /\ from + (p - from) = p
    BY <1>2
  <2>2. p - from \in T
    BY <1>7, <2>1
  <2> QED
    BY <2>1, <2>2 DEF T
<1>9. f[to].out \in Seq(Cell) /\ Reads(from, to, f[to].out)
  BY <1>2, <1>8 DEF Well
<1>10. ASSUME AllFirst, AllTokens \subseteq from .. to
       PROVE  Shine(f[to].out) = Line(MatchedWords)
  <2>1. PICK g : /\ g \in [0 .. N -> Seq(Sign)] /\ g[0] = <<>> /\ MatchedWords = g[N]
                 /\ \A i \in 0 .. N : i # N =>
                       /\ i + 1 \notin AllTokens => g[i + 1] = g[i]
                       /\ Line(g[i + 1]) = Line(g[i]) \o Shown(i + 1)
    BY <1>10, PiecesGrow
  <2> DEFINE A == {i \in 0 .. from - 1 : g[i] = <<>>}
  <2>2. from - 1 \in A
    <3>0. from - 1 \in Nat /\ 0 \in 0 .. from - 1
      BY <1>2
    <3>1. 0 \in A
      BY <2>1, <3>0
    <3>2. ASSUME NEW i \in 0 .. from - 1, i # from - 1, i \in A
          PROVE  i + 1 \in A
      <4>1. i \in 0 .. N /\ i # N /\ i + 1 \in 0 .. from - 1 /\ i + 1 \notin from .. to
        <5> HIDE DEF A, N
        <5> QED
          BY <1>2, <3>2
      <4>2. i + 1 \notin AllTokens
        BY <1>10, <4>1
      <4> QED
        BY <2>1, <3>2, <4>1, <4>2
    <3> HIDE DEF A
    <3>3. 0 .. from - 1 \subseteq A
      BY <3>0, <3>1, <3>2, UpTo
    <3> QED
      BY <3>0, <3>3
  <2> DEFINE B == {d \in 0 .. to - from : Shine(f[from + d].out) = Line(g[from + d])}
  <2>3. 0 \in B
    <3>1. from + 0 = from /\ from - 1 \in 0 .. N /\ from - 1 # N /\ (from - 1) + 1 = from
          /\ from \in 1 .. Len(layout)
      BY <1>2, LaidOut
    <3>2. Line(g[from]) = Line(g[from - 1]) \o Shown(from)
      BY <2>1, <3>1
    <3>3. Line(g[from - 1]) = <<>>
      BY <2>2 DEF Line
    <3>4. <<>> \o Shown(from) = Shown(from)
      BY <3>1, ShownIs, ConcatEmptySeq
    <3>5. Shine(f[from].out) = Shown(from)
      BY <1>3, WellFirst
    <3> QED
      BY <1>2, <3>1, <3>2, <3>3, <3>4, <3>5
  <2>4. ASSUME NEW d \in 0 .. to - from, d # to - from, d \in B
        PROVE  d + 1 \in B
    <3> DEFINE p == from + d
    <3>1. /\ p \in from .. to /\ p # to /\ p \in 1 .. N /\ from <= p /\ p + 1 \in 1 .. N
          /\ p + 1 = from + (d + 1) /\ d + 1 \in 0 .. to - from /\ p \in 0 .. N /\ p # N
      <4> HIDE DEF B, N
      <4> QED
        BY <1>2, <2>4
    <3>2. Shine(f[p].out) = Line(g[p])
      BY <2>4
    <3> HIDE DEF p
    <3>3. Shine(f[p + 1].out) = Shine(f[p].out) \o Shown(p + 1)
      BY <1>4, <1>8, <1>10, <3>1, WellNext
    <3>4. Line(g[p + 1]) = Line(g[p]) \o Shown(p + 1)
      BY <2>1, <3>1
    <3> QED
      BY <3>1, <3>2, <3>3, <3>4
  <2> HIDE DEF B
  <2>5. 0 .. to - from \subseteq B
    BY <1>2, <2>3, <2>4, UpTo
  <2>6. Shine(f[to].out) = Line(g[to])
    <3>1. to - from \in B /\ from + (to - from) = to
      BY <1>2, <2>5
    <3> QED
      BY <3>1 DEF B
  <2> DEFINE C == {d \in 0 .. N - to : g[to + d] = g[to]}
  <2>7. N - to \in C
    <3>1. 0 \in C /\ N - to \in Nat /\ to + 0 = to
      BY <1>2
    <3>2. ASSUME NEW d \in 0 .. N - to, d # N - to, d \in C
          PROVE  d + 1 \in C
      <4> DEFINE q == to + d
      <4>1. /\ q \in 0 .. N /\ q # N /\ q + 1 = to + (d + 1) /\ d + 1 \in 0 .. N - to
            /\ q + 1 \notin from .. to
        <5> HIDE DEF C, N
        <5> QED
          BY <1>2, <3>2
      <4>2. g[q] = g[to] /\ q + 1 \notin AllTokens
        BY <1>10, <3>2, <4>1
      <4> HIDE DEF q
      <4>3. g[q + 1] = g[to]
        BY <2>1, <4>1, <4>2
      <4> QED
        BY <4>1, <4>3
    <3> HIDE DEF C
    <3>3. 0 .. N - to \subseteq C
      BY <3>1, <3>2, UpTo
    <3> QED
      BY <3>1, <3>3
  <2>8. g[N] = g[to]
    <3>1. to + (N - to) = N
      BY <1>2
    <3> QED
      BY <2>7, <3>1
  <2> QED
    BY <2>1, <2>6, <2>8
<1> QED
  BY <1>1, <1>9, <1>10

-----------------------------------------------------------------------------
(* The invariant                                                           *)

RenderInv ==
    /\ MatcherInv
    /\ pc \in {"match", "matched"} => expr # <<>> /\ sentence \in Sentences
    /\ format # "" =>
          /\ Matched /\ layout \in Layouts /\ format \in {"all", "part"}
          /\ printed = Rendered(layout, format = "all")

LEMMA RenderInitInv == RenderInit => RenderInv
BY MatcherInitInv DEF RenderInit, RenderInv, MatcherInit

LEMMA RenderedStays ==
    ASSUME Render
    PROVE  (printed = Rendered(layout, format = "all"))'
<1>1. chains' = chains /\ sentence' = sentence
  BY DEF Render, matcherVars
<1>2. AllTokens' = AllTokens
  BY <1>1 DEF AllTokens
<1>3. Window' = Window
  BY <1>1, <1>2 DEF Window
<1>4. printed' = Rendered(layout', format' = "all")
  BY DEF Render
<1>5. Rendered(layout, format = "all")' = Rendered(layout', format' = "all")
  BY <1>1, <1>2, <1>3 DEF Rendered, SentenceText, WriteToken, Colored
<1> QED
  BY <1>4, <1>5

LEMMA RenderInductive == RenderInv /\ [RenderNext]_renderVars => RenderInv'
<1> SUFFICES ASSUME RenderInv, [RenderNext]_renderVars PROVE RenderInv'
  OBVIOUS
<1>1. [MatcherNext]_matcherVars
  BY DEF RenderNext, renderVars, Render
<1>2. MatcherInv'
  BY <1>1, MatcherInductive DEF RenderInv
<1>3. (pc \in {"match", "matched"} => expr # <<>> /\ sentence \in Sentences)'
  <2>1. CASE MatcherNext
    BY <2>1 DEF RenderInv, MatcherNext, ParseArgument, MatchSentence, LookAtToken, NextChain,
       Panic, NextItem, Extending
  <2>2. CASE UNCHANGED matcherVars
    BY <2>2 DEF RenderInv, matcherVars
  <2> QED
    BY <1>1, <2>1, <2>2
<1>4. CASE Render
  <2>1. format' \in {"all", "part"} /\ layout' \in Layouts /\ Matched'
    BY <1>4 DEF Render, Matched, matcherVars
  <2>2. (printed = Rendered(layout, format = "all"))'
    BY <1>4, RenderedStays
  <2> QED
    BY <1>2, <1>3, <2>1, <2>2 DEF RenderInv
<1>5. CASE MatcherNext /\ UNCHANGED <<layout, format, printed>>
  <2>1. pc # "matched"
    BY <1>5 DEF MatcherNext, ParseArgument, MatchSentence, LookAtToken, NextChain,
       Panic, NextItem, Extending
  <2>2. format = ""
    BY <2>1 DEF RenderInv, Matched
  <2>3. format' = ""
    BY <1>5, <2>2
  <2> QED
    BY <1>2, <1>3, <2>3 DEF RenderInv
<1>6. CASE UNCHANGED renderVars
  <2>1. UNCHANGED <<pc, chains, sentence, layout, format, printed>>
    BY <1>6 DEF renderVars, matcherVars
  <2>2. AllTokens' = AllTokens
    BY <2>1 DEF AllTokens
  <2>3. Window' = Window
    BY <2>1, <2>2 DEF Window
  <2>4. Rendered(layout, format = "all")' = Rendered(layout, format = "all")
    BY <2>1, <2>2, <2>3 DEF Rendered, SentenceText, WriteToken, Colored
  <2> QED
    BY <1>2, <1>3, <2>1, <2>4 DEF RenderInv, Matched
<1> QED
  BY <1>4, <1>5, <1>6 DEF RenderNext

IsPrinted == RenderInv /\ format # ""

\* The tokens of the matches are in the sentence, and there are some.
LEMMA TokensAre ==
    ASSUME IsPrinted
    PROVE  /\ Laid /\ AllTokens \in SUBSET (1 .. Len(sentence)) /\ AllTokens # {}
<1>1. Laid /\ MatcherTypeOK /\ ChainsComplete /\ done = Len(expr) /\ chains # <<>> /\ expr # <<>>
  BY DEF IsPrinted, RenderInv, MatcherInv, Matched, Laid
<1>2. done \in Nat \ {0}
  BY <1>1, EmptySeq, LenProperties DEF MatcherTypeOK
<1>3. DOMAIN sentence = 1 .. Len(sentence)
  BY <1>1, LaidOut
<1>4. ASSUME NEW c \in Range(chains)
      PROVE  DOMAIN c = 1 .. done /\ \A i \in 1 .. done : c[i] \in 1 .. Len(sentence)
  BY <1>1, <1>3, <1>4 DEF ChainsComplete, Occurrences
<1>5. AllTokens \in SUBSET (1 .. Len(sentence))
  <2>1. ASSUME NEW c \in Range(chains)
        PROVE  Range(c) \in SUBSET (1 .. Len(sentence))
    BY <1>4, <2>1 DEF Range
  <2> QED
    BY <2>1 DEF AllTokens
<1>6. AllTokens # {}
  <2>1. 1 \in DOMAIN chains
    <3>1. chains \in Seq(Occurrences(done))
      BY <1>1 DEF ChainsComplete
    <3>2. Len(chains) \in Nat \ {0} /\ DOMAIN chains = 1 .. Len(chains)
      BY <1>1, <3>1, EmptySeq, LenProperties
    <3> QED
      BY <3>2
  <2>2. chains[1] \in Range(chains)
    BY <2>1 DEF Range
  <2>3. chains[1][1] \in Range(chains[1])
    <3>1. 1 \in 1 .. done
      BY <1>2
    <3>2. 1 \in DOMAIN chains[1]
      BY <1>4, <2>2, <3>1
    <3> QED
      BY <3>2 DEF Range
  <2> QED
    BY <2>2, <2>3 DEF AllTokens
<1> QED
  BY <1>1, <1>5, <1>6

Bounds == IF format = "all" THEN <<1, Len(sentence)>> ELSE Window

\* The part that is shown has all of them.
LEMMA WindowIs ==
    ASSUME IsPrinted, NEW w, w = Bounds
    PROVE  /\ w[1] \in 1 .. Len(sentence) /\ w[2] \in 1 .. Len(sentence) /\ w[1] <= w[2]
           /\ AllTokens \subseteq w[1] .. w[2]
           /\ format = "all" => w[1] = 1 /\ w[2] = Len(sentence)
<1> DEFINE N == Len(sentence)  low == Min(AllTokens)  high == Max(AllTokens)
<1>1. Laid /\ N \in Nat /\ AllTokens \in SUBSET (1 .. N) /\ AllTokens # {}
  BY TokensAre, LaidOut
<1>2. /\ low \in 1 .. N /\ high \in 1 .. N /\ low <= high
      /\ \A i \in AllTokens : i \in 1 .. N /\ low <= i /\ i <= high
  <2> HIDE DEF N
  <2>1. /\ low \in AllTokens /\ \A i \in AllTokens : low <= i
        /\ high \in AllTokens /\ \A i \in AllTokens : i <= high
    BY <1>1, LeastOf, LastOf
  <2> QED
    BY <1>1, <2>1
<1>3. N \in 1 .. N
  <2> HIDE DEF N, low
  <2> QED
    BY <1>1, <1>2
<1>4. CASE format = "all"
  <2>1. w[1] = 1 /\ w[2] = N
    BY <1>4 DEF Bounds
  <2> HIDE DEF N, low, high
  <2> QED
    BY <1>1, <1>2, <1>3, <1>4, <2>1 DEF N
<1>5. CASE format # "all"
  <2>1. /\ w[1] = IF low - 1 > PartialOffset THEN low - PartialOffset ELSE 1
        /\ w[2] = IF N - high > PartialOffset THEN high + PartialOffset ELSE N
    BY <1>5 DEF Window, Bounds
  <2>2. PartialOffset \in Nat
    BY RenderAssumption
  <2> HIDE DEF N, low, high
  <2> DEFINE a == w[1]  b == w[2]
  <2>3. N \in Nat /\ low \in 1 .. N /\ high \in 1 .. N
    BY <1>1, <1>2
  <2>4. a \in 1 .. N /\ a <= low
    <3>1. a = IF low - 1 > PartialOffset THEN low - PartialOffset ELSE 1
      BY <2>1
    <3> HIDE DEF a
    <3> QED
      BY <2>2, <2>3, <3>1
  <2>5. b \in 1 .. N /\ high <= b
    <3>1. b = IF N - high > PartialOffset THEN high + PartialOffset ELSE N
      BY <2>1
    <3> HIDE DEF b
    <3> QED
      BY <2>2, <2>3, <3>1
  <2>6. a <= b /\ \A i \in AllTokens : i \in a .. b
    <3> HIDE DEF a, b
    <3>1. a \in Nat /\ b \in Nat /\ low \in Nat /\ high \in Nat /\ low <= high
      BY <1>2, <2>3, <2>4, <2>5
    <3>2. \A i \in AllTokens : i \in Nat /\ low <= i /\ i <= high
      BY <1>2, <2>3
    <3> QED
      BY <2>4, <2>5, <3>1, <3>2
  <2> QED
    BY <1>5, <2>4, <2>5, <2>6 DEF N
<1> QED
  BY <1>4, <1>5

\* What is printed is the text of the window, its characters and its bright letters.
LEMMA PrintedIs ==
    ASSUME IsPrinted
    PROVE  \E from, to \in 1 .. Len(sentence) : \E out :
               /\ Laid /\ from <= to /\ (format = "all" => from = 1 /\ to = Len(sentence))
               /\ Reads(from, to, out)
               /\ [n \in DOMAIN printed |-> printed[n].char] = Chars(out)
               /\ Bright = Shine(out) /\ (AllFirst => Shine(out) = Line(MatchedWords))
<1> DEFINE w == Bounds
           out == SentenceText(layout, w[1], w[2])
<1>1. Laid
  BY TokensAre
<1>2. /\ w[1] \in 1 .. Len(sentence) /\ w[2] \in 1 .. Len(sentence) /\ w[1] <= w[2]
      /\ AllTokens \subseteq w[1] .. w[2]
      /\ format = "all" => w[1] = 1 /\ w[2] = Len(sentence)
  BY WindowIs
<1>3. printed = [i \in DOMAIN out |-> [out[i] EXCEPT !.char = OnOneLine(out[i].char)]]
  BY DEF IsPrinted, RenderInv, Rendered, Bounds
<1> HIDE DEF w
<1>4. /\ out \in Seq(Cell) /\ Reads(w[1], w[2], out)
      /\ AllFirst => Shine(out) = Line(MatchedWords)
  BY <1>1, <1>2, PartIsWell
<1> HIDE DEF out
<1>5. \A n \in DOMAIN out : out[n] \in Cell
  BY <1>4, LenProperties, ElementOfSeq
<1>6. DOMAIN printed = DOMAIN out
      /\ \A n \in DOMAIN out : /\ printed[n].char = OnOneLine(out[n].char)
                               /\ printed[n].bright = out[n].bright
  <2>1. ASSUME NEW c \in Cell, NEW o
        PROVE  [c EXCEPT !.char = o].char = o /\ [c EXCEPT !.char = o].bright = c.bright
    BY DEF Cell
  <2> QED
    BY <1>3, <1>5, <2>1
<1>7. [n \in DOMAIN printed |-> printed[n].char] = Chars(out)
  BY <1>6 DEF Chars
<1>8. Bright = Shine(out)
  <2>1. [n \in DOMAIN printed |->
            IF printed[n].bright THEN <<printed[n].char>> ELSE <<>>]
        = [n \in DOMAIN out |-> IF out[n].bright THEN <<OnOneLine(out[n].char)>> ELSE <<>>]
    BY <1>6
  <2> QED
    BY <2>1 DEF Bright, Shine
<1> QED
  BY <1>1, <1>2, <1>4, <1>7, <1>8

-----------------------------------------------------------------------------
(* Theorems about what is printed                                          *)

\* Render puts the tokens of a sentence together to the text of the book, as it was: each
\* word once and the blanks between words, whichever part around the match it shows.
THEOREM PrintsTheText == RenderSpec => []PrintedIsText
<1>1. RenderInv => PrintedIsText
  <2> SUFFICES ASSUME IsPrinted PROVE PrintedIsText
    BY DEF PrintedIsText, IsPrinted
  <2>1. PICK i \in 1 .. Len(sentence), j \in 1 .. Len(sentence) :
            /\ Laid /\ i <= j /\ (format = "all" => i = 1 /\ j = Len(sentence))
            /\ \E out : /\ Reads(i, j, out)
                       /\ [n \in DOMAIN printed |-> printed[n].char] = Chars(out)
    BY PrintedIs
  <2>2. PICK out : /\ Reads(i, j, out)
                   /\ [n \in DOMAIN printed |-> printed[n].char] = Chars(out)
    BY <2>1
  <2> DEFINE text == BookText(layout[i].idx, End(layout[j]))
             shown == [n \in DOMAIN printed |-> printed[n].char]
  <2>3. i \in DOMAIN sentence /\ j \in DOMAIN sentence
    BY <2>1, LaidOut
  <2>4. IF layout[i].idx # 0 \/ i = j THEN shown = text
        ELSE layout[i + 1].idx # 0 => Letters(shown) = Letters(text)
    <3> HIDE DEF shown
    <3>1. shown = Chars(out)
      BY <2>2 DEF shown
    <3> QED
      BY <2>2, <3>1 DEF Reads
  <2> HIDE DEF text, shown
  <2>5. format # "" =>
            \E k, l \in DOMAIN sentence :
                /\ k <= l
                /\ format = "all" => k = 1 /\ l = Len(sentence)
                /\ IF layout[k].idx # 0 \/ k = l
                   THEN shown = BookText(layout[k].idx, End(layout[l]))
                   ELSE layout[k + 1].idx # 0 =>
                            Letters(shown) = Letters(BookText(layout[k].idx, End(layout[l])))
    BY <2>1, <2>3, <2>4 DEF text
  <2> QED
    BY <2>5 DEF PrintedIsText, shown
<1> QED
  BY <1>1, RenderInitInv, RenderInductive, PTL DEF RenderSpec

\* The letters in the colour of matches are those of the matched words, each word once,
\* in all of the sentence and in the part around the match.
THEOREM MatchesShine == RenderSpec => []MatchesAreBright
<1>1. RenderInv => MatchesAreBright
  <2> SUFFICES ASSUME IsPrinted, AllFirst PROVE Bright = Line(MatchedWords)
    BY DEF MatchesAreBright, AllFirst, Line, IsPrinted
  <2> QED
    BY PrintedIs
<1> QED
  BY <1>1, RenderInitInv, RenderInductive, PTL DEF RenderSpec
=============================================================================
