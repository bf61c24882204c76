-------------------------------- MODULE Render --------------------------------
(***************************************************************************)
(* What find and the query REPL print of a match (CLIRenderer.Render,      *)
(* render/render.go): the text of the sentence, or of the part of it       *)
(* around the match, put together again from the tokens, with the matched  *)
(* words in another colour.                                                *)
(*                                                                         *)
(* A layout says where in the text of the book the words of a sentence     *)
(* are.  The parts of a word that is several tokens (envolverse) all have  *)
(* the text and the offset of the word.                                    *)
(***************************************************************************)
EXTENDS Matcher

CONSTANTS
    Layouts,       \* sequences of words, at least as long as the sentences
    PartialOffset  \* partialOffset, 6 in the code

End(word) == word.idx + Len(word.text)

ASSUME RenderAssumption ==
    /\ PartialOffset \in Nat
    /\ Layouts \subseteq Seq([text : Seq(STRING), idx : Nat])
    /\ \A l \in Layouts :
          /\ \A s \in Sentences : Len(s) <= Len(l)
          /\ \A i \in DOMAIN l : l[i].text # <<>>
          /\ \A i \in 2 .. Len(l) : l[i] = l[i - 1] \/ End(l[i - 1]) <= l[i].idx

VARIABLES
    layout,  \* Idx and Text of the tokens
    format,  \* Format
    printed  \* what has been printed: characters, bright if in the colour of matches

renderVars == <<matcherVars, layout, format, printed>>

Dark(char) == [char |-> char, bright |-> FALSE]
Blanks(n) == [i \in 1 .. n |-> Dark("blank")]

\* SentenceMatch.AllTokens
AllTokens == UNION {Range(c) : c \in Range(chains)}

\* colorToken
Colored(words, i) == [j \in DOMAIN words[i].text |->
                        [char |-> words[i].text[j], bright |-> i \in AllTokens]]

\* A wrong variant, for mutation: each part of a word is written.
WriteAnyToken(words, s, i) ==
    [last |-> words[i].idx, len |-> Len(words[i].text),
     out |-> s.out \o (IF s.last = 0 \/ words[i].idx = s.last THEN <<>>
                       ELSE Blanks(words[i].idx - s.last - s.len)) \o Colored(words, i)]

\* The body of the loop of sentence.  A word that is at the offset of the one before
\* is not written again; offset 0 is taken for the beginning of the sentence.
WriteToken(words, s, i) ==
    LET diff == words[i].idx - s.last
    IN [last |-> words[i].idx, len |-> Len(words[i].text),
        out |-> CASE s.last = 0 -> s.out \o Colored(words, i)
                  [] s.last # 0 /\ diff > 0 ->
                        s.out \o Blanks(diff - s.len) \o Colored(words, i)
                  [] OTHER -> s.out]

NothingWritten == [last |-> 0, len |-> 0, out |-> <<>>]
SentenceText(words, from, to) ==
    LET written[i \in from - 1 .. to] ==
            IF i = from - 1 THEN NothingWritten ELSE WriteToken(words, written[i - 1], i)
    IN written[to].out

\* A wrong variant, for mutation: only the first chain is looked at.
WindowOfFirst ==
    <<IF Min(Range(chains[1])) - 1 > PartialOffset THEN Min(Range(chains[1])) - PartialOffset
      ELSE 1,
      IF Len(sentence) - Max(Range(chains[1])) > PartialOffset
      THEN Max(Range(chains[1])) + PartialOffset ELSE Len(sentence)>>

\* The bounds of the slice of syntagma.
Window ==
    <<IF Min(AllTokens) - 1 > PartialOffset THEN Min(AllTokens) - PartialOffset ELSE 1,
      IF Len(sentence) - Max(AllTokens) > PartialOffset THEN Max(AllTokens) + PartialOffset
      ELSE Len(sentence)>>

\* A line break within a word comes out as a blank.
OnOneLine(char) == IF char = "newline" THEN "blank" ELSE char
Rendered(words, all) ==
    LET window == IF all THEN <<1, Len(sentence)>> ELSE Window
        text == SentenceText(words, window[1], window[2])
    IN [i \in DOMAIN text |-> [text[i] EXCEPT !.char = OnOneLine(text[i].char)]]

RenderInit ==
    /\ MatcherInit
    /\ layout = <<>> /\ format = "" /\ printed = <<>>

\* all and part; lemma and aggr print lemmas, whatever the text.
Render ==
    /\ Matched /\ format = ""
    /\ layout' \in Layouts
    /\ format' \in {"all", "part"}
    /\ printed' = Rendered(layout', format' = "all")
    /\ UNCHANGED matcherVars

RenderNext == (MatcherNext /\ UNCHANGED <<layout, format, printed>>) \/ Render
RenderSpec == RenderInit /\ [][RenderNext]_renderVars

-----------------------------------------------------------------------------
(* Properties                                                              *)

\* The text of the book from offset a up to b, on one line; between words it has
\* nothing but blanks.
WordsAt(offset) ==
    {i \in DOMAIN sentence : layout[i].idx <= offset /\ offset < End(layout[i])}
CharAt(offset) ==
    LET i == Min(WordsAt(offset))
    IN IF WordsAt(offset) = {} THEN "blank"
       ELSE OnOneLine(layout[i].text[offset - layout[i].idx + 1])
BookText(a, b) == [n \in 1 .. b - a |-> CharAt(a + n - 1)]

Letters(text) ==
    FlattenSeq([n \in DOMAIN text |-> IF text[n] = "blank" THEN <<>> ELSE <<text[n]>>])

\* What is printed is the text of the book, from the first word that is shown to the
\* last: no word of several tokens twice, no two words run together.  Only at the
\* very beginning of a book is the blank after the first word lost (offset 0 is taken
\* for no offset, and a first word of several tokens would come twice).
PrintedIsText ==
    format # "" =>
        LET shown == [n \in DOMAIN printed |-> printed[n].char] IN
        \E i, j \in DOMAIN sentence :
            LET text == BookText(layout[i].idx, End(layout[j])) IN
            /\ i <= j
            /\ format = "all" => i = 1 /\ j = Len(sentence)
            /\ IF layout[i].idx # 0 \/ i = j THEN shown = text
               ELSE layout[i + 1].idx # 0 => Letters(shown) = Letters(text)

\* The words that are bright, from left to right.
Bright ==
    FlattenSeq([n \in DOMAIN printed |->
        IF printed[n].bright THEN <<printed[n].char>> ELSE <<>>])

\* The matched words, each once; of a word of several tokens only the first counts.
IsFirst(i) == i = 1 \/ layout[i] # layout[i - 1]
MatchedWords ==
    FlattenSeq([i \in DOMAIN sentence |->
        IF i \in AllTokens /\ IsFirst(i) THEN layout[i].text ELSE <<>>])

\* Whichever part of the sentence is shown, every word of every occurrence is in
\* it, in the colour of matches, and no other word is.  A match of a later part of
\* a word shows only where the window begins with that part.
MatchesAreBright ==
    format # "" /\ (\A i \in AllTokens : IsFirst(i)) =>
        Bright = [n \in DOMAIN MatchedWords |-> OnOneLine(MatchedWords[n])]
===============================================================================
