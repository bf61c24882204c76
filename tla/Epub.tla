--------------------------------- MODULE Epub ---------------------------------
(***************************************************************************)
(* From an epub to its row of the corpus: openBook and processEpubGo       *)
(* (cmd/segrob/corpus_ingest_meta.go) and the package epub.                *)
(*                                                                         *)
(* An archive holds, by their paths, a package and chapters; a chapter is  *)
(* the sequence of XML tokens RawToken returns for it, with the names of   *)
(* tags in lower case.  RawToken has decoded the entities of XML in        *)
(* character data and passes over others, like &mdash;, for one of which   *)
(* "dashentity" stands; "lt" is the letters of that entity, which make one *)
(* with an "ampersand" before them.  A path is a sequence of names, and no *)
(* path leads upwards.                                                     *)
(***************************************************************************)
EXTENDS LabelColumn

CONSTANT Archives  \* epubs

Text == Seq(STRING)
Path == Seq(STRING)
Person == [value : Text, role : STRING]
Metadata == [titles : Seq(Text), creators : Seq(Person), contributors : Seq(Person),
             dates : Seq(Person), languages : Seq(Text)]  \* role is the event of a date
Manifest == Seq([id : STRING, href : Path])
Spine == Seq(STRING)
PackageXML == [metadata : Metadata, manifest : Manifest, spine : Spine]
Token == [kind : {"start", "end", "chars", "malformed"}, name : STRING, text : Text]

\* What an archive has under a path: packages that can be decoded, and chapters.
IsArchive(a) ==
    /\ a.rootfiles \in Seq(Path)
    /\ DOMAIN a.packages \subseteq Path /\ Range(a.packages) \subseteq PackageXML
    /\ DOMAIN a.files \subseteq Path /\ Range(a.files) \subseteq Seq(Token)

ASSUME EpubAssumption == \A a \in Archives : IsArchive(a)

VARIABLES
    archive,
    pc,      \* "open", "spine", "text", "row", "failed", "stored"
    refs,    \* itemrefs of the spine not read yet
    tokens,  \* tokens of the chapter not read yet
    depth,   \* ignoreDepth
    buf,     \* text of the chapter so far
    full,    \* fullText: text of the book so far
    column,  \* the labels column of the row
    labelled   \* history: the labels the row was given

reading == <<refs, tokens, depth, buf, full>>
row == <<column, labelled>>
epubVars == <<archive, pc, reading, row>>

NoArchive == [rootfiles |-> <<>>]
IgnoreTags == {"head", "script", "style", "title"}
BlockTags == {"p", "div", "h1", "h2", "h3", "h4", "h5", "h6", "li", "blockquote",
              "pre", "section", "header", "footer", "article"}

-----------------------------------------------------------------------------
(* Metadata                                                                *)

\* The value of the first of those that are wanted.
FirstOf(people, wanted) == IF wanted = {} THEN <<>> ELSE people[Min(wanted)].value
Translators(people) == {i \in DOMAIN people : people[i].role = "trl"}

Digits == {"0", "1", "9"}
IsYear(val, i) == \A j \in i .. i + 3 : j \in DOMAIN val /\ val[j] \in Digits

\* The first match of \d{4}.
NormalizeDate(val) ==
    LET years == {i \in DOMAIN val : IsYear(val, i)}
    IN IF years = {} THEN <<>> ELSE SubSeq(val, Min(years), Min(years) + 3)

Creator(m) == FirstOf(m.creators, DOMAIN m.creators \ Translators(m.creators))
Translator(m) ==
    IF Translators(m.contributors) # {} THEN FirstOf(m.contributors, Translators(m.contributors))
    ELSE FirstOf(m.creators, Translators(m.creators))
PublicationDate(m) ==
    FirstOf(m.dates, {i \in DOMAIN m.dates : m.dates[i].role = "publication"})

HeadOr(texts) == IF texts = <<>> THEN <<>> ELSE Head(texts)
BookLabels(m) == [creator |-> Creator(m), title |-> HeadOr(m.titles),
                  date |-> NormalizeDate(PublicationDate(m)),
                  language |-> HeadOr(m.languages), translator |-> Translator(m)]

-----------------------------------------------------------------------------
(* Text                                                                    *)

Package == archive.packages[Head(archive.rootfiles)]
OpfDir == Front(Head(archive.rootfiles))
Has(file) == file \in DOMAIN archive.files

\* idToHref: of items with one id the last counts.
Items(id) == {i \in DOMAIN Package.manifest : Package.manifest[i].id = id}
Href(id) == Package.manifest[Max(Items(id))].href

\* Relative to the package first, then as it stands.
FileOf(id) == IF Has(OpfDir \o Href(id)) THEN OpfDir \o Href(id) ELSE Href(id)

\* A wrong variant, for mutation: the end of an ignored element ends them all.
DepthAfterFlag(t) ==
    CASE t.kind = "start" /\ t.name \in IgnoreTags -> depth + 1
      [] t.kind = "end" /\ t.name \in IgnoreTags -> 0
      [] OTHER -> depth

DepthAfter(t) ==
    CASE t.kind = "start" /\ t.name \in IgnoreTags -> depth + 1
      [] t.kind = "end" /\ t.name \in IgnoreTags -> depth - 1
      [] OTHER -> depth

\* html.UnescapeString decodes what RawToken has passed over, and what looks like an
\* entity in what it has decoded: &amp;lt; in the book, which means the letters &lt;,
\* is an ampersand and "lt" here and becomes the sign less.
IsEntity(text, i) == /\ text[i] = "ampersand"
                     /\ i < Len(text) /\ text[i + 1] = "lt"
Unescape(text) ==
    FlattenSeq([i \in DOMAIN text |->
        CASE text[i] = "dashentity" -> <<"dash">>
          [] IsEntity(text, i) -> <<"less">>
          [] i > 1 /\ IsEntity(text, i - 1) -> <<>>
          [] OTHER -> <<text[i]>>])

\* Blanks in a row are one within the character data of one token.
Blank == {"blank", "newline", "tab", "return"}
CollapseBlanks(text) ==
    FlattenSeq([i \in DOMAIN text |->
        IF text[i] \notin Blank THEN <<text[i]>>
        ELSE IF i > 1 /\ text[i - 1] \in Blank THEN <<>> ELSE <<"blank">>])

Breaks(t) == \/ t.kind = "start" /\ t.name \in BlockTags \cup {"br"}
             \/ t.kind = "end" /\ t.name \in BlockTags

Written(t) == CASE t.kind = "chars" -> IF depth > 0 THEN <<>>
                                         ELSE CollapseBlanks(Unescape(t.text))
                [] Breaks(t) -> <<"newline">>
                [] OTHER -> <<>>

\* Three newlines in a row and more are two.
CollapseLines(text) ==
    FlattenSeq([i \in DOMAIN text |->
        IF i > 2 /\ \A j \in i - 2 .. i : text[j] = "newline" THEN <<>> ELSE <<text[i]>>])

\* strings.TrimSpace
Space == Blank \cup {"nbsp"}
TrimSpace(text) ==
    LET kept == {i \in DOMAIN text : text[i] \notin Space}
    IN IF kept = {} THEN <<>> ELSE SubSeq(text, Min(kept), Max(kept))

\* norm.NFC.String: a letter and the accent after it are one character.
Nfc(text) ==
    FlattenSeq([i \in DOMAIN text |->
        CASE text[i] = "e" /\ i < Len(text) /\ text[i + 1] = "accent" -> <<"eaccent">>
          [] text[i] = "accent" /\ i > 1 /\ text[i - 1] = "e" -> <<>>
          [] OTHER -> <<text[i]>>])

\* Word joiners, soft hyphens and the like.
Format == {"joiner"}
WithoutFormat(text) ==
    FlattenSeq([i \in DOMAIN text |-> IF text[i] \in Format THEN <<>> ELSE <<text[i]>>])
CleanForNLP(text) == WithoutFormat(Nfc(text))

-----------------------------------------------------------------------------
EpubInit ==
    /\ archive \in Archives
    /\ pc = "open"
    /\ refs = <<>> /\ tokens = <<>> /\ depth = 0 /\ buf = <<>> /\ full = <<>>
    /\ column = <<>> /\ labelled = {}

\* The package is the first rootfile of the container.
OpenBook ==
    /\ pc = "open"
    /\ IF archive.rootfiles # <<>> /\ Head(archive.rootfiles) \in DOMAIN archive.packages
       THEN /\ pc' = "spine"
            /\ refs' = Package.spine
            /\ column' = SerializeLabels(BookLabels(Package.metadata))
            /\ labelled' = Serialized(BookLabels(Package.metadata))
       ELSE pc' = "failed" /\ UNCHANGED <<refs, row>>
    /\ UNCHANGED <<archive, tokens, depth, buf, full>>

\* An itemref that the manifest does not know is passed over.
SkipItemRef ==
    /\ pc = "spine" /\ refs # <<>> /\ Items(Head(refs)) = {}
    /\ refs' = Tail(refs)
    /\ UNCHANGED <<archive, pc, tokens, depth, buf, full, row>>

OpenChapter ==
    /\ pc = "spine" /\ refs # <<>> /\ Items(Head(refs)) # {}
    /\ IF Has(FileOf(Head(refs)))
       THEN pc' = "text" /\ tokens' = archive.files[FileOf(Head(refs))]
       ELSE pc' = "failed" /\ UNCHANGED tokens
    /\ refs' = Tail(refs)
    /\ depth' = 0 /\ buf' = <<>>
    /\ UNCHANGED <<archive, full, row>>

ReadToken ==
    /\ pc = "text" /\ tokens # <<>>
    /\ IF Head(tokens).kind = "malformed"
       THEN pc' = "failed" /\ UNCHANGED <<depth, buf>>
       ELSE /\ depth' = DepthAfter(Head(tokens))
            /\ buf' = buf \o Written(Head(tokens))
            /\ UNCHANGED pc
    /\ tokens' = Tail(tokens)
    /\ UNCHANGED <<archive, refs, full, row>>

EndChapter ==
    /\ pc = "text" /\ tokens = <<>>
    /\ full' = full \o TrimSpace(CollapseLines(buf)) \o <<"newline">>
    /\ pc' = "spine"
    /\ UNCHANGED <<archive, refs, tokens, depth, buf, row>>

FinalizeText ==
    /\ pc = "spine" /\ refs = <<>>
    /\ full' = CleanForNLP(full)
    /\ pc' = "row"
    /\ UNCHANGED <<archive, refs, tokens, depth, buf, row>>

\* The row is in the corpus; of what follows, its labels column is of interest.
Store ==
    /\ pc = "row"
    /\ pc' = "stored"
    /\ archive' = NoArchive
    /\ tokens' = <<>> /\ depth' = 0 /\ buf' = <<>> /\ full' = <<>>
    /\ UNCHANGED <<refs, row>>

EpubNext == \/ OpenBook \/ SkipItemRef \/ OpenChapter \/ ReadToken \/ EndChapter
            \/ FinalizeText \/ Store
EpubSpec == EpubInit /\ [][EpubNext]_epubVars

-----------------------------------------------------------------------------
(* Properties                                                              *)

\* The chapters a reader turns to, by their places in the spine.
Places == {i \in DOMAIN Package.spine : Items(Package.spine[i]) # {}}
Chapter(i) == archive.files[FileOf(Package.spine[i])]

Tags(chapter, kind, i, j) ==
    Cardinality({k \in i .. j : chapter[k].kind = kind /\ chapter[k].name \in IgnoreTags})

\* Token i is inside an ignored element: one began before it and has not ended.
Inside(chapter, i) ==
    \E j \in 1 .. i - 1 :
        \A k \in j .. i : Tags(chapter, "start", j, k) > Tags(chapter, "end", j, k)

\* Each ignored element that ends has begun.
Balanced(chapter) ==
    \A i \in DOMAIN chapter : Tags(chapter, "start", 1, i) >= Tags(chapter, "end", 1, i)

\* An ampersand of the text, with letters behind it that make it look like an entity.
EscapedTwice(chapter) ==
    \E k \in DOMAIN chapter :
        chapter[k].kind = "chars"
            /\ \E i \in DOMAIN chapter[k].text : IsEntity(chapter[k].text, i)

Readable(chapter) == Balanced(chapter) /\ ~EscapedTwice(chapter)

\* A text with its entities read.
Seen(text) == [i \in DOMAIN text |-> IF text[i] = "dashentity" THEN "dash" ELSE text[i]]

\* A chapter as it is read: the text outside ignored elements, with a line break
\* where one of BlockTags begins or ends.
Shown(chapter) ==
    FlattenSeq([i \in DOMAIN chapter |->
        CASE chapter[i].kind = "chars" ->
                IF Inside(chapter, i) THEN <<>> ELSE CollapseBlanks(Seen(chapter[i].text))
          [] Breaks(chapter[i]) -> <<"newline">>
          [] OTHER -> <<>>]) \o <<"newline">>
ShownBook ==
    FlattenSeq([i \in DOMAIN Package.spine |-> IF i \in Places THEN Shown(Chapter(i)) ELSE <<>>])

Decomposed(text) ==
    FlattenSeq([i \in DOMAIN text |->
        IF text[i] = "eaccent" THEN <<"e", "accent">> ELSE <<text[i]>>])

\* What parts the place i of a text from the letter before it.
Unseen == Space \cup Format
Gap(text, i) ==
    LET between == {j \in 1 .. i - 1 : \A k \in j .. i - 1 : text[k] \in Unseen}
    IN IF between = 1 .. i - 1 THEN "first"
       ELSE IF \E j \in between : text[j] = "newline" THEN "line"
       ELSE IF \E j \in between : text[j] \in Space THEN "word" ELSE "letter"

\* The letters of a text, each with what parts it from the letter before.
Reading(text) ==
    FlattenSeq([i \in DOMAIN text |->
        IF text[i] \in Unseen THEN <<>> ELSE <<<<text[i], Gap(text, i)>>>>])

\* The text of the row is the text of the book in the order of the spine: of what is
\* outside heads, scripts, style sheets and titles no letter is lost and nothing else
\* comes in, its entities are decoded, and words and lines are parted where they are
\* in the text, and at br and the tags of BlockTags (cells of a table, which are not
\* among them, run together).  Two kinds of chapters are left out.  In one with an end
\* tag of an ignored element that never began, the depth becomes negative and lets the
\* next such element through.  In one with an entity escaped twice, "safely and
\* accurately decodes" (epub.go:288) does not hold, as the text is decoded twice.
TextIsReading ==
    pc = "row" /\ (\A i \in Places : Readable(Chapter(i))) =>
        Reading(Decomposed(full)) = Reading(Decomposed(ShownBook))
=============================================================================
