-------------------------------- MODULE MCEpub --------------------------------
(* All short chapters over a few tags and texts, books whose spine and manifest  *)
(* disagree, and metadata and labels full of commas.  Then a user: every         *)
(* subcommand with up to three of the words that mean something to it, and       *)
(* set-label with labels full of commas, options and help among them.            *)
EXTENDS Session

CONSTANT MaxTokens  \* bound: length of the only chapter of a book

St(name) == [kind |-> "start", name |-> name, text |-> <<>>]
En(name) == [kind |-> "end", name |-> name, text |-> <<>>]
Ch(text) == [kind |-> "chars", name |-> "", text |-> text]
Malformed == [kind |-> "malformed", name |-> "", text |-> <<>>]

MCTokens == {St("p"), En("p"), St("head"), St("style"), En("head"), St("br"),
           Ch(<<"a">>), Ch(<<"blank", "blank", "b", "nbsp">>)}
Short == UNION {[1 .. n -> MCTokens] : n \in 0 .. MaxTokens}

NoMeta == [creators |-> <<>>, contributors |-> <<>>, titles |-> <<>>, dates |-> <<>>,
           languages |-> <<>>]
Metas ==
    LET by(v, r) == [value |-> v, role |-> r]
        comma == <<"A", "comma", "blank", "b", "comma", "hyphen">>
    IN {NoMeta,
        [NoMeta EXCEPT !.creators = <<by(<<"b">>, "trl"), by(comma, "aut"), by(<<"a">>, "")>>],
        [NoMeta EXCEPT !.creators = <<by(comma, "trl")>>, !.titles = <<comma, <<"a">>>>,
                       !.contributors = <<by(<<"a">>, "edt"), by(<<"B">>, "trl")>>],
        [NoMeta EXCEPT !.titles = <<<<"comma">>>>, !.languages = <<<<"e", "hyphen", "B">>>>,
                       !.dates = <<by(<<"9">>, ""),
                                   by(<<"1", "hyphen", "1", "9", "9", "0", "1">>, "publication")>>]}

Doc(id, href) == [id |-> id, href |-> href]
Pkg(meta, manifest, spine) ==
    [metadata |-> meta, manifest |-> manifest, spine |-> spine]
EpubOf(pkg, files) ==
    [rootfiles |-> <<<<"OEBPS", "opf">>>>,
     packages |-> <<"OEBPS", "opf">> :> pkg, files |-> files]

OneChapter == {EpubOf(Pkg(NoMeta, <<Doc("c1", <<"x">>)>>, <<"c1">>), <<"OEBPS", "x">> :> ch) :
                    ch \in Short}

MCFiles == (<<"OEBPS", "x">> :> <<Ch(<<"a">>), En("style"), Ch(<<"e">>), St("style")>>)
            @@ (<<"y">> :> <<St("p"), Ch(<<"newline", "e", "accent", "joiner", "tab">>), St("i"),
                             Ch(<<"blank", "A">>), St("br"), En("br"), En("p"), En("p")>>)
            @@ (<<"OEBPS", "y">> :> <<En("p"), Ch(<<"b", "dashentity", "ampersand">>)>>)
            @@ (<<"u">> :> <<Ch(<<"ampersand", "lt", "a">>)>>)
            @@ (<<"z">> :> <<Ch(<<"a">>), Malformed>>)
            @@ (<<"v">> :> <<Ch(<<"B", "e">>), En("i"), Ch(<<"accent">>)>>)
MCManifest == <<Doc("c1", <<"x">>), Doc("c2", <<"x">>), Doc("c2", <<"y">>), Doc("c3", <<"z">>),
              Doc("c4", <<"w">>), Doc("c5", <<"v">>), Doc("c7", <<"u">>)>>
MCSpines == UNION {[1 .. n -> {"c1", "c2", "c3", "c4", "c5", "c6", "c7"}] : n \in 0 .. 3}

MCArchives ==
    OneChapter
    \cup {EpubOf(Pkg(NoMeta, MCManifest, spine), MCFiles) : spine \in MCSpines}
    \cup {EpubOf(Pkg(meta, MCManifest, <<"c5">>), MCFiles) : meta \in Metas}
    \cup {[EpubOf(Pkg(NoMeta, <<>>, <<>>), MCFiles) EXCEPT !.rootfiles = r] :
            r \in {<<>>, <<<<"opf">>>>}}

-----------------------------------------------------------------------------
MCHome == Arg("home.db")
MCId == Arg("3")
Environment(corpus, live) ==
    [vars |-> [SEGROB_CORPUS_DB |-> corpus, SEGROB_LIVE_DB |-> live,
               SEGROB_NLP_SCRIPT |-> Arg("nlp.py")],
     files |-> {Arg("live.db")}, dirs |-> {Arg("dir")}]
MCEnvironments == {Environment(MCHome, Arg("live.db")), Environment(NoWord, Arg("gone.db"))}

\* For each option of a command a word or two, and the arguments of all.
WordsFor(c) ==
    {Arg("3"), Arg("dir"), Help, Stop}
    \cup {FlagIs(CHOOSE n \in s.names : TRUE, Arg("live.db")) : s \in c.needs}
    \cup {Flag(CHOOSE n \in o : TRUE) : o \in c.bools \cup c.texts}
    \cup {FlagIs(CHOOSE n \in o : TRUE, Arg("3")) : o \in c.numbers \cup c.formats}

Tails(c) == UNION {[1 .. n -> WordsFor(c)] : n \in 0 .. 3}
Spoke(group, subcommands) ==
    UNION {{<<Arg(group), Arg(name)>> \o t : t \in Tails(subcommands[name])} :
                name \in DOMAIN subcommands}
Plainly == Spoke("corpus", CorpusSubcommands) \cup Spoke("live", LiveSubcommands)

Else == {Arg("help"), Arg("version"), Arg("complete"), Arg("bash"), Arg("corpus"), Arg("live"),
         Arg("rm"), Arg("3"), Help, Flag("q"), Stop}
MCFirstLines ==
    Plainly \cup {<<Arg("help")>> \o line : line \in Plainly}
    \cup UNION {[1 .. n -> Else] : n \in 0 .. 3}

MCLabelsSpelled ==
    [a |-> <<"a">>, AB |-> <<"A", "comma", "B">>, dir |-> <<"d">>,
     help |-> <<"hyphen", "hyphen", "h">>,
     title |-> <<"title", "colon", "a", "blank", "b", "hyphen">>, comma |-> <<"comma">>,
     commas |-> <<"a", "comma", "comma", "blank", "b">>,
     db |-> <<"hyphen", "hyphen", "d">>, delete |-> <<"hyphen", "d">>]
    @@ ("3" :> <<"3">>) @@ ("d" :> <<"hyphen", "d">>) @@ ("--" :> <<"hyphen", "hyphen">>)
MCLabels == {<<Arg("a")>>, <<Arg("a"), Arg("AB")>>, <<Arg("title")>>, <<Arg("comma")>>,
             <<Arg("commas")>>, <<Arg("a"), Help>>}
MCLaterLines ==
    {<<Arg("corpus"), Arg("set-label"), FlagIs("db", MCHome)>> \o o \o <<MCId>> \o l :
        o \in {<<>>, <<Flag("d")>>}, l \in MCLabels}

\* set-label as doc/workflow.md has it, and with its option in front.
MCSetLabelLines ==
    LET option == Flag("delete")  label == Arg("a") IN
    {<<Arg("corpus"), Arg("set-label")>> \o words :
        words \in {<<MCId, label>>, <<option, MCId, label>>, <<MCId, option, label>>}}

MCVocabulary ==
    UNION {Range(line) : line \in MCFirstLines \cup MCLaterLines \cup MCSetLabelLines}

\* Words that are no labels on any line are spelled somehow.
MCSpelled == MCLabelsSpelled @@ [name \in {w.name : w \in MCVocabulary} |-> <<"w">>]
=============================================================================
