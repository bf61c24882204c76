------------------------------- MODULE Session -------------------------------
(***************************************************************************)
(* A user at the shell, with a book in the corpus: what the lines that are *)
(* typed do to the databases and to the labels of the book (main.go,       *)
(* corpus_command.go, live_command.go, and set-label to its end in the     *)
(* labels column).                                                         *)
(***************************************************************************)
EXTENDS Epub, CommandLine

CONSTANTS
    Environments,  \* what a line may find, see CommandLine
    Vocabulary,    \* words that are typed
    FirstLines,    \* lines typed first
    LaterLines,    \* lines typed then
    MaxLines,      \* bound: lines typed
    Home, Id,      \* words that name the database of the book, and its row
    Spelled        \* Spelled[name]: the characters of an argument

ASSUME SessionAssumption == /\ \A w \in Vocabulary : IsWord(w)
                            /\ FirstLines \cup LaterLines \subseteq Seq(Vocabulary)
                            /\ \A w \in Vocabulary \cup {Help} : Spelled[w.name] \in Text

VARIABLES
    env,     \* the environment that the line finds
    said,    \* the line
    opened,  \* databases the line has opened
    lines    \* lines typed so far

shell == <<env, said, opened, lines>>
sessionVars == <<epubVars, shell>>

NoEnvironment == [vars |-> <<>>, files |-> {}, dirs |-> {}]

SessionInit ==
    /\ EpubInit
    /\ env = NoEnvironment
    /\ said = <<>> /\ opened = {} /\ lines = 0

TypeLine ==
    /\ pc \in {"stored", "ran"} /\ lines < MaxLines
    /\ env' \in Environments
    /\ said' \in IF lines = 0 THEN FirstLines ELSE LaterLines
    /\ lines' = lines + 1
    /\ opened' = {}
    /\ pc' = "typed"
    /\ UNCHANGED <<archive, reading, row>>

\* The labels of a set-label; an option among them is a label like any other.
LabelsIn(args) == {Spelled[args[i].name] : i \in 2 .. Len(args)}

\* -d, --delete; of several the last counts.
Deletes(given) ==
    LET deletes == {i \in DOMAIN given : given[i][1] = {"delete", "d"}}
    IN deletes # {} /\ given[Max(deletes)][2] = Arg("true")

SetLabel(done) ==
    LET labels == LabelsIn(done.args) IN
    IF Deletes(done.given)
    THEN /\ column' = DeleteFromColumn(column, labels)
         /\ labelled' = labelled \ Normalized(labels)
    ELSE /\ column' = AddToColumn(column, labels)
         /\ labelled' = labelled \cup Normalized(labels)

\* Of what a command does, only the databases it opens, and the labels.
RunLine ==
    /\ pc = "typed"
    /\ LET done == Run(said, env) IN
       /\ opened' = done.opens
       /\ IF done.command = "set-label" /\ done.opens = {Home} /\ done.args[1] = Id
          THEN SetLabel(done) ELSE UNCHANGED row
    /\ pc' = "ran"
    /\ UNCHANGED <<archive, reading, env, said, lines>>

SessionNext == (EpubNext /\ UNCHANGED shell) \/ TypeLine \/ RunLine
SessionSpec == SessionInit /\ [][SessionNext]_sessionVars

-----------------------------------------------------------------------------
(* Properties                                                              *)

\* label.go:11, "To prevent corruption, commas are stripped": the column stands
\* for the set of labels the row was given, whatever the metadata and set-label
\* make of them; only the empty label comes and goes.
LabelColumnIsSet == LabelsOf(column) \ {<<>>} = labelled \ {<<>>}

\* The subcommand of a line, as a reader finds it: the words help in front aside.
Groups == [corpus |-> CorpusSubcommands, live |-> LiveSubcommands]
Spoken(line) ==
    IF line # <<>> /\ Head(line) = Arg("help") THEN Tail(line) ELSE line
IsSubcommand(line) ==
    /\ Len(line) > 1 /\ line[1].kind = "arg" /\ line[1].name \in DOMAIN Groups
    /\ line[2].kind = "arg" /\ line[2].name \in DOMAIN Groups[line[1].name]
Subcommand(line) == Groups[line[1].name][line[2].name]
Words(line) == SubSeq(line, 3, Len(line))

\* Every option has its value in it, so that no word is read as another's value.
IsPlain(c, words) ==
    \A i \in DOMAIN words :
        words[i].kind = "flag" /\ words[i].is = <<>> =>
            \E o \in c.bools : words[i].name \in o

\* Words up to the first argument.
Leading(words) ==
    LET arguments == {i \in DOMAIN words : words[i].kind # "flag"}
    IN IF arguments = {} THEN words ELSE SubSeq(words, 1, Min(arguments) - 1)

\* Commands that take a second argument, or do not look at what follows.
Loose(c) == 2 \in c.counts /\ c.numeric = {}

\* main.go:67, "help": a line with help in front opens no database, nor does one
\* that asks --help before its first argument.  The code does not keep this of two
\* kinds of lines with help in front, which are left out.  It puts --help at the end
\* of the line, where it is an argument too if there is one before it, and a command
\* that takes a second one, or does not count them, runs: "help corpus set-label 5
\* foo" writes.  So it is behind a -- that ends the line.
HelpOnlyPrints ==
    pc = "ran" /\ IsSubcommand(Spoken(said)) =>
        LET c == Subcommand(Spoken(said))
            words == Words(Spoken(said))
            asks == Head(said) = Arg("help") /\ IsPlain(c, words)
                        /\ (Leading(words) = words \/ (~Loose(c) /\ Last(words) # Stop))
            asksLast == IsPlain(c, Front(words)) /\ Last(words) = Help
                        /\ Leading(words) = words
        IN asks \/ (words # <<>> /\ asksLast) => opened = {}

\* What a command does is what its line says: each option has its effect (the
\* databases are the ones named last on the line, and the environment's where it
\* names none), or the command does not run.  Of the commands that take a second
\* argument this is said of the options before the first: they pass over the others,
\* set-label too, whose documented use is such a line (see DeleteDeletes).  After a
\* -- there are no options.
LineIsHeeded ==
    pc = "ran" /\ opened # {} /\ IsSubcommand(said) =>
        LET c == Subcommand(said)
            words == Words(said)
            named(s) == {i \in DOMAIN Leading(words) : words[i].name \in s.names}
            meant(s) == IF named(s) = {} THEN env.vars[s.var] ELSE words[Max(named(s))].is[1]
        IN IsPlain(c, words) =>
              /\ \A s \in c.needs \ {NlpScript} : meant(s) \in opened
              /\ ~Loose(c) => \A i \in DOMAIN words :
                    words[i].kind = "flag" =>
                        i \in DOMAIN Leading(words) \/ \E j \in 1 .. i - 1 : words[j] = Stop

\* doc/workflow.md:138, "segrob corpus set-label <doc_id> --delete "old:label"": a
\* set-label with --delete leaves none of its labels on the book.  The code breaks
\* it: the flag package stops at the id, and --delete is a label to add.
DeleteDeletes ==
    pc = "ran" /\ opened = {Home} /\ IsSubcommand(said) /\ said[2] = Arg("set-label") =>
        LET words == Words(said)
            asked == {Spelled[w.name] : w \in {v \in Range(words) : v.kind = "arg"} \ {Id}}
        IN \/ Range(words) \cap {Flag("delete"), Flag("d")} = {}
           \/ LabelsOf(column) \cap Normalized(asked) = {}
=============================================================================
