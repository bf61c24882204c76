----------------------------- MODULE CommandLine -----------------------------
(***************************************************************************)
(* What a command line makes the program do: the dispatch                  *)
(* (cmd/segrob/main.go, corpus_command.go, live_command.go) and the        *)
(* arguments of every subcommand (parse.go, parse_corpus.go,               *)
(* parse_live.go), down to the databases it opens (setup.go).              *)
(*                                                                         *)
(* A line is a sequence of words.  The flag package of Go stops at the     *)
(* first word that is no option: what follows it are arguments, whatever   *)
(* they look like.  An option of a subcommand is the set of its names.     *)
(***************************************************************************)
EXTENDS Integers, SequencesExt

\* A word; an option has its value in it (-name=value), or none.
Arg(name) == [kind |-> "arg", name |-> name, is |-> <<>>]
Flag(name) == [kind |-> "flag", name |-> name, is |-> <<>>]
FlagIs(name, value) == [kind |-> "flag", name |-> name, is |-> <<value>>]
Stop == [kind |-> "stop", name |-> "--", is |-> <<>>]
IsWord(w) == \/ w \in {Arg(w.name), Flag(w.name), Stop}
             \/ w.is # <<>> /\ w = FlagIs(w.name, Arg(w.is[1].name))
Help == Flag("help")
NoWord == Arg("")

Numbers == {Arg("0"), Arg("3"), Flag("1")}
Booleans == {Arg("true"), Arg("false")}
SupportedFormats == {"all", "part", "lemma", "aggr"}

-----------------------------------------------------------------------------
(* The subcommands                                                         *)

\* A setting that a command cannot do without has a default in the environment.
Setting(names, var) == [names |-> names, var |-> var]
CorpusDb == Setting({"db"}, "SEGROB_CORPUS_DB")
LiveDb == Setting({"db"}, "SEGROB_LIVE_DB")
From == Setting({"from"}, "SEGROB_CORPUS_DB")
To == Setting({"to"}, "SEGROB_LIVE_DB")
DocPath == Setting({"doc-path", "d"}, "SEGROB_LIVE_DB")
NlpScript == Setting({"nlp-script", "s"}, "SEGROB_NLP_SCRIPT")

\* counts: how many arguments are accepted; Nat where nothing counts them.
Command(needs, counts) ==
    [needs |-> needs, counts |-> counts, bools |-> {}, texts |-> {}, numbers |-> {},
     formats |-> {}, numeric |-> {}, stat |-> FALSE, dir |-> FALSE, creates |-> FALSE]

CorpusInit == Command({CorpusDb}, Nat)
CorpusPublish ==
    [Command({From, To}, 0 .. 1) EXCEPT !.bools = {{"move", "m"}, {"force", "f"}}]
CorpusPublishLabel == Command({From, To}, {1})
CorpusPublishTopic == Command({From, To}, {0})
CorpusIngestNlp ==
    [Command({CorpusDb, NlpScript}, {1}) EXCEPT !.bools = {{"force", "f"}}]
CorpusShow ==
    [Command({CorpusDb}, {1}) EXCEPT !.numbers = {{"start", "s"}, {"number", "n"}}]
CorpusIngestMeta ==
    [Command({CorpusDb}, {1}) EXCEPT !.bools = {{"pandoc", "p"}}, !.dir = TRUE]
CorpusDumpTxt == [Command({CorpusDb}, {1}) EXCEPT !.texts = {{"output", "o"}}]
CorpusDumpNlp ==
    [CorpusDumpTxt EXCEPT !.bools = {{"no-lemmas", "n"}}]
CorpusLs ==
    [Command({CorpusDb}, Nat) EXCEPT
        !.bools = {{"with-nlp", "w"}, {"nlp-ack", "n"}, {"txt-ack", "t"}, {"ack", "a"}}]
CorpusPushTxt == [Command({CorpusDb}, {2}) EXCEPT !.texts = {{"by"}, {"note"}}]
CorpusAck ==
    [Command({CorpusDb}, {1}) EXCEPT !.bools = {{"nlp", "n"}}, !.texts = {{"by"}}]
CorpusRm == Command({CorpusDb}, {1})
CorpusSetLabel ==
    [Command({CorpusDb}, Nat \ {0, 1}) EXCEPT !.bools = {{"delete", "d"}}]
CorpusLsLabel == [Command({CorpusDb}, 0 .. 1) EXCEPT !.texts = {{"match", "m"}}]
CorpusEdit == Command({CorpusDb}, Nat)
CorpusLsTopic == Command({CorpusDb}, Nat)
CorpusShowTopic == Command({CorpusDb}, {1})
CorpusIngestTopic == Command({CorpusDb}, {1})
CorpusDumpTopic == Command({CorpusDb}, {0})
CorpusBackup ==
    [Command({CorpusDb}, Nat) EXCEPT
        !.texts = {{"output", "o"}}, !.bools = {{"with-nlp", "n"}}]

LiveShow ==
    [Command({LiveDb}, {1}) EXCEPT
        !.numbers = {{"start"}, {"number", "n"}}, !.bools = {{"stats", "s"}}]
LiveLs ==
    [Command({DocPath}, Nat) EXCEPT !.texts = {{"match", "m"}}, !.stat = TRUE]
LiveShowSent ==
    [Command({LiveDb}, {2}) EXCEPT !.bools = {{"stats", "s"}}, !.numeric = {2}]
LiveFindTopics ==
    [Command({LiveDb}, {2}) EXCEPT !.formats = {{"format", "f"}}, !.numeric = {2}]
LiveQuery ==
    [Command({LiveDb}, Nat) EXCEPT
        !.texts = {{"label", "l"}}, !.bools = {{"no-color", "c"}, {"no-prefix", "x"}},
        !.numbers = {{"nmatches", "n"}}, !.formats = {{"format", "f"}}]
LiveFind ==
    [LiveQuery EXCEPT !.needs = {DocPath}, !.counts = Nat \ {0},
                      !.numbers = @ \cup {{"limit"}}, !.stat = TRUE]
LiveLsTopic == Command({LiveDb}, Nat)
LiveShowTopic == Command({LiveDb}, {1})
LiveInit == [Command({}, {1}) EXCEPT !.creates = TRUE]
LiveUnpublish == Command({LiveDb}, {1})
LiveUnpublishTopic == Command({LiveDb}, {1})
LiveDumpTopic == [Command({LiveDb}, {0}) EXCEPT !.texts = {{"user", "u"}}]

\* The cases of runCorpusCommand, the first half of them and all.
CorpusUpToDump ==
    [name \in {"init", "ls", "show", "ack", "rm", "publish", "backup", "publish-label",
               "publish-topic", "dump-txt", "dump-nlp"} |->
        CASE name = "init" -> CorpusInit [] name = "ls" -> CorpusLs
          [] name = "show" -> CorpusShow [] name = "ack" -> CorpusAck
          [] name = "rm" -> CorpusRm [] name = "publish" -> CorpusPublish
          [] name = "backup" -> CorpusBackup
          [] name = "publish-label" -> CorpusPublishLabel
          [] name = "publish-topic" -> CorpusPublishTopic
          [] name = "dump-txt" -> CorpusDumpTxt [] name = "dump-nlp" -> CorpusDumpNlp]

CorpusSubcommands ==
    [name \in DOMAIN CorpusUpToDump \cup
              {"edit", "ingest-nlp", "ingest-meta", "push-txt", "ls-label", "set-label",
               "ls-topic", "show-topic", "ingest-topic", "dump-topic"} |->
        CASE name \in DOMAIN CorpusUpToDump -> CorpusUpToDump[name]
          [] name = "edit" -> CorpusEdit
          [] name = "ingest-nlp" -> CorpusIngestNlp
          [] name = "ingest-meta" -> CorpusIngestMeta
          [] name = "push-txt" -> CorpusPushTxt [] name = "ls-label" -> CorpusLsLabel
          [] name = "set-label" -> CorpusSetLabel [] name = "ls-topic" -> CorpusLsTopic
          [] name = "show-topic" -> CorpusShowTopic
          [] name = "ingest-topic" -> CorpusIngestTopic
          [] name = "dump-topic" -> CorpusDumpTopic]

LiveSubcommands ==
    [name \in {"ls", "find", "init", "show", "unpublish", "query", "ls-topic",
               "show-topic", "find-topics", "show-sent", "unpublish-topic", "dump-topic"} |->
        CASE name = "ls" -> LiveLs [] name = "find" -> LiveFind
          [] name = "init" -> LiveInit [] name = "show" -> LiveShow
          [] name = "unpublish" -> LiveUnpublish [] name = "query" -> LiveQuery
          [] name = "ls-topic" -> LiveLsTopic [] name = "show-topic" -> LiveShowTopic
          [] name = "find-topics" -> LiveFindTopics
          [] name = "show-sent" -> LiveShowSent
          [] name = "unpublish-topic" -> LiveUnpublishTopic
          [] name = "dump-topic" -> LiveDumpTopic]

-----------------------------------------------------------------------------
(* The flag package                                                        *)

Options(c) == {s.names : s \in c.needs} \cup c.bools \cup c.texts \cup c.numbers
              \cup c.formats

\* What Set accepts.
Valid(c, option, value) ==
    /\ option \in c.bools => value \in Booleans
    /\ option \in c.numbers => value \in Numbers
    /\ option \in c.formats => value.name \in SupportedFormats

Fail(s) == [s EXCEPT !.mode = "error"]
Give(c, s, option, value) ==
    IF Valid(c, option, value)
    THEN [s EXCEPT !.mode = "options", !.given = Append(@, <<option, value>>)]
    ELSE Fail(s)

ReadOption(c, s, w) ==
    LET known == {o \in Options(c) : w.name \in o}
        option == CHOOSE o \in known : TRUE
    IN CASE known = {} -> IF w.name \in {"help", "h"} THEN [s EXCEPT !.mode = "help"]
                          ELSE Fail(s)
         [] known # {} /\ w.is # <<>> -> Give(c, s, option, Head(w.is))
         [] known \subseteq c.bools /\ known # {} /\ w.is = <<>> ->
                Give(c, s, option, Arg("true"))
         [] OTHER -> [s EXCEPT !.mode = "value", !.at = option]

ReadArg(s, w) == [s EXCEPT !.mode = "args", !.args = Append(@, w)]

\* An option without a value in it takes the next word, whatever that is.
ReadWord(c, s, w) ==
    CASE s.mode = "value" -> Give(c, s, s.at, w)
      [] s.mode = "args" -> ReadArg(s, w)
      [] s.mode = "options" /\ w.kind = "flag" -> ReadOption(c, s, w)
      [] s.mode = "options" /\ w.kind = "stop" -> [s EXCEPT !.mode = "args"]
      [] s.mode = "options" /\ w.kind = "arg" -> ReadArg(s, w)
      [] OTHER -> s

\* fs.Parse
NothingRead == [mode |-> "options", at |-> {}, given |-> <<>>, args |-> <<>>]
ParseFlags(c, words) ==
    LET parsed[i \in 0 .. Len(words)] ==
            IF i = 0 THEN NothingRead ELSE ReadWord(c, parsed[i - 1], words[i])
    IN parsed[Len(words)]

-----------------------------------------------------------------------------
(* Running a line.  env.vars: the environment; env.files: paths of files   *)
(* that exist; env.dirs: those of directories.                             *)

\* A wrong variant, for mutation: the environment wins.
ValueOfEnvFirst(p, setting, env) ==
    LET given == {i \in DOMAIN p.given : p.given[i][1] = setting.names}
    IN IF given = {} \/ env.vars[setting.var] # NoWord THEN env.vars[setting.var]
       ELSE p.given[Max(given)][2]

\* The last value given, or else the one of the environment.
ValueOf(p, setting, env) ==
    LET given == {i \in DOMAIN p.given : p.given[i][1] = setting.names}
    IN IF given = {} THEN env.vars[setting.var] ELSE p.given[Max(given)][2]

ValuesOf(c, p, env) == {ValueOf(p, s, env) : s \in c.needs}

Accepted(c, p, env) ==
    /\ p.mode \in {"options", "args"}
    /\ Len(p.args) \in c.counts
    /\ \A i \in c.numeric : p.args[i] \in Numbers
    /\ c.dir => p.args[1] \in env.dirs
    /\ NoWord \notin ValuesOf(c, p, env)
    /\ c.stat => ValuesOf(c, p, env) \subseteq env.files \cup env.dirs

\* getPool, by its path.
Opens(c, p, env) ==
    IF c.creates THEN {p.args[1]} ELSE {ValueOf(p, s, env) : s \in c.needs \ {NlpScript}}

NoCommand == Command({}, {})
Printed == [does |-> "print", command |-> "", given |-> <<>>, args |-> <<>>, opens |-> {}]
Refused == [Printed EXCEPT !.does = "refuse"]

\* A subcommand asked for help prints it; flag.ErrHelp means success.
RunSubcommand(name, c, words, env) ==
    LET p == ParseFlags(c, words) IN
    CASE p.mode = "help" -> Printed
      [] Accepted(c, p, env) -> [does |-> "run", command |-> name, given |-> p.given,
                                 args |-> p.args, opens |-> Opens(c, p, env)]
      [] OTHER -> Refused

\* runCorpusCommand, runLiveCommand
RunGroup(subcommands, words, env) ==
    CASE words # <<>> /\ Head(words) \in {Help, Flag("h")} -> Printed
      [] words # <<>> /\ Head(words).kind = "arg" /\ Head(words).name \in DOMAIN subcommands ->
            RunSubcommand(Head(words).name, subcommands[Head(words).name], Tail(words), env)
      [] OTHER -> Refused

\* bash and complete, which have no options; complete is called by the shell.
RunPlain(words) ==
    LET mode == ParseFlags(NoCommand, words).mode
    IN IF mode = "error" THEN Refused ELSE Printed

\* A wrong variant, for mutation: help runs the command as it is.
HelpOfBare(words) == IF Len(words) > 1 THEN Tail(words) ELSE words

\* help hands the rest of the line on, with --help at its end.  (help help ends
\* in a command --help, which there is not.)
HelpOf(words) ==
    LET helps == {i \in DOMAIN words : \A j \in 1 .. i : words[j] = Arg("help")}
        n == Cardinality(helps)
    IN SubSeq(words, n + 1, Len(words)) \o [i \in 1 .. n |-> Help]

\* runCommand
RunCommand(words, env) ==
    CASE Head(words) \in {Arg("version"), Arg("env")} -> Printed
      [] Head(words) \in {Arg("bash"), Arg("complete")} -> RunPlain(Tail(words))
      [] Head(words) = Arg("live") -> RunGroup(LiveSubcommands, Tail(words), env)
      [] Head(words) = Arg("corpus") -> RunGroup(CorpusSubcommands, Tail(words), env)
      [] OTHER -> Refused

\* main
Run(line, env) ==
    LET p == ParseFlags(NoCommand, line) IN
    CASE p.mode = "help" \/ p.args = <<Arg("help")>> -> Printed
      [] p.mode = "error" \/ p.args = <<>> -> Refused
      [] OTHER -> RunCommand(IF Head(p.args) = Arg("help") THEN HelpOf(p.args) ELSE p.args,
                             env)
=============================================================================
