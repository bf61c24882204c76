---------------------------- MODULE Session_proofs ----------------------------
(***************************************************************************)
(* Proofs about what a line does, for every line of any words, in any      *)
(* environment, whatever has been typed before:                            *)
(*   - of the words up to the first argument each has its effect, --help   *)
(*     ends the reading, and from the first argument on every word is an   *)
(*     argument (the induction is along the words, UpTo);                  *)
(*   - so help in front of a line, where the --help it puts at the end is  *)
(*     read, and --help before the first argument, open no database, and a *)
(*     line that runs opens the databases it means.                        *)
(* What the proofs need of the subcommands is WellFormed, and each has it. *)
(* Then proofs about what the epubs of those lines come to:                *)
(*   - the column of labels means the set of labels that were given, but   *)
(*     for an empty one, however it was added to, read and written;        *)
(*   - the text of an epub reads as its book does (Text: the induction is  *)
(*     along the characters, then along the chapters).                     *)
(***************************************************************************)
EXTENDS Session, SequenceLemmas, FiniteSetTheorems

-----------------------------------------------------------------------------
(* The subcommands                                                         *)

\* What is true of the options and the arguments of every subcommand: an option has
\* names of its own, none of which is help or a number; a setting takes a value; and
\* who rejects a second argument, or does not take it for any, takes no third.
WellFormed(c) ==
    /\ \A o \in Options(c) : "help" \notin o /\ "1" \notin o
    /\ \A o, q \in Options(c) : o \cap q # {} => o = q
    /\ \A x \in c.needs : x.names \notin c.bools
    /\ \A n \in c.counts : n \in Nat /\ (2 \in c.counts \/ n < 2)
    /\ c.numeric # {} => c.counts = {2} /\ c.numeric = {2}
    /\ c.creates => c.needs = {}

LEMMA CorpusUpToDumpWellFormed ==
    \A name \in DOMAIN CorpusUpToDump : WellFormed(CorpusUpToDump[name])
<1> USE DEF WellFormed, Options, Command, CorpusDb, Setting
<1>1. WellFormed(CorpusInit)
  BY DEF CorpusInit
<1>2. WellFormed(CorpusLs)
  BY DEF CorpusLs
<1>3. WellFormed(CorpusShow)
  BY DEF CorpusShow
<1>4. WellFormed(CorpusAck)
  BY DEF CorpusAck
<1>5. WellFormed(CorpusRm)
  BY DEF CorpusRm
<1>6. WellFormed(CorpusPublish)
  BY DEF CorpusPublish, From, To
<1>7. WellFormed(CorpusBackup)
  BY DEF CorpusBackup
<1>8. WellFormed(CorpusPublishLabel)
  BY DEF CorpusPublishLabel, From, To
<1>9. WellFormed(CorpusPublishTopic)
  BY DEF CorpusPublishTopic, From, To
<1>10. WellFormed(CorpusDumpTxt)
  BY DEF CorpusDumpTxt
<1>11. WellFormed(CorpusDumpNlp)
  BY DEF CorpusDumpNlp, CorpusDumpTxt
<1> HIDE DEF WellFormed, Options, Command, CorpusDb, Setting
<1> QED
  BY <1>1, <1>2, <1>3, <1>4, <1>5, <1>6, <1>7, <1>8, <1>9, <1>10, <1>11 DEF CorpusUpToDump

LEMMA CorpusSubcommandsWellFormed ==
    \A name \in DOMAIN CorpusSubcommands : WellFormed(CorpusSubcommands[name])
<1> USE DEF WellFormed, Options, Command, CorpusDb, Setting
<1>1. WellFormed(CorpusEdit)
  BY DEF CorpusEdit
<1>2. WellFormed(CorpusIngestNlp)
  BY DEF CorpusIngestNlp, NlpScript
<1>3. WellFormed(CorpusIngestMeta)
  BY DEF CorpusIngestMeta
<1>4. WellFormed(CorpusPushTxt)
  BY DEF CorpusPushTxt
<1>5. WellFormed(CorpusLsLabel)
  BY DEF CorpusLsLabel
<1>6. WellFormed(CorpusSetLabel)
  BY DEF CorpusSetLabel
<1>7. WellFormed(CorpusLsTopic)
  BY DEF CorpusLsTopic
<1>8. WellFormed(CorpusShowTopic)
  BY DEF CorpusShowTopic
<1>9. WellFormed(CorpusIngestTopic)
  BY DEF CorpusIngestTopic
<1>10. WellFormed(CorpusDumpTopic)
  BY DEF CorpusDumpTopic
<1> HIDE DEF WellFormed, Options, Command, CorpusDb, Setting
<1> QED
  BY <1>1, <1>2, <1>3, <1>4, <1>5, <1>6, <1>7, <1>8, <1>9, <1>10, CorpusUpToDumpWellFormed
  DEF CorpusSubcommands

LEMMA LiveSubcommandsWellFormed ==
    \A name \in DOMAIN LiveSubcommands : WellFormed(LiveSubcommands[name])
<1> USE DEF WellFormed, Options, Command, LiveDb, DocPath, Setting
<1>1. WellFormed(LiveLs)
  BY DEF LiveLs
<1>2. WellFormed(LiveFind)
  BY DEF LiveFind, LiveQuery
<1>3. WellFormed(LiveInit)
  BY DEF LiveInit
<1>4. WellFormed(LiveShow)
  BY DEF LiveShow
<1>5. WellFormed(LiveUnpublish)
  BY DEF LiveUnpublish
<1>6. WellFormed(LiveQuery)
  BY DEF LiveQuery
<1>7. WellFormed(LiveLsTopic)
  BY DEF LiveLsTopic
<1>8. WellFormed(LiveShowTopic)
  BY DEF LiveShowTopic
<1>9. WellFormed(LiveFindTopics)
  BY DEF LiveFindTopics
<1>10. WellFormed(LiveShowSent)
  BY DEF LiveShowSent
<1>11. WellFormed(LiveUnpublishTopic)
  BY DEF LiveUnpublishTopic
<1>12. WellFormed(LiveDumpTopic)
  BY DEF LiveDumpTopic
<1> HIDE DEF WellFormed, Options, Command, LiveDb, DocPath, Setting
<1> QED
  BY <1>1, <1>2, <1>3, <1>4, <1>5, <1>6, <1>7, <1>8, <1>9, <1>10, <1>11, <1>12
  DEF LiveSubcommands
-----------------------------------------------------------------------------
(* What is read of the words up to the first argument                      *)

\* Words 1 .. k are options, and have a value in them or take none.
PlainUpTo(c, words, k) ==
    \A i \in 1 .. k :
        /\ words[i].kind = "flag"
        /\ words[i].is = <<>> => \E o \in c.bools : words[i].name \in o

\* They have been read: there is a use of --help or an error, or each is given.
Stopped(p) == p.mode \in {"help", "error"}
Given(g) == [mode |-> "options", at |-> {}, given |-> g, args |-> <<>>]
OptionValues == {Arg("true")} \cup {w.is[1] : w \in Vocabulary}
Means(e, w) == w.name \in e[1] /\ (w.is # <<>> => e[2] = w.is[1])
OptionsRead(c, words, k, g) ==
    /\ g \in Seq(Options(c) \X OptionValues) /\ Len(g) = k
    /\ \A i \in 1 .. k : Means(g[i], words[i])

\* One more such word.
LEMMA ReadPlain ==
    ASSUME NEW c, WellFormed(c), NEW w \in Vocabulary, w.kind = "flag",
           w.is = <<>> => \E o \in c.bools : w.name \in o, NEW g
    PROVE  \/ Stopped(ReadWord(c, Given(g), w))
           \/ \E e \in Options(c) \X OptionValues :
                ReadWord(c, Given(g), w) = Given(Append(g, e)) /\ Means(e, w)
<1> DEFINE known == {o \in Options(c) : w.name \in o}
           option == CHOOSE o \in known : TRUE
<1>1. ReadWord(c, Given(g), w) = ReadOption(c, Given(g), w)
  BY DEF ReadWord, Given
<1>2. CASE known = {}
  <2>1. ReadOption(c, Given(g), w)
          = IF w.name \in {"help", "h"} THEN [Given(g) EXCEPT !.mode = "help"] ELSE Fail(Given(g))
    BY <1>2 DEF ReadOption
  <2> QED
    BY <1>1, <2>1 DEF Fail, Stopped, Given
<1>3. CASE known # {}
  <2>1. option \in Options(c) /\ w.name \in option
    BY <1>3
  <2> HIDE DEF option
  <2>2. ASSUME NEW v \in OptionValues, w.is # <<>> => v = w.is[1]
        PROVE  \/ Stopped(Give(c, Given(g), option, v))
               \/ \E e \in Options(c) \X OptionValues :
                    Give(c, Given(g), option, v) = Given(Append(g, e)) /\ Means(e, w)
    <3>1. CASE Valid(c, option, v)
      <4>1. PICK e : e = <<option, v>>
        OBVIOUS
      <4>2. PICK h : h = Append(g, e)
        OBVIOUS
      <4>3. Given(g).given = g
        BY DEF Given
      <4>4. Give(c, Given(g), option, v) = [Given(g) EXCEPT !.mode = "options", !.given = h]
        BY <3>1, <4>1, <4>2, <4>3, Zenon DEF Give
      <4>5. [Given(g) EXCEPT !.mode = "options", !.given = h] = Given(h)
        <5>1. PICK none, empty : none = {} /\ empty = <<>>
          OBVIOUS
        <5>2. \A x : Given(x) = [mode |-> "options", at |-> none, given |-> x, args |-> empty]
          BY <5>1 DEF Given
        <5>3. [Given(g) EXCEPT !.mode = "options"] = Given(g)
          BY <5>2
        <5>4. [Given(g) EXCEPT !.given = h] = Given(h)
          BY <5>2
        <5> QED
          BY <5>3, <5>4
      <4>6. e \in Options(c) \X OptionValues /\ Means(e, w)
        BY <2>1, <2>2, <4>1 DEF Means
      <4> QED
        BY <4>2, <4>4, <4>5, <4>6, Zenon
    <3>2. CASE ~Valid(c, option, v)
      BY <3>2 DEF Give, Fail, Stopped, Given
    <3> QED
      BY <3>1, <3>2
  <2>3. CASE w.is # <<>>
    <3>1. ReadOption(c, Given(g), w) = Give(c, Given(g), option, Head(w.is))
      BY <1>3, <2>3 DEF ReadOption, option
    <3> QED
      BY <1>1, <2>2, <2>3, <3>1, SessionAssumption DEF OptionValues, IsWord, Arg, Flag, FlagIs, Stop
  <2>4. CASE w.is = <<>>
    <3>1. known \subseteq c.bools
      BY <2>4 DEF WellFormed, Options
    <3>2. ReadOption(c, Given(g), w) = Give(c, Given(g), option, Arg("true"))
      BY <1>3, <2>4, <3>1 DEF ReadOption, option
    <3> QED
      BY <1>1, <2>2, <2>4, <3>2 DEF OptionValues
  <2> QED
    BY <2>3, <2>4
<1> QED
  BY <1>2, <1>3
-----------------------------------------------------------------------------
(* Parse goes through the words one by one                                 *)

\* What has been read after each of the first n words.
ParsedUpTo(c, words, n, f) ==
    f = [i \in 0 .. n |-> IF i = 0 THEN NothingRead ELSE ReadWord(c, f[i - 1], words[i])]

\* The function that ParseFlags recurses with exists, and is what it says.
LEMMA ParseGoes ==
    ASSUME NEW c, NEW words, Len(words) \in Nat
    PROVE  \E f : ParsedUpTo(c, words, Len(words), f) /\ ParseFlags(c, words) = f[Len(words)]
<1> DEFINE S == {n \in 0 .. Len(words) : \E f : ParsedUpTo(c, words, n, f)}
           n == Len(words)
<1>1. n \in Nat
  OBVIOUS
<1>2. 0 \in S
  <2>1. ParsedUpTo(c, words, 0, [i \in 0 .. 0 |-> NothingRead])
    BY DEF ParsedUpTo
  <2> QED
    BY <1>1, <2>1
<1>3. ASSUME NEW k \in 0 .. n, k # n, k \in S
      PROVE  k + 1 \in S
  <2>1. PICK f : ParsedUpTo(c, words, k, f)
    BY <1>3
  <2> DEFINE g == [i \in 0 .. k + 1 |->
                    IF i = k + 1 THEN ReadWord(c, f[k], words[k + 1]) ELSE f[i]]
  <2>2. ASSUME NEW i \in 0 .. k + 1
        PROVE  g[i] = IF i = 0 THEN NothingRead ELSE ReadWord(c, g[i - 1], words[i])
    <3>1. CASE i = k + 1
      BY <1>1, <3>1
    <3>2. CASE i # k + 1
      <4>1. i \in 0 .. k /\ g[i] = f[i]
        BY <1>1, <3>2
      <4>2. i # 0 => i - 1 \in 0 .. k + 1 /\ i - 1 # k + 1
        BY <1>1, <4>1
      <4>3. i # 0 => g[i - 1] = f[i - 1]
        BY <4>2
      <4> HIDE DEF g
      <4> QED
        BY <2>1, <4>1, <4>3 DEF ParsedUpTo
    <3> QED
      BY <3>1, <3>2
  <2>3. g = [i \in 0 .. k + 1 |-> g[i]]
    OBVIOUS
  <2> HIDE DEF g
  <2>4. ParsedUpTo(c, words, k + 1, g)
    BY <2>2, <2>3 DEF ParsedUpTo
  <2> QED
    BY <1>1, <1>3, <2>4
<1> HIDE DEF S
<1>4. n \in S
  <2>1. \A i \in 0 .. n : i # n /\ i \in S => i + 1 \in S
    BY <1>3
  <2>2. 0 .. n \subseteq S
    BY <1>1, <1>2, <2>1, UpTo
  <2> QED
    BY <1>1, <2>2
<1>5. PICK f : ParsedUpTo(c, words, n, f)
  BY <1>4 DEF S
<1> DEFINE g == CHOOSE h : ParsedUpTo(c, words, n, h)
<1>6. ParsedUpTo(c, words, n, g)
  BY <1>5
<1>7. ParseFlags(c, words) = g[n]
  BY DEF ParseFlags, ParsedUpTo
<1> QED
  BY <1>6, <1>7

\* How it goes, word by word.
LEMMA ParseStep ==
    ASSUME NEW c, NEW words, NEW n \in Nat, NEW f, ParsedUpTo(c, words, n, f)
    PROVE  /\ f[0] = Given(<<>>)
           /\ \A i \in 0 .. n : i # n => f[i + 1] = ReadWord(c, f[i], words[i + 1])
<1>1. f[0] = NothingRead
  BY DEF ParsedUpTo
<1>2. ASSUME NEW i \in 0 .. n, i # n
      PROVE  f[i + 1] = ReadWord(c, f[i], words[i + 1])
  <2>1. i + 1 \in 0 .. n /\ i + 1 # 0 /\ i + 1 - 1 = i
    BY <1>2
  <2>2. \A j \in 0 .. n : j # 0 => f[j] = ReadWord(c, f[j - 1], words[j])
    BY DEF ParsedUpTo
  <2> QED
    BY <2>1, <2>2
<1> QED
  BY <1>1, <1>2 DEF NothingRead, Given
-----------------------------------------------------------------------------
(* What is parsed of a line                                                *)

\* The words that a subcommand may have to read.
Line == Vocabulary \cup {Help}

InLine(words, n) == \A i \in 1 .. n : words[i] \in Line

\* After --help, or an error, nothing more is read.
LEMMA StoppedStays ==
    ASSUME NEW c, NEW words, NEW n \in Nat, NEW f, ParsedUpTo(c, words, n, f),
           NEW k \in 0 .. n, Stopped(f[k])
    PROVE  Stopped(f[n])
<1> DEFINE S == {i \in 0 .. n : k <= i => Stopped(f[i])}
<1>1. 0 \in S
  OBVIOUS
<1>2. ASSUME NEW i \in 0 .. n, i # n, i \in S
      PROVE  i + 1 \in S
  <2>1. CASE k <= i
    <3>1. f[i + 1] = ReadWord(c, f[i], words[i + 1])
      BY <1>2, ParseStep
    <3>2. Stopped(f[i])
      BY <1>2, <2>1
    <3>3. ReadWord(c, f[i], words[i + 1]) = f[i]
      BY <3>2 DEF Stopped, ReadWord
    <3> QED
      BY <1>2, <3>1, <3>2, <3>3
  <2>2. CASE ~(k <= i)
    BY <1>2, <2>2
  <2> QED
    BY <2>1, <2>2
<1> HIDE DEF S
<1>3. 0 .. n \subseteq S
  BY <1>1, <1>2, UpTo
<1> QED
  BY <1>3 DEF S

\* The options before the first argument.
LEMMA LeadingRead ==
    ASSUME NEW c, WellFormed(c), NEW words, NEW n \in Nat, NEW f, ParsedUpTo(c, words, n, f),
           NEW k \in 0 .. n, PlainUpTo(c, words, k),
           \A i \in 1 .. k : words[i] \in Vocabulary
    PROVE  Stopped(f[k]) \/ \E g : f[k] = Given(g) /\ OptionsRead(c, words, k, g)
<1> DEFINE Read(i) == Stopped(f[i]) \/ \E g : f[i] = Given(g) /\ OptionsRead(c, words, i, g)
           S == {i \in 0 .. k : Read(i)}
<1>1. 0 \in S
  <2>1. f[0] = Given(<<>>)
    BY ParseStep
  <2>2. OptionsRead(c, words, 0, <<>>)
    BY DEF OptionsRead
  <2> QED
    BY <2>1, <2>2
<1>2. ASSUME NEW i \in 0 .. k, i # k, i \in S
      PROVE  i + 1 \in S
  <2>1. i \in 0 .. n /\ i # n /\ i + 1 \in 1 .. k /\ i + 1 \in 0 .. k
    BY <1>2
  <2>2. f[i + 1] = ReadWord(c, f[i], words[i + 1])
    BY <2>1, ParseStep
  <2>3. Read(i)
    BY <1>2
  <2>4. CASE Stopped(f[i])
    <3>1. ReadWord(c, f[i], words[i + 1]) = f[i]
      BY <2>4 DEF Stopped, ReadWord
    <3> QED
      BY <2>1, <2>2, <2>4, <3>1
  <2>5. CASE \E g : f[i] = Given(g) /\ OptionsRead(c, words, i, g)
    <3>1. PICK g : f[i] = Given(g) /\ OptionsRead(c, words, i, g)
      BY <2>5
    <3>2. PICK w \in Vocabulary : w = words[i + 1]
      BY <2>1
    <3>3. w.kind = "flag" /\ (w.is = <<>> => \E o \in c.bools : w.name \in o)
      BY <2>1, <3>2 DEF PlainUpTo
    <3>4. \/ Stopped(ReadWord(c, Given(g), w))
          \/ \E e \in Options(c) \X OptionValues :
                ReadWord(c, Given(g), w) = Given(Append(g, e)) /\ Means(e, w)
      BY <3>3, ReadPlain
    <3>5. ASSUME NEW e \in Options(c) \X OptionValues, Means(e, w)
          PROVE  OptionsRead(c, words, i + 1, Append(g, e))
      <4>1. PICK E : E = Options(c) \X OptionValues
        OBVIOUS
      <4>2. g \in Seq(E) /\ Len(g) = i /\ e \in E
        BY <3>1, <4>1 DEF OptionsRead
      <4>3. /\ Append(g, e) \in Seq(E) /\ Len(Append(g, e)) = i + 1
            /\ Append(g, e)[i + 1] = e
            /\ \A j \in 1 .. i : Append(g, e)[j] = g[j]
        BY <4>2, AppendProperties
      <4>4. \A j \in 1 .. i : Means(g[j], words[j])
        BY <3>1 DEF OptionsRead
      <4>5. \A j \in 1 .. i + 1 : j \in 1 .. i \/ j = i + 1
        BY <2>1
      <4>6. \A j \in 1 .. i + 1 : Means(Append(g, e)[j], words[j])
        BY <3>2, <3>5, <4>3, <4>4, <4>5
      <4> QED
        BY <4>1, <4>3, <4>6 DEF OptionsRead
    <3> QED
      BY <2>1, <2>2, <3>1, <3>2, <3>4, <3>5
  <2> QED
    BY <2>3, <2>4, <2>5
<1> HIDE DEF S
<1>3. 0 .. k \subseteq S
  BY <1>1, <1>2, UpTo
<1> QED
  BY <1>3 DEF S
-----------------------------------------------------------------------------
(* Arguments                                                               *)

\* Words m + 1 .. i, as arguments.
ArgsFrom(words, m, i) == [j \in 1 .. i - m |-> words[m + j]]
WithArgs(g, a) == [mode |-> "args", at |-> {}, given |-> g, args |-> a]

\* An argument more.
LEMMA OneArgMore ==
    ASSUME NEW words, NEW n \in Nat, InLine(words, n),
           NEW m \in 0 .. n, NEW i \in m .. n, i # n, NEW g
    PROVE  ReadArg(WithArgs(g, ArgsFrom(words, m, i)), words[i + 1])
             = WithArgs(g, ArgsFrom(words, m, i + 1))
<1> DEFINE a == ArgsFrom(words, m, i)
           b == ArgsFrom(words, m, i + 1)
<1>1. i - m \in Nat /\ i + 1 - m \in Nat /\ i + 1 - m = i - m + 1
  OBVIOUS
<1>2. a \in Seq(Line) /\ Len(a) = i - m /\ \A j \in 1 .. i - m : a[j] = words[m + j]
  <2>1. \A j \in 1 .. i - m : m + j \in 1 .. n
    OBVIOUS
  <2> QED
    BY <1>1, <2>1 DEF ArgsFrom, InLine
<1>3. b \in Seq(Line) /\ Len(b) = i + 1 - m /\ \A j \in 1 .. i + 1 - m : b[j] = words[m + j]
  <2>1. \A j \in 1 .. i + 1 - m : m + j \in 1 .. n
    OBVIOUS
  <2> QED
    BY <1>1, <2>1 DEF ArgsFrom, InLine
<1>4. words[i + 1] \in Line
  BY DEF InLine
<1> HIDE DEF a, b
<1>5. Append(a, words[i + 1]) = b
  <2>1. /\ Append(a, words[i + 1]) \in Seq(Line)
        /\ Len(Append(a, words[i + 1])) = i - m + 1
        /\ Append(a, words[i + 1])[i - m + 1] = words[i + 1]
        /\ \A j \in 1 .. i - m : Append(a, words[i + 1])[j] = a[j]
    BY <1>2, <1>4, AppendProperties
  <2>2. \A j \in 1 .. i - m + 1 : j \in 1 .. i - m \/ j = i - m + 1
    BY <1>1
  <2>3. m + (i - m + 1) = i + 1
    OBVIOUS
  <2>4. \A j \in 1 .. i - m + 1 : Append(a, words[i + 1])[j] = b[j]
    BY <1>1, <1>2, <1>3, <2>1, <2>2, <2>3
  <2> QED
    BY <1>1, <1>3, <2>1, <2>4, SeqEqual
<1>6. WithArgs(g, a).args = a
  BY DEF WithArgs
<1>7. PICK d : d = Append(a, words[i + 1])
  OBVIOUS
<1>8. ReadArg(WithArgs(g, a), words[i + 1]) = [WithArgs(g, a) EXCEPT !.mode = "args", !.args = d]
  BY <1>6, <1>7, Zenon DEF ReadArg
<1>9. [WithArgs(g, a) EXCEPT !.mode = "args", !.args = d] = WithArgs(g, d)
  <2>1. PICK none : none = {}
    OBVIOUS
  <2>2. \A x : WithArgs(g, x) = [mode |-> "args", at |-> none, given |-> g, args |-> x]
    BY <2>1 DEF WithArgs
  <2>3. [WithArgs(g, a) EXCEPT !.mode = "args"] = WithArgs(g, a)
    BY <2>2
  <2>4. [WithArgs(g, a) EXCEPT !.args = d] = WithArgs(g, d)
    BY <2>2
  <2> QED
    BY <2>3, <2>4
<1> QED
  BY <1>5, <1>7, <1>8, <1>9 DEF a, b

\* From the first argument on, or from the word after --, every word is an argument.
LEMMA ArgsFollow ==
    ASSUME NEW c, NEW words, NEW n \in Nat, NEW f, ParsedUpTo(c, words, n, f),
           InLine(words, n)
    PROVE  \A k \in 0 .. n : \A g :
              k # n /\ f[k] = Given(g) =>
                 /\ words[k + 1].kind = "arg" => f[n] = WithArgs(g, ArgsFrom(words, k, n))
                 /\ words[k + 1].kind = "stop" =>
                        f[n] = WithArgs(g, ArgsFrom(words, k + 1, n))
<1> SUFFICES ASSUME NEW k \in 0 .. n, NEW g, k # n, f[k] = Given(g),
                    NEW m \in 0 .. n,
                    \/ words[k + 1].kind = "arg" /\ m = k
                    \/ words[k + 1].kind = "stop" /\ m = k + 1
             PROVE  f[n] = WithArgs(g, ArgsFrom(words, m, n))
  <2>1. \A k \in 0 .. n : k # n => k + 1 \in 0 .. n
    OBVIOUS
  <2> QED
    BY <2>1
<1> DEFINE S == {i \in 0 .. n : k + 1 <= i => f[i] = WithArgs(g, ArgsFrom(words, m, i))}
<1>1. 0 \in S
  OBVIOUS
<1>2. f[k + 1] = ReadWord(c, Given(g), words[k + 1])
  <2>1. \A i \in 0 .. n : i # n => f[i + 1] = ReadWord(c, f[i], words[i + 1])
    BY ParseStep
  <2> QED
    BY <2>1
<1>3. PICK none, empty : none = {} /\ empty = <<>>
  OBVIOUS
<1>4. /\ \A x : Given(x) = [mode |-> "options", at |-> none, given |-> x, args |-> empty]
      /\ \A x, y : WithArgs(x, y) = [mode |-> "args", at |-> none, given |-> x, args |-> y]
  BY <1>3 DEF Given, WithArgs
<1>5. [Given(g) EXCEPT !.mode = "args"] = WithArgs(g, empty)
  BY <1>4
<1>6. \A i \in 0 .. n : ArgsFrom(words, i, i) = empty
  <2> SUFFICES ASSUME NEW i \in 0 .. n PROVE ArgsFrom(words, i, i) = <<>>
    BY <1>3
  <2>1. 1 .. i - i = {}
    OBVIOUS
  <2> QED
    BY <2>1 DEF ArgsFrom
<1>7. f[k + 1] = WithArgs(g, ArgsFrom(words, m, k + 1))
  <2>1. CASE words[k + 1].kind = "arg" /\ m = k
    <3>1. ReadWord(c, Given(g), words[k + 1]) = ReadArg(Given(g), words[k + 1])
      BY <2>1 DEF ReadWord, Given
    <3>2. ReadArg(Given(g), words[k + 1]) = ReadArg(WithArgs(g, empty), words[k + 1])
      <4>1. PICK d : d = Append(empty, words[k + 1])
        OBVIOUS
      <4>2. ReadArg(Given(g), words[k + 1]) = [Given(g) EXCEPT !.mode = "args", !.args = d]
        BY <1>4, <4>1 DEF ReadArg
      <4>3. ReadArg(WithArgs(g, empty), words[k + 1])
              = [WithArgs(g, empty) EXCEPT !.mode = "args", !.args = d]
        BY <1>4, <4>1 DEF ReadArg
      <4>4. [WithArgs(g, empty) EXCEPT !.mode = "args"] = WithArgs(g, empty)
        BY <1>4
      <4> QED
        BY <1>5, <4>2, <4>3, <4>4
    <3>3. k \in m .. n
      BY <2>1
    <3>4. ReadArg(WithArgs(g, ArgsFrom(words, m, k)), words[k + 1])
            = WithArgs(g, ArgsFrom(words, m, k + 1))
      BY <3>3, OneArgMore
    <3> QED
      BY <1>2, <1>6, <2>1, <3>1, <3>2, <3>4
  <2>2. CASE words[k + 1].kind = "stop" /\ m = k + 1
    <3>1. ReadWord(c, Given(g), words[k + 1]) = [Given(g) EXCEPT !.mode = "args"]
      BY <2>2 DEF ReadWord, Given
    <3> QED
      BY <1>2, <1>5, <1>6, <2>2, <3>1
  <2> QED
    BY <2>1, <2>2
<1>8. ASSUME NEW i \in 0 .. n, i # n, i \in S
      PROVE  i + 1 \in S
  <2>1. CASE k + 1 <= i
    <3>1. f[i + 1] = ReadWord(c, f[i], words[i + 1])
      BY <1>8, ParseStep
    <3>2. f[i] = WithArgs(g, ArgsFrom(words, m, i))
      BY <1>8, <2>1
    <3>3. ReadWord(c, f[i], words[i + 1]) = ReadArg(f[i], words[i + 1])
      BY <3>2 DEF ReadWord, WithArgs
    <3>4. i \in m .. n
      BY <2>1
    <3>5. ReadArg(f[i], words[i + 1]) = WithArgs(g, ArgsFrom(words, m, i + 1))
      BY <1>8, <3>2, <3>4, OneArgMore
    <3> QED
      BY <1>8, <3>1, <3>3, <3>5
  <2>2. CASE i = k
    BY <1>7, <1>8, <2>2
  <2>3. CASE i < k
    BY <1>8, <2>3
  <2> QED
    BY <2>1, <2>2, <2>3
<1> HIDE DEF S
<1>9. 0 .. n \subseteq S
  BY <1>1, <1>8, UpTo
<1> QED
  BY <1>9 DEF S

\* What the parser ends with when word k + 1 is the first argument.
ReadsOn(p, words, n, k, g) ==
    /\ k = n => p = Given(g)
    /\ k # n /\ words[k + 1].kind = "arg" => p = WithArgs(g, ArgsFrom(words, k, n))
    /\ k # n /\ words[k + 1].kind = "stop" => p = WithArgs(g, ArgsFrom(words, k + 1, n))
    /\ k # n => words[k + 1] # Help

LEMMA ReadRest ==
    ASSUME NEW c, WellFormed(c), NEW words, NEW n \in Nat, NEW f, ParsedUpTo(c, words, n, f),
           InLine(words, n), NEW k \in 0 .. n, NEW g, f[k] = Given(g)
    PROVE  Stopped(f[n]) \/ ReadsOn(f[n], words, n, k, g)
<1>1. CASE k = n
  BY <1>1 DEF ReadsOn
<1>2. CASE k # n /\ words[k + 1] = Help
  <2>1. f[k + 1] = ReadWord(c, Given(g), Help) /\ k + 1 \in 0 .. n
    <3>1. \A i \in 0 .. n : i # n => f[i + 1] = ReadWord(c, f[i], words[i + 1])
      BY ParseStep
    <3> QED
      BY <1>2, <3>1
  <2>2. ReadWord(c, Given(g), Help) = ReadOption(c, Given(g), Help)
    BY DEF ReadWord, Given, Help, Flag
  <2>3. Help.name = "help" /\ {o \in Options(c) : Help.name \in o} = {}
    BY DEF WellFormed, Help, Flag
  <2>4. ReadOption(c, Given(g), Help) = [Given(g) EXCEPT !.mode = "help"]
    BY <2>3 DEF ReadOption
  <2>5. Stopped(f[k + 1])
    BY <2>1, <2>2, <2>4 DEF Stopped, Given
  <2> QED
    BY <2>1, <2>5, StoppedStays
<1>3. CASE k # n /\ words[k + 1] # Help
  <2>1. k # n
    BY <1>3
  <2>2. /\ words[k + 1].kind = "arg" => f[n] = WithArgs(g, ArgsFrom(words, k, n))
        /\ words[k + 1].kind = "stop" => f[n] = WithArgs(g, ArgsFrom(words, k + 1, n))
    <3>1. \A j \in 0 .. n : \A x :
             j # n /\ f[j] = Given(x) =>
                /\ words[j + 1].kind = "arg" => f[n] = WithArgs(x, ArgsFrom(words, j, n))
                /\ words[j + 1].kind = "stop" =>
                       f[n] = WithArgs(x, ArgsFrom(words, j + 1, n))
      BY ArgsFollow
    <3> QED
      BY <2>1, <3>1
  <2> QED
    BY <1>3, <2>2 DEF ReadsOn
<1> QED
  BY <1>1, <1>2, <1>3

\* What is read of a line that starts with k options.
LEMMA ParsePlain ==
    ASSUME NEW c, WellFormed(c), NEW words \in Seq(Line),
           NEW k \in 0 .. Len(words), PlainUpTo(c, words, k),
           \A i \in 1 .. k : words[i] \in Vocabulary
    PROVE  \/ Stopped(ParseFlags(c, words))
           \/ \E g : /\ OptionsRead(c, words, k, g)
                     /\ ReadsOn(ParseFlags(c, words), words, Len(words), k, g)
<1> DEFINE n == Len(words)
<1>1. n \in Nat /\ InLine(words, n)
  BY DEF InLine
<1> HIDE DEF n
<1>2. PICK f : ParsedUpTo(c, words, n, f) /\ ParseFlags(c, words) = f[n]
  BY <1>1, ParseGoes DEF n
<1>3. k \in 0 .. n
  BY DEF n
<1>4. CASE Stopped(f[k])
  BY <1>1, <1>2, <1>3, <1>4, StoppedStays
<1>5. CASE \E g : f[k] = Given(g) /\ OptionsRead(c, words, k, g)
  <2>1. PICK g : f[k] = Given(g) /\ OptionsRead(c, words, k, g)
    BY <1>5
  <2>2. Stopped(f[n]) \/ ReadsOn(f[n], words, n, k, g)
    BY <1>1, <1>2, <1>3, <2>1, ReadRest
  <2> QED
    BY <1>2, <2>1, <2>2 DEF n
<1> QED
  BY <1>1, <1>2, <1>3, <1>4, <1>5, LeadingRead
-----------------------------------------------------------------------------
(* From the line to the subcommand                                         *)

\* The first words, up to the first that is no option.
LEMMA LeadingIs ==
    ASSUME NEW S, NEW words \in Seq(S)
    PROVE  \E k \in 0 .. Len(words) :
              /\ \A i \in 1 .. k : words[i].kind = "flag"
              /\ k # Len(words) => words[k + 1].kind # "flag"
              /\ DOMAIN Leading(words) = 1 .. k
              /\ k = Len(words) <=> Leading(words) = words
<1> DEFINE arguments == {i \in DOMAIN words : words[i].kind # "flag"}
<1>1. Len(words) \in Nat /\ DOMAIN words = 1 .. Len(words)
  BY LenProperties
<1>2. CASE arguments = {}
  <2>1. Leading(words) = words
    BY <1>2 DEF Leading
  <2>2. Len(words) \in 0 .. Len(words)
    BY <1>1
  <2> QED
    BY <1>1, <1>2, <2>1, <2>2
<1>3. CASE arguments # {}
  <2>1. PICK m \in arguments : \A i \in arguments : m <= i
    <3>1. arguments \in SUBSET Nat
      BY <1>1
    <3>2. PICK m \in arguments : \A i \in arguments : ~(<<i, m>> \in OpToRel(<, Nat))
      <4> HIDE DEF arguments
      <4> QED
        BY <1>3, <3>1, NatLessThanWellFounded, WFMin
    <3>3. \A i \in arguments : i \in Nat /\ m \in Nat /\ ~(i < m)
      BY <3>1, <3>2 DEF OpToRel
    <3>4. \A i \in arguments : m <= i
      BY <3>3
    <3> QED
      BY <3>4
  <2>2. m \in 1 .. Len(words) /\ words[m].kind # "flag"
    BY <1>1
  <2>3. PICK least \in arguments : least = Min(arguments) /\ \A i \in arguments : least <= i
    BY <2>1 DEF Min
  <2>4. least = m
    <3>1. least <= m /\ m <= least
      BY <2>1, <2>3
    <3>2. least \in Nat /\ m \in Nat
      BY <1>1
    <3> QED
      BY <3>1, <3>2
  <2>5. Leading(words) = SubSeq(words, 1, m - 1)
    BY <1>3, <2>3, <2>4 DEF Leading
  <2>6. m - 1 \in 0 .. Len(words) /\ m - 1 # Len(words) /\ m - 1 + 1 = m /\ m - 1 \in Int
    BY <1>1, <2>2
  <2>7. \A i \in 1 .. m - 1 : words[i] \in S
    BY <1>1, <2>2, ElementOfSeq
  <2>8. Leading(words) \in Seq(S) /\ Len(Leading(words)) = m - 1
    BY <1>1, <2>2, <2>5, <2>6, <2>7, SubSeqProperties
  <2>9. DOMAIN Leading(words) = 1 .. m - 1 /\ Leading(words) # words
    BY <2>6, <2>8
  <2>10. \A i \in 1 .. m - 1 : i \in DOMAIN words /\ ~(m <= i)
    BY <1>1, <2>2
  <2>11. \A i \in 1 .. m - 1 : words[i].kind = "flag"
    BY <2>1, <2>10
  <2> QED
    BY <2>2, <2>6, <2>9, <2>11
<1> QED
  BY <1>2, <1>3

\* The words that the subcommand of a line has to read.
Asked(line) ==
    IF Head(line) = Arg("help") THEN Append(Words(Spoken(line)), Help) ELSE Words(line)

\* Those from the third on.
LEMMA WordsAre ==
    ASSUME NEW S, NEW line \in Seq(S), Len(line) > 1
    PROVE  /\ Words(line) \in Seq(S) /\ Words(line) = Tail(Tail(line))
           /\ Len(Words(line)) = Len(line) - 2
           /\ \A i \in 1 .. Len(line) - 2 : Words(line)[i] = line[i + 2]
<1>1. Len(line) \in Nat /\ 3 \in Int /\ Len(line) \in Int /\ line # <<>>
  BY EmptySeq
<1>2. \A i \in 3 .. Len(line) : line[i] \in S
  BY <1>1, ElementOfSeq
<1>3. /\ Words(line) \in Seq(S)
      /\ Len(Words(line)) = IF 3 <= Len(line) THEN Len(line) - 3 + 1 ELSE 0
      /\ \A i \in 1 .. Len(line) - 3 + 1 : Words(line)[i] = line[3 + i - 1]
  BY <1>1, <1>2, SubSeqProperties DEF Words
<1>4. Len(Words(line)) = Len(line) - 2
  <2>1. \A l \in Nat : l > 1 => (IF 3 <= l THEN l - 3 + 1 ELSE 0) = l - 2
    OBVIOUS
  <2> QED
    BY <1>1, <1>3, <2>1
<1>5. \A i \in 1 .. Len(line) - 2 : i \in 1 .. Len(line) - 3 + 1 /\ 3 + i - 1 = i + 2
  BY <1>1
<1>6. \A i \in 1 .. Len(line) - 2 : Words(line)[i] = line[i + 2]
  BY <1>3, <1>5
<1>7. /\ Tail(line) \in Seq(S) /\ Len(Tail(line)) = Len(line) - 1
      /\ \A i \in 1 .. Len(line) - 1 : Tail(line)[i] = line[i + 1]
  BY <1>1, HeadTailProperties
<1>8. Tail(line) # <<>>
  <2>1. Len(Tail(line)) # 0
    BY <1>1, <1>7
  <2> QED
    BY <2>1, EmptySeq
<1>9. /\ Tail(Tail(line)) \in Seq(S) /\ Len(Tail(Tail(line))) = Len(line) - 2
      /\ \A i \in 1 .. Len(line) - 2 : Tail(Tail(line))[i] = Tail(line)[i + 1]
  BY <1>1, <1>7, <1>8, HeadTailProperties
<1>10. \A i \in 1 .. Len(line) - 2 : Tail(Tail(line))[i] = line[i + 2]
  BY <1>1, <1>7, <1>9
<1>11. Words(line) = Tail(Tail(line))
  BY <1>3, <1>4, <1>6, <1>9, <1>10, SeqEqual
<1> QED
  BY <1>3, <1>4, <1>6, <1>11

\* A command and what follows help.
LEMMA HelpOfOne ==
    ASSUME NEW line \in Seq(Vocabulary), Len(line) > 1, line[1] = Arg("help"),
           line[2] # Arg("help")
    PROVE  HelpOf(line) = Append(Tail(line), Help)
<1> DEFINE helps == {i \in DOMAIN line : \A j \in 1 .. i : line[j] = Arg("help")}
           n == Cardinality(helps)
<1>1. Len(line) \in Nat /\ DOMAIN line = 1 .. Len(line)
  BY LenProperties
<1>2. helps = {1}
  <2>1. 1 \in helps
    BY <1>1
  <2>2. ASSUME NEW i \in helps
        PROVE  i = 1
    <3>1. 2 \notin 1 .. i
      OBVIOUS
    <3> QED
      BY <1>1, <3>1
  <2> QED
    BY <2>1, <2>2
<1>3. n = 1
  BY <1>2, FS_Singleton
<1>4. HelpOf(line) = SubSeq(line, n + 1, Len(line)) \o [i \in 1 .. n |-> Help]
  BY DEF HelpOf
<1> HIDE DEF helps, n
<1>5. SubSeq(line, 2, Len(line)) = Tail(line)
  BY <1>1, TailIsSubSeq
<1>6. [i \in 1 .. 1 |-> Help] = <<Help>>
  OBVIOUS
<1>7. Tail(line) \in Seq(Line) /\ Help \in Line
  <2>1. line # <<>>
    BY <1>1
  <2>2. Tail(line) \in Seq(Vocabulary)
    BY <2>1, HeadTailProperties
  <2> QED
    BY <2>2 DEF Line
<1>8. Tail(line) \o <<Help>> = Append(Tail(line), Help)
  BY <1>7, AppendIsConcat
<1>9. HelpOf(line) = SubSeq(line, 2, Len(line)) \o [i \in 1 .. 1 |-> Help]
  BY <1>3, <1>4
<1> QED
  BY <1>5, <1>6, <1>8, <1>9

\* A subcommand has two words, and options of its own.
LEMMA SubcommandIs ==
    ASSUME NEW line \in Seq(Vocabulary), IsSubcommand(line)
    PROVE  /\ Len(line) > 1 /\ line[1] \in {Arg("corpus"), Arg("live")}
           /\ line[2].kind = "arg" /\ line[2].name \in DOMAIN Groups[line[1].name]
           /\ line[1] # Arg("help")
           /\ WellFormed(Subcommand(line))
<1>1. Len(line) \in Nat /\ Len(line) > 1
  BY DEF IsSubcommand
<1>2. line[1] \in Vocabulary
  BY <1>1, ElementOfSeq
<1>3. line[1].kind = "arg" /\ line[1].name \in {"corpus", "live"}
  BY DEF IsSubcommand, Groups
<1>4. line[1] = Arg(line[1].name)
  BY <1>2, <1>3, SessionAssumption DEF IsWord, Arg, Flag, FlagIs, Stop
<1>5. line[1] \in {Arg("corpus"), Arg("live")}
  BY <1>3, <1>4
<1>6. line[1] # Arg("help")
  BY <1>5 DEF Arg
<1>7. line[2].kind = "arg" /\ line[2].name \in DOMAIN Groups[line[1].name]
  BY DEF IsSubcommand
<1>8. Groups["corpus"] = CorpusSubcommands /\ Groups["live"] = LiveSubcommands
  BY DEF Groups
<1>9. WellFormed(Groups[line[1].name][line[2].name])
  BY <1>3, <1>7, <1>8, CorpusSubcommandsWellFormed, LiveSubcommandsWellFormed
<1> QED
  BY <1>1, <1>5, <1>6, <1>7, <1>9 DEF Subcommand

\* The group hands the rest of the line on to its subcommand.
LEMMA CommandIs ==
    ASSUME NEW line \in Seq(Vocabulary), IsSubcommand(line), NEW e,
           NEW cmd, Head(cmd) = line[1], NEW tail, Tail(cmd) = tail, tail # <<>>,
           Head(tail) = line[2], NEW asked, Tail(tail) = asked
    PROVE  RunCommand(cmd, e) = RunSubcommand(line[2].name, Subcommand(line), asked, e)
<1>1. /\ line[1] \in {Arg("corpus"), Arg("live")}
      /\ line[2].kind = "arg" /\ line[2].name \in DOMAIN Groups[line[1].name]
  BY SubcommandIs
<1>2. /\ Arg("corpus") \notin {Arg("version"), Arg("env"), Arg("bash"), Arg("complete")}
      /\ Arg("live") \notin {Arg("version"), Arg("env"), Arg("bash"), Arg("complete")}
      /\ Arg("corpus") # Arg("live") /\ Arg("corpus").name = "corpus" /\ Arg("live").name = "live"
  BY DEF Arg
<1>3. RunCommand(cmd, e) = RunGroup(Groups[line[1].name], tail, e)
  <2>1. Groups["corpus"] = CorpusSubcommands /\ Groups["live"] = LiveSubcommands
    BY DEF Groups
  <2>2. CASE line[1] = Arg("corpus")
    <3>1. RunCommand(cmd, e) = RunGroup(CorpusSubcommands, Tail(cmd), e)
      BY <1>2, <2>2 DEF RunCommand
    <3> QED
      BY <1>2, <2>1, <2>2, <3>1
  <2>3. CASE line[1] = Arg("live")
    <3>1. RunCommand(cmd, e) = RunGroup(LiveSubcommands, Tail(cmd), e)
      BY <1>2, <2>3 DEF RunCommand
    <3> QED
      BY <1>2, <2>1, <2>3, <3>1
  <2> QED
    BY <1>1, <2>2, <2>3
<1>4. line[2] \notin {Help, Flag("h")}
  BY <1>1 DEF Help, Flag
<1> DEFINE subs == Groups[line[1].name]
<1> HIDE DEF subs
<1>5. line[2].name \in DOMAIN subs
  BY <1>1 DEF subs
<1>6. RunGroup(subs, tail, e) = RunSubcommand(line[2].name, subs[line[2].name], Tail(tail), e)
  BY <1>1, <1>4, <1>5 DEF RunGroup
<1> QED
  BY <1>3, <1>6 DEF subs, Subcommand

\* What a line with a subcommand does, with help in front or without.
LEMMA RunIs ==
    ASSUME NEW line \in Seq(Vocabulary), NEW e, IsSubcommand(Spoken(line))
    PROVE  Run(line, e) = RunSubcommand(Spoken(line)[2].name, Subcommand(Spoken(line)),
                                        Asked(line), e)
<1> DEFINE n == Len(line)
           rest == Spoken(line)
<1>1. n \in Nat /\ line # <<>> /\ n # 0
  <2>1. CASE line = <<>>
    <3>1. Spoken(line) = <<>>
      BY <2>1 DEF Spoken
    <3> QED
      BY <3>1 DEF IsSubcommand
  <2> QED
    BY <2>1
<1>2. Head(line) = line[1] /\ InLine(line, n)
  BY <1>1 DEF Line, InLine
<1>3. /\ rest \in Seq(Vocabulary)
      /\ rest = IF line[1] = Arg("help") THEN Tail(line) ELSE line
  BY <1>1, <1>2, HeadTailProperties DEF Spoken
<1>4. /\ Len(rest) > 1 /\ Len(rest) \in Nat
      /\ rest[1] \in {Arg("corpus"), Arg("live")} /\ rest[1] # Arg("help")
  <2>1. IsSubcommand(rest)
    OBVIOUS
  <2> HIDE DEF rest
  <2>2. rest \in Seq(Vocabulary)
    BY <1>3
  <2>3. Len(rest) \in Nat
    BY <2>2
  <2> QED
    BY <2>1, <2>2, <2>3, SubcommandIs
<1>5. line[1].kind = "arg" /\ n > 1
  <2>1. CASE line[1] = Arg("help")
    <3>1. Len(rest) = n - 1
      BY <1>1, <1>3, <2>1, HeadTailProperties
    <3> QED
      BY <1>1, <1>4, <2>1, <3>1 DEF Arg
  <2>2. CASE line[1] # Arg("help")
    BY <1>3, <1>4, <2>2 DEF Arg
  <2> QED
    BY <2>1, <2>2
<1> HIDE DEF n, rest
<1>6. ParseFlags(NoCommand, line) = WithArgs(<<>>, line)
  <2>1. PICK f : ParsedUpTo(NoCommand, line, n, f) /\ ParseFlags(NoCommand, line) = f[n]
    BY <1>1, ParseGoes DEF n
  <2>2. f[0] = Given(<<>>)
    BY <1>1, <2>1, ParseStep
  <2>3. 0 \in 0 .. n /\ 0 # n /\ line[0 + 1].kind = "arg"
    BY <1>1, <1>5
  <2>4. f[n] = WithArgs(<<>>, ArgsFrom(line, 0, n))
    <3>1. \A j \in 0 .. n : \A x :
             j # n /\ f[j] = Given(x) /\ line[j + 1].kind = "arg" =>
                f[n] = WithArgs(x, ArgsFrom(line, j, n))
      BY <1>1, <1>2, <2>1, ArgsFollow
    <3> QED
      BY <2>2, <2>3, <3>1
  <2>5. ArgsFrom(line, 0, n) = line
    <3>1. line = [i \in 1 .. n |-> line[i]]
      BY DEF n
    <3>2. \A i \in 1 .. n : 0 + i = i
      OBVIOUS
    <3>3. n - 0 = n
      BY <1>1
    <3>4. ArgsFrom(line, 0, n) = [i \in 1 .. n |-> line[i]]
      BY <3>2, <3>3 DEF ArgsFrom
    <3> QED
      BY <3>1, <3>4
  <2> QED
    BY <2>1, <2>4, <2>5
<1>7. Run(line, e) = RunCommand(IF line[1] = Arg("help") THEN HelpOf(line) ELSE line, e)
  <2>1. line # <<Arg("help")>>
    <3>1. Len(<<Arg("help")>>) = 1
      OBVIOUS
    <3> QED
      BY <1>5, <3>1 DEF n
  <2>2. /\ ParseFlags(NoCommand, line).mode = "args"
        /\ ParseFlags(NoCommand, line).args = line
    BY <1>6 DEF WithArgs
  <2> QED
    BY <1>1, <1>2, <2>1, <2>2 DEF Run
<1>8. CASE line[1] = Arg("help")
  <2>1. line[2] # Arg("help")
    <3>1. rest[1] = line[2]
      <4>1. \A i \in 1 .. Len(Tail(line)) : Tail(line)[i] = line[i + 1]
        BY <1>1, HeadTailProperties
      <4>2. 1 \in 1 .. Len(Tail(line))
        BY <1>3, <1>4, <1>8
      <4> QED
        BY <1>3, <1>8, <4>1, <4>2
    <3> QED
      BY <1>4, <3>1
  <2>2. HelpOf(line) = Append(rest, Help)
    <3>1. Len(line) > 1
      BY <1>5 DEF n
    <3>2. HelpOf(line) = Append(Tail(line), Help)
      BY <1>8, <2>1, <3>1, HelpOfOne
    <3> QED
      BY <1>3, <1>8, <3>2
  <2>3. rest \in Seq(Vocabulary) /\ rest # <<>> /\ Head(rest) = rest[1]
    <3>1. rest \in Seq(Vocabulary) /\ Len(rest) # 0
      BY <1>3, <1>4
    <3> QED
      BY <3>1, EmptySeq
  <2>4. Head(Append(rest, Help)) = rest[1] /\ Tail(Append(rest, Help)) = Append(Tail(rest), Help)
    <3>1. /\ Head(Append(rest, Help)) = IF rest = <<>> THEN Help ELSE Head(rest)
          /\ Tail(Append(rest, Help)) = IF rest = <<>> THEN <<>> ELSE Append(Tail(rest), Help)
      BY <2>3, HeadTailAppend, SMTT(30)
    <3> QED
      BY <2>3, <3>1
  <2>5. Tail(rest) \in Seq(Vocabulary) /\ Tail(rest) # <<>> /\ Head(Tail(rest)) = rest[2]
    <3>1. /\ Tail(rest) \in Seq(Vocabulary) /\ Len(Tail(rest)) = Len(rest) - 1
          /\ \A i \in 1 .. Len(Tail(rest)) : Tail(rest)[i] = rest[i + 1]
      BY <1>3, <2>3, HeadTailProperties
    <3>2. Len(Tail(rest)) # 0 /\ 1 \in 1 .. Len(Tail(rest)) /\ 1 + 1 = 2
      BY <1>4, <3>1
    <3>3. Tail(rest) # <<>> /\ Tail(rest)[1] = rest[2]
      BY <3>1, <3>2, EmptySeq
    <3> QED
      BY <3>1, <3>3
  <2>6. /\ Append(Tail(rest), Help) # <<>> /\ Head(Append(Tail(rest), Help)) = rest[2]
        /\ Tail(Append(Tail(rest), Help)) = Append(Tail(Tail(rest)), Help)
    <3>1. Tail(rest) \in Seq(Line) /\ Help \in Line
      BY <2>5 DEF Line
    <3>2. Append(Tail(rest), Help) # <<>>
      BY <3>1, AppendProperties
    <3> QED
      BY <2>5, <3>2, HeadTailAppend
  <2>7. Asked(line) = Append(Tail(Tail(rest)), Help)
    <3>1. Words(rest) = Tail(Tail(rest))
      BY <1>3, <1>4, WordsAre
    <3> QED
      BY <1>2, <1>8, <3>1 DEF Asked, rest
  <2>8. RunCommand(Append(rest, Help), e)
          = RunSubcommand(rest[2].name, Subcommand(rest), Asked(line), e)
    <3>1. IsSubcommand(rest) /\ rest \in Seq(Vocabulary)
      BY <1>3 DEF rest
    <3>2. PICK cmd : cmd = Append(rest, Help)
      OBVIOUS
    <3>3. PICK tail : tail = Append(Tail(rest), Help)
      OBVIOUS
    <3>4. PICK asked : asked = Asked(line)
      OBVIOUS
    <3>5. Head(cmd) = rest[1] /\ Tail(cmd) = tail
      BY <2>4, <3>2, <3>3, Zenon
    <3>6. tail # <<>> /\ Head(tail) = rest[2] /\ Tail(tail) = asked
      BY <2>6, <2>7, <3>3, <3>4, Zenon
    <3>7. RunCommand(cmd, e) = RunSubcommand(rest[2].name, Subcommand(rest), asked, e)
      BY <3>1, <3>5, <3>6, CommandIs
    <3> QED
      BY <3>2, <3>4, <3>7
  <2> QED
    BY <1>7, <1>8, <2>2, <2>8 DEF rest
<1>9. CASE line[1] # Arg("help")
  <2>1. rest = line /\ IsSubcommand(line)
    BY <1>3, <1>9 DEF rest
  <2>2. /\ Tail(line) \in Seq(Vocabulary) /\ Len(Tail(line)) = Len(line) - 1
        /\ \A i \in 1 .. Len(Tail(line)) : Tail(line)[i] = line[i + 1]
    BY <1>1, HeadTailProperties
  <2>3. Len(Tail(line)) # 0 /\ 1 \in 1 .. Len(Tail(line)) /\ 1 + 1 = 2
    BY <1>4, <2>1, <2>2
  <2>4. Tail(line) # <<>> /\ Tail(line)[1] = line[2]
    BY <2>2, <2>3, EmptySeq
  <2>5. Tail(line) # <<>> /\ Head(Tail(line)) = line[2]
    BY <2>2, <2>4
  <2>6. Asked(line) = Tail(Tail(line))
    <3>1. Words(line) = Tail(Tail(line))
      BY <1>4, <2>1, WordsAre
    <3> QED
      BY <1>2, <1>9, <3>1 DEF Asked
  <2>7. RunCommand(line, e) = RunSubcommand(line[2].name, Subcommand(line), Asked(line), e)
    <3>1. PICK tail : tail = Tail(line)
      OBVIOUS
    <3>2. PICK asked : asked = Asked(line)
      OBVIOUS
    <3>3. tail # <<>> /\ Head(tail) = line[2] /\ Tail(tail) = asked /\ Tail(line) = tail
      BY <2>5, <2>6, <3>1, <3>2, Zenon
    <3>4. RunCommand(line, e) = RunSubcommand(line[2].name, Subcommand(line), asked, e)
      BY <1>2, <2>1, <3>3, CommandIs
    <3> QED
      BY <3>2, <3>4
  <2> QED
    BY <1>7, <1>9, <2>1, <2>7 DEF rest
<1> QED
  BY <1>8, <1>9
-----------------------------------------------------------------------------
(* Help                                                                    *)

\* The subcommand that is asked, and what it has to read.
LEMMA AskedIs ==
    ASSUME NEW line \in Seq(Vocabulary), IsSubcommand(Spoken(line))
    PROVE  LET words == Words(Spoken(line)) IN
           /\ WellFormed(Subcommand(Spoken(line)))
           /\ words \in Seq(Vocabulary) /\ Len(words) \in Nat /\ DOMAIN words = 1 .. Len(words)
           /\ Asked(line) \in Seq(Line)
           /\ \A i \in 1 .. Len(words) : words[i] \in Vocabulary /\ Asked(line)[i] = words[i]
           /\ Head(line) # Arg("help") => Asked(line) = words
           /\ Head(line) = Arg("help") => /\ Len(Asked(line)) = Len(words) + 1
                                          /\ Asked(line)[Len(words) + 1] = Help
<1> DEFINE rest == Spoken(line)
           words == Words(rest)
<1>1. rest \in Seq(Vocabulary)
  BY HeadTailProperties DEF Spoken
<1>2. IsSubcommand(rest)
  OBVIOUS
<1>3. Head(line) # Arg("help") => rest = line
  BY DEF Spoken
<1> HIDE DEF rest
<1>4. WellFormed(Subcommand(rest)) /\ Len(rest) > 1
  BY <1>1, <1>2, SubcommandIs
<1>5. words \in Seq(Vocabulary)
  BY <1>1, <1>4, WordsAre
<1>6. Head(line) # Arg("help") => Asked(line) = words
  BY <1>3 DEF Asked
<1>7. Head(line) = Arg("help") => Asked(line) = Append(words, Help)
  BY DEF Asked, rest
<1> HIDE DEF words
<1>8. Len(words) \in Nat /\ DOMAIN words = 1 .. Len(words)
  BY <1>5, LenProperties
<1>9. \A i \in 1 .. Len(words) : words[i] \in Vocabulary
  BY <1>5, ElementOfSeq
<1>10. words \in Seq(Line) /\ Help \in Line
  BY <1>5 DEF Line
<1>11. /\ Append(words, Help) \in Seq(Line) /\ Len(Append(words, Help)) = Len(words) + 1
       /\ \A i \in 1 .. Len(words) : Append(words, Help)[i] = words[i]
       /\ Append(words, Help)[Len(words) + 1] = Help
  BY <1>10, AppendProperties
<1>12. CASE Head(line) = Arg("help")
  <2>1. Asked(line) = Append(words, Help)
    BY <1>7, <1>12
  <2>2. /\ Asked(line) \in Seq(Line) /\ Len(Asked(line)) = Len(words) + 1
        /\ \A i \in 1 .. Len(words) : Asked(line)[i] = words[i]
        /\ Asked(line)[Len(words) + 1] = Help
    BY <1>11, <2>1, Zenon
  <2> QED
    BY <1>4, <1>5, <1>8, <1>9, <1>12, <2>2 DEF words, rest
<1>13. CASE Head(line) # Arg("help")
  <2>1. Asked(line) = words
    BY <1>6, <1>13
  <2> QED
    BY <1>4, <1>5, <1>8, <1>9, <1>10, <1>13, <2>1 DEF words, rest
<1> QED
  BY <1>12, <1>13

\* A command that is not loose runs with a second argument only if it is a number.
LEMMA TwoArgs ==
    ASSUME NEW c, WellFormed(c), ~Loose(c), NEW p, NEW e, Accepted(c, p, e),
           Len(p.args) \in Nat, Len(p.args) >= 2
    PROVE  Len(p.args) = 2 /\ p.args[2] \in Numbers
<1>1. Len(p.args) \in c.counts /\ ~(Len(p.args) < 2)
  BY DEF Accepted
<1>2. 2 \in c.counts
  BY <1>1 DEF WellFormed
<1>3. c.counts = {2} /\ c.numeric = {2}
  BY <1>2 DEF Loose, WellFormed
<1> QED
  BY <1>1, <1>3 DEF Accepted

\* What is not run opens nothing.
LEMMA NotRun ==
    ASSUME NEW name, NEW c, NEW words, NEW e,
           LET p == ParseFlags(c, words) IN Stopped(p) \/ ~Accepted(c, p, e)
    PROVE  RunSubcommand(name, c, words, e).opens = {}
<1> DEFINE p == ParseFlags(c, words)
<1>1. Printed.opens = {} /\ Refused.opens = {}
  BY DEF Printed, Refused
<1>2. CASE p.mode = "help"
  <2>1. ~Accepted(c, p, e)
    BY <1>2 DEF Accepted
  <2>2. RunSubcommand(name, c, words, e) = Printed
    BY <1>2, <2>1 DEF RunSubcommand
  <2> QED
    BY <1>1, <2>2
<1>3. CASE p.mode # "help"
  <2>1. ~Accepted(c, p, e)
    BY <1>3 DEF Stopped, Accepted
  <2>2. RunSubcommand(name, c, words, e) = Refused
    BY <1>3, <2>1 DEF RunSubcommand
  <2> QED
    BY <1>1, <2>2
<1> QED
  BY <1>2, <1>3

\* An option that is given, and then --help: --help is found.
LEMMA HelpAfterOptions ==
    ASSUME NEW c, WellFormed(c), NEW words \in Seq(Line), NEW k \in Nat, k < Len(words),
           PlainUpTo(c, words, k), \A i \in 1 .. k : words[i] \in Vocabulary,
           words[k + 1] = Help
    PROVE  Stopped(ParseFlags(c, words))
<1>1. k \in 0 .. Len(words) /\ k # Len(words)
  OBVIOUS
<1>2. \/ Stopped(ParseFlags(c, words))
      \/ \E g : ReadsOn(ParseFlags(c, words), words, Len(words), k, g)
  BY <1>1, ParsePlain
<1> QED
  BY <1>1, <1>2 DEF ReadsOn

\* --help after an argument is an argument: one too many, and no number.
LEMMA HelpAfterArgs ==
    ASSUME NEW c, WellFormed(c), ~Loose(c), NEW words \in Seq(Vocabulary),
           NEW asked \in Seq(Line), Len(asked) = Len(words) + 1,
           asked[Len(words) + 1] = Help, \A i \in 1 .. Len(words) : asked[i] = words[i],
           NEW k \in 0 .. Len(words), k # Len(words), words[k + 1].kind # "flag",
           PlainUpTo(c, words, k), Last(words) # Stop, NEW e
    PROVE  Stopped(ParseFlags(c, asked)) \/ ~Accepted(c, ParseFlags(c, asked), e)
<1> DEFINE n == Len(words)
           p == ParseFlags(c, asked)
<1>1. n \in Nat /\ \A i \in 1 .. n : words[i] \in Vocabulary
  BY ElementOfSeq
<1>2. k + 1 \in 1 .. n /\ k \in 0 .. n + 1 /\ k # n + 1
  BY <1>1
<1>3. words[k + 1] = Stop \/ words[k + 1].kind = "arg"
  <2>1. IsWord(words[k + 1])
    BY <1>1, <1>2, SessionAssumption
  <2> QED
    BY <2>1 DEF IsWord, Arg, Flag, FlagIs, Stop
<1>4. PlainUpTo(c, asked, k) /\ \A i \in 1 .. k : asked[i] \in Vocabulary
  <2>1. \A i \in 1 .. k : i \in 1 .. n
    BY <1>1
  <2> QED
    BY <1>1, <2>1 DEF PlainUpTo
<1>5. asked[k + 1] = words[k + 1]
  BY <1>2
<1>6. SUFFICES ASSUME ~Stopped(p), Accepted(c, p, e)
               PROVE  FALSE
  OBVIOUS
<1>7. PICK m \in 0 .. n : n - m >= 1 /\ \E g : p = WithArgs(g, ArgsFrom(asked, m, n + 1))
  <2>1. PICK g : ReadsOn(p, asked, n + 1, k, g)
    <3>1. Len(asked) = n + 1 /\ k \in 0 .. Len(asked) /\ k # Len(asked)
      BY <1>2
    <3> HIDE DEF n
    <3> QED
      BY <1>4, <1>6, <3>1, ParsePlain
  <2>2. CASE words[k + 1] = Stop
    <3>1. Last(words) = words[n]
      BY DEF Last
    <3>2. k + 1 # n
      BY <2>2, <3>1
    <3>3. asked[k + 1].kind = "stop"
      BY <1>5, <2>2 DEF Stop
    <3>4. k + 1 \in 0 .. n /\ n - (k + 1) >= 1
      BY <1>1, <1>2, <3>2
    <3> QED
      BY <1>2, <2>1, <3>3, <3>4 DEF ReadsOn
  <2>3. CASE words[k + 1].kind = "arg"
    <3>1. k \in 0 .. n /\ n - k >= 1
      BY <1>1, <1>2
    <3> QED
      BY <1>2, <1>5, <2>1, <2>3, <3>1 DEF ReadsOn
  <2> QED
    BY <1>3, <2>2, <2>3
<1> DEFINE a == ArgsFrom(asked, m, n + 1)
<1> HIDE DEF n, p
<1>8. n + 1 - m \in Nat /\ n + 1 - m >= 2
  BY <1>1, <1>7
<1>9. Len(a) = n + 1 - m /\ \A j \in 1 .. n + 1 - m : a[j] = asked[m + j]
  <2>1. PICK l \in Nat : l = n + 1 - m
    BY <1>8
  <2>2. a = [j \in 1 .. l |-> asked[m + j]]
    <3>1. ArgsFrom(asked, m, n + 1) = [j \in 1 .. (n + 1) - m |-> asked[m + j]]
      BY DEF ArgsFrom
    <3>2. (n + 1) - m = l
      BY <1>1, <2>1
    <3> QED
      BY <3>1, <3>2
  <2> HIDE DEF a
  <2>3. Len(a) = l /\ \A j \in 1 .. l : a[j] = asked[m + j]
    BY <2>2
  <2> QED
    BY <2>1, <2>3
<1> HIDE DEF a
<1>10. p.args = a
  BY <1>7 DEF WithArgs, a
<1>11. Len(a) = 2 /\ a[2] \in Numbers
  BY <1>6, <1>8, <1>9, <1>10, TwoArgs
<1>12. m + 2 = n + 1 /\ 2 \in 1 .. n + 1 - m
  <2>1. n + 1 - m = 2
    BY <1>9, <1>11
  <2>2. n \in Nat /\ m \in Nat
    BY <1>1
  <2> QED
    BY <2>1, <2>2
<1>13. a[2] = Help
  <2>1. a[2] = asked[n + 1]
    BY <1>9, <1>12
  <2> QED
    BY <2>1 DEF n
<1> QED
  BY <1>11, <1>13 DEF Numbers, Help, Arg, Flag

\* The words up to the first that is no option are read as options.
LEMMA PlainLeads ==
    ASSUME NEW c, NEW words, IsPlain(c, words), NEW k \in Nat,
           \A i \in 1 .. k : i \in DOMAIN words /\ words[i].kind = "flag"
    PROVE  PlainUpTo(c, words, k)
  BY DEF IsPlain, PlainUpTo

\* A line that asks for help opens nothing.
LEMMA HelpedLine ==
    ASSUME NEW line \in Seq(Vocabulary), NEW e, IsSubcommand(Spoken(line)),
           NEW c, c = Subcommand(Spoken(line)), NEW words, words = Words(Spoken(line)),
           \/ /\ Head(line) = Arg("help") /\ IsPlain(c, words)
              /\ Leading(words) = words \/ (~Loose(c) /\ Last(words) # Stop)
           \/ /\ words # <<>> /\ IsPlain(c, Front(words)) /\ Last(words) = Help
              /\ Leading(words) = words
    PROVE  Run(line, e).opens = {}
<1> DEFINE asked == Asked(line)
           n == Len(words)
           p == ParseFlags(c, asked)
<1>1. /\ WellFormed(c) /\ words \in Seq(Vocabulary) /\ n \in Nat /\ DOMAIN words = 1 .. n
      /\ asked \in Seq(Line)
      /\ \A i \in 1 .. n : words[i] \in Vocabulary /\ asked[i] = words[i]
      /\ Head(line) # Arg("help") => asked = words
      /\ Head(line) = Arg("help") => Len(asked) = n + 1 /\ asked[n + 1] = Help
  BY AskedIs
<1>2. Len(asked) >= n /\ Len(asked) \in Nat
  BY <1>1
<1>3. Run(line, e) = RunSubcommand(Spoken(line)[2].name, c, asked, e)
  BY RunIs
<1>4. SUFFICES Stopped(p) \/ ~Accepted(c, p, e)
  BY <1>3, NotRun
<1>5. PICK k \in 0 .. n :
          /\ \A i \in 1 .. k : words[i].kind = "flag"
          /\ k # n => words[k + 1].kind # "flag"
          /\ k = n <=> Leading(words) = words
  BY <1>1, LeadingIs
<1> HIDE DEF asked, n, p
<1>6. ASSUME NEW j \in 0 .. n, PlainUpTo(c, words, j)
      PROVE  PlainUpTo(c, asked, j) /\ \A i \in 1 .. j : asked[i] \in Vocabulary
  <2>1. \A i \in 1 .. j : i \in 1 .. n
    BY <1>1
  <2> QED
    BY <1>1, <1>6, <2>1 DEF PlainUpTo
<1>7. CASE Head(line) = Arg("help") /\ IsPlain(c, words) /\ Leading(words) = words
  <2>1. n \in 0 .. n /\ n \in Nat /\ n < Len(asked)
    BY <1>1, <1>7
  <2>2. \A i \in 1 .. n : i \in DOMAIN words /\ words[i].kind = "flag"
    BY <1>1, <1>5, <1>7
  <2>3. PlainUpTo(c, words, n)
    BY <1>7, <2>1, <2>2, PlainLeads
  <2>4. PlainUpTo(c, asked, n) /\ \A i \in 1 .. n : asked[i] \in Vocabulary
    BY <1>6, <2>1, <2>3
  <2>5. asked[n + 1] = Help
    BY <1>1, <1>7
  <2> QED
    BY <1>1, <2>1, <2>4, <2>5, HelpAfterOptions DEF p
<1>8. CASE /\ Head(line) = Arg("help") /\ IsPlain(c, words) /\ Leading(words) # words
           /\ ~Loose(c) /\ Last(words) # Stop
  <2>1. k # n /\ k \in Nat
    BY <1>1, <1>5, <1>8
  <2>2. \A i \in 1 .. k : i \in DOMAIN words /\ words[i].kind = "flag"
    BY <1>1, <1>5
  <2>3. PlainUpTo(c, words, k)
    BY <1>8, <2>1, <2>2, PlainLeads
  <2>4. Len(asked) = n + 1 /\ asked[n + 1] = Help /\ words[k + 1].kind # "flag"
    BY <1>1, <1>5, <1>8, <2>1
  <2> QED
    BY <1>1, <1>8, <2>1, <2>3, <2>4, HelpAfterArgs DEF n, p
<1>9. CASE /\ words # <<>> /\ IsPlain(c, Front(words)) /\ Last(words) = Help
           /\ Leading(words) = words
  <2>1. n # 0 /\ n - 1 \in 0 .. n /\ n - 1 \in Nat /\ n - 1 < Len(asked) /\ n - 1 + 1 = n
    <3>1. n # 0
      BY <1>1, <1>9, EmptySeq DEF n
    <3> QED
      BY <1>1, <1>2, <3>1
  <2>2. words[n] = Help
    BY <1>9 DEF Last, n
  <2>3. asked[n] = Help
    BY <1>1, <2>1, <2>2
  <2>4. PlainUpTo(c, words, n - 1)
    <3>1. 1 \in Int /\ n - 1 \in Int /\ \A i \in 1 .. n - 1 : words[i] \in Vocabulary
      BY <1>1, <2>1
    <3>2. /\ SubSeq(words, 1, n - 1) \in Seq(Vocabulary)
          /\ Len(SubSeq(words, 1, n - 1)) = IF 1 <= n - 1 THEN n - 1 - 1 + 1 ELSE 0
          /\ \A i \in 1 .. n - 1 - 1 + 1 : SubSeq(words, 1, n - 1)[i] = words[1 + i - 1]
      BY <3>1, SubSeqProperties
    <3>3. Front(words) = SubSeq(words, 1, n - 1)
      BY DEF Front, n
    <3>4. DOMAIN Front(words) = 1 .. n - 1
      BY <2>1, <3>2, <3>3
    <3>5. \A i \in 1 .. n - 1 : Front(words)[i] = words[i]
      <4>1. \A i \in 1 .. n - 1 : i \in 1 .. n - 1 - 1 + 1 /\ 1 + i - 1 = i
        BY <2>1
      <4> QED
        BY <3>2, <3>3, <4>1
    <3>6. \A i \in 1 .. n - 1 : words[i].kind = "flag"
      BY <1>1, <1>5, <1>9
    <3>7. \A i \in 1 .. n - 1 : words[i].is = <<>> => \E o \in c.bools : words[i].name \in o
      BY <1>9, <3>4, <3>5, <3>6 DEF IsPlain
    <3> QED
      BY <3>6, <3>7 DEF PlainUpTo
  <2>5. PICK j \in 0 .. n : j = n - 1
    BY <2>1
  <2>6. PlainUpTo(c, asked, j) /\ \A i \in 1 .. j : asked[i] \in Vocabulary
    BY <1>6, <2>4, <2>5
  <2>7. j \in Nat /\ j < Len(asked) /\ asked[j + 1] = Help
    BY <2>1, <2>3, <2>5
  <2> QED
    BY <1>1, <2>6, <2>7, HelpAfterOptions DEF p
<1> QED
  BY <1>7, <1>8, <1>9
-----------------------------------------------------------------------------
(* Options                                                                 *)

\* Those of the first k words that give a value to a setting.
Named(words, k, s) == {i \in 1 .. k : words[i].name \in s.names}

\* The value of a setting is the one that its last option has.
LEMMA ValueIs ==
    ASSUME NEW c, WellFormed(c), NEW words, NEW k \in Nat, PlainUpTo(c, words, k),
           NEW p, OptionsRead(c, words, k, p.given), NEW s \in c.needs, NEW e
    PROVE  ValueOf(p, s, e) =
             IF Named(words, k, s) = {} THEN e.vars[s.var]
             ELSE words[Max(Named(words, k, s))].is[1]
<1> DEFINE given == {i \in DOMAIN p.given : p.given[i][1] = s.names}
           named == {i \in 1 .. k : words[i].name \in s.names}
<1>1. s.names \in Options(c) /\ s.names \notin c.bools
  BY DEF Options, WellFormed
<1>2. \A i \in 1 .. k : /\ p.given[i][1] \in Options(c)
                        /\ words[i].name \in p.given[i][1]
                        /\ words[i].is # <<>> => p.given[i][2] = words[i].is[1]
  <2>1. PICK E : E = Options(c) \X OptionValues
    OBVIOUS
  <2>2. p.given \in Seq(E) /\ Len(p.given) = k
    BY <2>1 DEF OptionsRead
  <2>3. \A i \in 1 .. k : p.given[i] \in E
    BY <2>2, ElementOfSeq
  <2>4. \A i \in 1 .. k : p.given[i][1] \in Options(c)
    BY <2>1, <2>3
  <2>5. \A i \in 1 .. k : Means(p.given[i], words[i])
    BY DEF OptionsRead
  <2> QED
    BY <2>4, <2>5 DEF Means
<1>3. DOMAIN p.given = 1 .. k
  <2>1. PICK E : E = Options(c) \X OptionValues
    OBVIOUS
  <2> QED
    BY <2>1, LenProperties DEF OptionsRead
<1>4. \A i \in 1 .. k : words[i].name \in s.names <=> p.given[i][1] = s.names
  <2> SUFFICES ASSUME NEW i \in 1 .. k
               PROVE  words[i].name \in s.names <=> p.given[i][1] = s.names
    OBVIOUS
  <2>1. p.given[i][1] \in Options(c) /\ words[i].name \in p.given[i][1]
    BY <1>2
  <2>2. ASSUME words[i].name \in s.names
        PROVE  p.given[i][1] = s.names
    <3>1. p.given[i][1] \cap s.names # {}
      BY <2>1, <2>2
    <3> QED
      BY <1>1, <2>1, <3>1 DEF WellFormed
  <2> QED
    BY <2>1, <2>2
<1>5. given = named
  BY <1>3, <1>4
<1>6. ValueOf(p, s, e) = IF given = {} THEN e.vars[s.var] ELSE p.given[Max(given)][2]
  BY DEF ValueOf
<1>7. ASSUME named # {}
      PROVE  p.given[Max(named)][2] = words[Max(named)].is[1]
  <2>1. PICK i \in named : i = Max(named)
    <3>1. named \in SUBSET (1 .. k)
      OBVIOUS
    <3> HIDE DEF named
    <3> QED
      BY <1>7, <3>1, LastOf
  <2>2. i \in 1 .. k /\ words[i].name \in s.names
    OBVIOUS
  <2>3. words[i].is # <<>>
    <3> SUFFICES ASSUME words[i].is = <<>> PROVE FALSE
      OBVIOUS
    <3>1. PICK o \in c.bools : words[i].name \in o
      BY <2>2 DEF PlainUpTo
    <3>2. o \in Options(c) /\ o \cap s.names # {}
      BY <2>2, <3>1 DEF Options
    <3>3. o = s.names
      BY <1>1, <3>2 DEF WellFormed
    <3> QED
      BY <1>1, <3>1, <3>3
  <2> HIDE DEF named
  <2> QED
    BY <1>2, <2>1, <2>2, <2>3
<1> HIDE DEF given, named
<1>8. ValueOf(p, s, e) = IF named = {} THEN e.vars[s.var] ELSE words[Max(named)].is[1]
  BY <1>5, <1>6, <1>7
<1> QED
  BY <1>8 DEF named, Named

\* Only what is accepted opens databases.
LEMMA DoesRun ==
    ASSUME NEW name, NEW c, NEW words, NEW e, RunSubcommand(name, c, words, e).opens # {}
    PROVE  LET p == ParseFlags(c, words) IN
           /\ ~Stopped(p) /\ Accepted(c, p, e)
           /\ RunSubcommand(name, c, words, e).opens = Opens(c, p, e)
<1> DEFINE p == ParseFlags(c, words)
<1>1. ~Stopped(p) /\ Accepted(c, p, e)
  BY NotRun
<1>2. p.mode # "help"
  BY <1>1 DEF Stopped
<1>3. RunSubcommand(name, c, words, e).opens = Opens(c, p, e)
  BY <1>1, <1>2 DEF RunSubcommand
<1> QED
  BY <1>1, <1>3

\* Of a command that is not loose, no option is passed over: none comes after the
\* first argument, unless there is a -- before it.
LEMMA NoneIsLost ==
    ASSUME NEW c, WellFormed(c), ~Loose(c), NEW words \in Seq(Vocabulary), IsPlain(c, words),
           NEW e, Accepted(c, ParseFlags(c, words), e), ~Stopped(ParseFlags(c, words)),
           NEW k \in 0 .. Len(words), PlainUpTo(c, words, k),
           k # Len(words) => words[k + 1].kind # "flag",
           NEW i \in DOMAIN words, words[i].kind = "flag"
    PROVE  i \in 1 .. k \/ \E j \in 1 .. i - 1 : words[j] = Stop
<1> DEFINE n == Len(words)
           p == ParseFlags(c, words)
<1>1. /\ n \in Nat /\ DOMAIN words = 1 .. n /\ i \in 1 .. n
      /\ \A j \in 1 .. n : words[j] \in Vocabulary
      /\ words \in Seq(Line) /\ k \in 0 .. n
      /\ k # n => words[k + 1].kind # "flag"
  BY LenProperties, ElementOfSeq DEF Line
<1> HIDE DEF n
<1>2. SUFFICES ASSUME i \notin 1 .. k, \A j \in 1 .. i - 1 : words[j] # Stop
               PROVE  FALSE
  OBVIOUS
<1>3. k # n /\ k + 1 \in 1 .. n /\ words[k + 1].kind # "flag"
  <2>1. k # n
    BY <1>1, <1>2
  <2> QED
    BY <1>1, <2>1
<1>4. i # k + 1 /\ k + 1 \in 1 .. i - 1
  BY <1>1, <1>2, <1>3
<1>5. words[k + 1].kind = "arg"
  <2>1. IsWord(words[k + 1])
    BY <1>1, <1>3, SessionAssumption
  <2> QED
    BY <1>2, <1>3, <1>4, <2>1 DEF IsWord, Arg, Flag, FlagIs, Stop
<1>6. PICK g : p = WithArgs(g, ArgsFrom(words, k, n))
  <2>1. \A j \in 1 .. k : words[j] \in Vocabulary
    BY <1>1
  <2>2. k # Len(words)
    BY <1>3 DEF n
  <2>3. PICK g : ReadsOn(p, words, Len(words), k, g)
    BY <1>1, <1>2, <2>1, <2>2, ParsePlain
  <2> QED
    BY <1>5, <2>2, <2>3 DEF n, ReadsOn
<1> HIDE DEF p
<1> DEFINE a == ArgsFrom(words, k, n)
<1>7. n - k \in Nat /\ n - k >= 2 /\ i - k \in 1 .. n - k /\ k + (i - k) = i
  BY <1>1, <1>3, <1>4
<1>8. Len(a) = n - k /\ \A j \in 1 .. n - k : a[j] = words[k + j]
  BY <1>7 DEF ArgsFrom
<1> HIDE DEF a
<1>9. p.args = a
  BY <1>6 DEF WithArgs, a
<1>10. Len(a) = 2 /\ a[2] \in Numbers
  BY <1>7, <1>8, <1>9, TwoArgs DEF p
<1>11. i - k = 2
  <2>1. n - k = 2
    BY <1>8, <1>10
  <2> QED
    BY <1>1, <1>4, <1>7, <2>1
<1>12. a[2] = words[i]
  BY <1>7, <1>8, <1>11
<1>13. words[i] = Flag("1")
  BY <1>10, <1>12 DEF Numbers, Arg, Flag
<1>14. words[i].is = <<>> /\ words[i].name = "1"
  BY <1>13 DEF Flag
<1>15. PICK o \in c.bools : words[i].name \in o
  BY <1>14 DEF IsPlain
<1> QED
  BY <1>14, <1>15 DEF WellFormed, Options

\* The value of a setting is the last of those in front of the first argument.
LEMMA ValueMeant ==
    ASSUME NEW c, WellFormed(c), NEW words \in Seq(Vocabulary), NEW k \in 0 .. Len(words),
           PlainUpTo(c, words, k), k # Len(words) => words[k + 1].kind # "flag",
           ~Stopped(ParseFlags(c, words)), NEW s \in c.needs, NEW e
    PROVE  ValueOf(ParseFlags(c, words), s, e) =
             IF Named(words, k, s) = {} THEN e.vars[s.var]
             ELSE words[Max(Named(words, k, s))].is[1]
<1> DEFINE p == ParseFlags(c, words)
<1>1. /\ words \in Seq(Line) /\ Len(words) \in Nat /\ k \in Nat
      /\ \A i \in 1 .. Len(words) : words[i] \in Vocabulary
  BY ElementOfSeq DEF Line
<1>2. \A i \in 1 .. k : words[i] \in Vocabulary
  BY <1>1
<1>3. PICK g : OptionsRead(c, words, k, g) /\ ReadsOn(p, words, Len(words), k, g)
  BY <1>1, <1>2, ParsePlain
<1>4. k # Len(words) => words[k + 1].kind \in {"arg", "stop"}
  <2> SUFFICES ASSUME k # Len(words) PROVE words[k + 1].kind \in {"arg", "stop"}
    OBVIOUS
  <2>1. k + 1 \in 1 .. Len(words)
    BY <1>1
  <2>2. IsWord(words[k + 1])
    BY <1>1, <2>1, SessionAssumption
  <2> QED
    BY <2>2 DEF IsWord, Arg, Flag, FlagIs, Stop
<1>5. p.given = g
  BY <1>3, <1>4 DEF ReadsOn, Given, WithArgs
<1> HIDE DEF p
<1>6. OptionsRead(c, words, k, p.given)
  BY <1>3, <1>5
<1> QED
  BY <1>1, <1>6, ValueIs DEF p

\* What a line says is heeded.
LEMMA HeededLine ==
    ASSUME NEW line \in Seq(Vocabulary), NEW e, IsSubcommand(line), Run(line, e).opens # {},
           NEW c, c = Subcommand(line), NEW words, words = Words(line), IsPlain(c, words)
    PROVE  LET named(s) == {i \in DOMAIN Leading(words) : words[i].name \in s.names}
               meant(s) == IF named(s) = {} THEN e.vars[s.var] ELSE words[Max(named(s))].is[1]
           IN /\ \A s \in c.needs \ {NlpScript} : meant(s) \in Run(line, e).opens
              /\ ~Loose(c) => \A i \in DOMAIN words :
                    words[i].kind = "flag" =>
                        i \in DOMAIN Leading(words) \/ \E j \in 1 .. i - 1 : words[j] = Stop
<1> DEFINE p == ParseFlags(c, words)
<1>1. Len(line) > 1 /\ line # <<>> /\ Head(line) # Arg("help")
  <2>1. Len(line) > 1 /\ line[1] # Arg("help")
    BY SubcommandIs
  <2> QED
    BY <2>1, EmptySeq
<1>2. Spoken(line) = line
  BY <1>1 DEF Spoken
<1>3. /\ WellFormed(c) /\ words \in Seq(Vocabulary) /\ Len(words) \in Nat
      /\ DOMAIN words = 1 .. Len(words) /\ Asked(line) = words
      /\ \A i \in 1 .. Len(words) : words[i] \in Vocabulary
  BY <1>1, <1>2, AskedIs
<1>4. Run(line, e) = RunSubcommand(line[2].name, c, words, e)
  BY <1>2, <1>3, RunIs
<1>5. ~Stopped(p) /\ Accepted(c, p, e) /\ Run(line, e).opens = Opens(c, p, e)
  BY <1>4, DoesRun
<1>6. PICK k \in 0 .. Len(words) :
          /\ \A i \in 1 .. k : words[i].kind = "flag"
          /\ k # Len(words) => words[k + 1].kind # "flag"
          /\ DOMAIN Leading(words) = 1 .. k
  BY <1>3, LeadingIs
<1>7. PlainUpTo(c, words, k) /\ k \in Nat /\ \A i \in 1 .. k : words[i] \in Vocabulary
  <2>1. k \in Nat /\ \A i \in 1 .. k : i \in DOMAIN words
    BY <1>3
  <2> QED
    BY <1>3, <1>6, <2>1, PlainLeads
<1> HIDE DEF p
<1>9. ASSUME NEW s \in c.needs \ {NlpScript}
      PROVE  ValueOf(p, s, e) \in Run(line, e).opens
  <2>1. ~c.creates
    BY <1>3 DEF WellFormed
  <2> QED
    BY <1>5, <2>1 DEF Opens
<1>10. ASSUME NEW s \in c.needs
       PROVE  ValueOf(p, s, e) =
                LET named == {i \in DOMAIN Leading(words) : words[i].name \in s.names}
                IN IF named = {} THEN e.vars[s.var] ELSE words[Max(named)].is[1]
  <2>1. ~Stopped(ParseFlags(c, words))
    BY <1>5 DEF p
  <2>2. ValueOf(ParseFlags(c, words), s, e) =
          IF Named(words, k, s) = {} THEN e.vars[s.var]
          ELSE words[Max(Named(words, k, s))].is[1]
    <3>1. k # Len(words) => words[k + 1].kind # "flag"
      BY <1>6
    <3>2. WellFormed(c) /\ words \in Seq(Vocabulary) /\ PlainUpTo(c, words, k)
      BY <1>3, <1>7
    <3> QED
      BY <2>1, <3>1, <3>2, ValueMeant
  <2>3. Named(words, k, s) = {i \in DOMAIN Leading(words) : words[i].name \in s.names}
    BY <1>6 DEF Named
  <2> QED
    BY <2>2, <2>3 DEF p
<1>11. ASSUME ~Loose(c), NEW i \in DOMAIN words, words[i].kind = "flag"
       PROVE  i \in DOMAIN Leading(words) \/ \E j \in 1 .. i - 1 : words[j] = Stop
  BY <1>3, <1>5, <1>6, <1>7, <1>11, NoneIsLost DEF p
<1> QED
  BY <1>9, <1>10, <1>11
-----------------------------------------------------------------------------
(* The session                                                             *)

\* What the shell says after a line is what the line does.
SessionInv ==
    /\ said \in Seq(Vocabulary)
    /\ pc = "ran" => opened = Run(said, env).opens

LEMMA SessionStarts == SessionInit => SessionInv
  BY EmptySeq DEF SessionInit, EpubInit, SessionInv

LEMMA SessionSteps == SessionInv /\ [SessionNext]_sessionVars => SessionInv'
<1> SUFFICES ASSUME SessionInv, [SessionNext]_sessionVars
             PROVE  SessionInv'
  OBVIOUS
<1>1. ASSUME EpubNext, UNCHANGED shell
      PROVE  SessionInv'
  <2>1. pc' = pc \/ pc' # "ran"
    BY <1>1 DEF EpubNext, OpenBook, SkipItemRef, OpenChapter, ReadToken, EndChapter,
                FinalizeText, Store
  <2>2. said' = said /\ env' = env /\ opened' = opened
    BY <1>1 DEF shell
  <2> QED
    BY <2>1, <2>2 DEF SessionInv
<1>2. CASE TypeLine
  <2>1. said' \in FirstLines \cup LaterLines /\ pc' = "typed"
    BY <1>2 DEF TypeLine
  <2>2. said' \in Seq(Vocabulary)
    BY <2>1, SessionAssumption
  <2> QED
    BY <2>1, <2>2 DEF SessionInv
<1>3. CASE RunLine
  <2>1. opened' = Run(said, env).opens /\ said' = said /\ env' = env
    BY <1>3 DEF RunLine
  <2> QED
    BY <2>1 DEF SessionInv
<1>4. CASE UNCHANGED sessionVars
  <2>1. pc' = pc /\ said' = said /\ env' = env /\ opened' = opened
    BY <1>4 DEF sessionVars, epubVars, shell
  <2> QED
    BY <2>1 DEF SessionInv
<1> QED
  BY <1>1, <1>2, <1>3, <1>4 DEF SessionNext

LEMMA SessionHolds == SessionSpec => []SessionInv
  BY SessionStarts, SessionSteps, PTL DEF SessionSpec

\* main.go:67, "help": whatever is typed and whatever the environment is, a line with
\* help in front of a subcommand opens no database, nor does one that asks --help before
\* its first argument.  Two kinds of lines with help in front are no such lines, as the
\* --help that main adds at their end is an argument there: those with an argument for a
\* command that takes a second one, or does not count them (help corpus set-label 5 foo
\* adds foo and --help as labels), and those that end with --.
THEOREM HelpRunsNothing == SessionSpec => []HelpOnlyPrints
<1>1. SessionInv => HelpOnlyPrints
  BY HelpedLine DEF SessionInv, HelpOnlyPrints
<1> QED
  BY <1>1, SessionHolds, PTL

\* setup.go, parse_corpus.go, parse_live.go: whatever is typed, what runs opens the
\* databases that its line means, and only the commands with a second argument pass
\* over an option.
THEOREM LinesAreHeeded == SessionSpec => []LineIsHeeded
<1>1. SessionInv => LineIsHeeded
  BY HeededLine DEF SessionInv, LineIsHeeded
<1> QED
  BY <1>1, SessionHolds, PTL

-----------------------------------------------------------------------------
(* A column joined from labels is split into them                          *)

Cuts(s) == {0, Len(s) + 1} \cup {i \in DOMAIN s : s[i] = "comma"}
Adjacent(cuts) ==
    {b \in cuts \X cuts : b[1] < b[2] /\ \A i \in cuts : i <= b[1] \/ b[2] <= i}

LEMMA SplitIs ==
    ASSUME NEW s
    PROVE  Split(s) = {SubSeq(s, c[1] + 1, c[2] - 1) : c \in Adjacent(Cuts(s))}
BY DEF Split, Adjacent, Cuts

LEMMA SplitOne ==
    ASSUME NEW S, "comma" \notin S, NEW s \in Seq(S)
    PROVE  Split(s) = {s}
<1> DEFINE n == Len(s)
<1>1. n \in Nat /\ DOMAIN s = 1 .. n /\ \A i \in 1 .. n : s[i] # "comma"
  BY LenProperties, ElementOfSeq
<1>2. Cuts(s) = {0, n + 1}
  BY <1>1 DEF Cuts
<1>3. Adjacent(Cuts(s)) = {<<0, n + 1>>}
  BY <1>1, <1>2 DEF Adjacent
<1>4. SubSeq(s, 0 + 1, n + 1 - 1) = s
  BY <1>1, SubSeqFull
<1> HIDE DEF n
<1>5. {SubSeq(s, c[1] + 1, c[2] - 1) : c \in {<<0, n + 1>>}} = {s}
  <2> DEFINE P(c) == SubSeq(s, c[1] + 1, c[2] - 1)  whole == <<0, n + 1>>
  <2>1. whole[1] = 0 /\ whole[2] = n + 1
    OBVIOUS
  <2> HIDE DEF whole
  <2>2. P(whole) = s
    <3>1. whole[1] + 1 = 0 + 1 /\ whole[2] - 1 = n + 1 - 1
      BY <1>1, <2>1
    <3> QED
      BY <1>4, <3>1, Zenon
  <2> HIDE DEF P
  <2>3. {P(c) : c \in {whole}} = {s}
    BY <2>2
  <2> QED
    BY <2>3 DEF P, whole
<1> QED
  BY <1>3, <1>5, SplitIs

LEMMA SplitMore ==
    ASSUME NEW S, "comma" \notin S, NEW s \in Seq(S \cup {"comma"}), NEW t \in Seq(S)
    PROVE  Split((s \o <<"comma">>) \o t) = Split(s) \cup {t}
<1> DEFINE C == S \cup {"comma"}  n == Len(s)  m == Len(t)  u == (s \o <<"comma">>) \o t
<1>1. n \in Nat /\ m \in Nat /\ DOMAIN s = 1 .. n /\ \A i \in 1 .. m : t[i] \in S
  BY LenProperties, ElementOfSeq
<1>2. /\ s \o <<"comma">> \in Seq(C) /\ Len(s \o <<"comma">>) = n + 1
      /\ \A i \in 1 .. n : (s \o <<"comma">>)[i] = s[i]
      /\ (s \o <<"comma">>)[n + 1] = "comma"
  <2>1. Append(s, "comma") = s \o <<"comma">>
    BY AppendIsConcat
  <2>2. "comma" \in C
    OBVIOUS
  <2> HIDE DEF C
  <2> QED
    BY <2>1, <2>2, AppendProperties DEF C
<1>3. t \in Seq(C)
  BY SeqMonotonic
<1>4. /\ u \in Seq(C) /\ Len(u) = n + 1 + m
      /\ \A i \in 1 .. n + 1 + m :
            u[i] = IF i <= n + 1 THEN (s \o <<"comma">>)[i] ELSE t[i - (n + 1)]
  <2> HIDE DEF C
  <2> QED
    BY <1>2, <1>3, ConcatProperties
<1> HIDE DEF u, C, n, m
<1>5. /\ DOMAIN u = 1 .. n + m + 1 /\ u[n + 1] = "comma"
      /\ \A i \in 1 .. n : u[i] = s[i]
      /\ \A i \in 1 .. m : u[n + 1 + i] = t[i]
      /\ \A i \in n + 2 .. n + m + 1 : u[i] # "comma"
  <2>1. DOMAIN u = 1 .. n + m + 1
    BY <1>1, <1>4, LenProperties
  <2>2. u[n + 1] = "comma" /\ \A i \in 1 .. n : u[i] = s[i]
    BY <1>1, <1>2, <1>4
  <2>3. ASSUME NEW i \in n + 2 .. n + m + 1
        PROVE  u[i] = t[i - (n + 1)] /\ i - (n + 1) \in 1 .. m
    BY <1>1, <1>4
  <2>4. ASSUME NEW i \in 1 .. m
        PROVE  u[n + 1 + i] = t[i]
    <3>1. n + 1 + i \in n + 2 .. n + m + 1 /\ (n + 1 + i) - (n + 1) = i
      BY <1>1
    <3>2. u[n + 1 + i] = t[(n + 1 + i) - (n + 1)]
      BY <2>3, <3>1
    <3> QED
      BY <3>1, <3>2
  <2>5. ASSUME NEW i \in n + 2 .. n + m + 1
        PROVE  u[i] # "comma"
    BY <1>1, <2>3
  <2> QED
    BY <2>1, <2>2, <2>4, <2>5
<1>6. Cuts(u) = Cuts(s) \cup {n + m + 2}
  <2>1. \A i \in 1 .. n + m + 1 : i \in 1 .. n \/ i = n + 1 \/ i \in n + 2 .. n + m + 1
    BY <1>1
  <2>2. {i \in DOMAIN u : u[i] = "comma"} = {i \in DOMAIN s : s[i] = "comma"} \cup {n + 1}
    BY <1>1, <1>5, <2>1
  <2>3. Len(u) + 1 = n + m + 2
    BY <1>1, <1>4
  <2> QED
    BY <2>2, <2>3 DEF Cuts, n
<1>7. n + 1 \in Cuts(s) /\ \A i \in Cuts(s) : i \in 0 .. n + 1
  BY <1>1 DEF Cuts, n
<1>8. Adjacent(Cuts(u)) = Adjacent(Cuts(s)) \cup {<<n + 1, n + m + 2>>}
  <2> DEFINE K == Cuts(s)
  <2>1. Cuts(u) = K \cup {n + m + 2} /\ n + 1 \in K /\ \A i \in K : i \in 0 .. n + 1
    BY <1>6, <1>7
  <2> HIDE DEF K
  <2> DEFINE N == Cuts(u)
  <2> HIDE DEF N
  <2>2. ASSUME NEW a \in N, NEW b \in N
        PROVE  <<a, b>> \in Adjacent(N) <=>
                  <<a, b>> \in Adjacent(K) \/ (a = n + 1 /\ b = n + m + 2)
    <3>1. CASE b = n + m + 2
      BY <1>1, <2>1, <3>1 DEF N, Adjacent
    <3>2. CASE a = n + m + 2
      BY <1>1, <2>1, <3>2 DEF N, Adjacent
    <3>3. CASE a \in K /\ b \in K
      BY <1>1, <2>1, <3>3 DEF N, Adjacent
    <3> QED
      BY <2>1, <3>1, <3>2, <3>3 DEF N
  <2>3. \A c \in Adjacent(N) : \E a, b \in N : c = <<a, b>>
    BY DEF Adjacent
  <2>4. \A c \in Adjacent(K) : \E a, b \in K : c = <<a, b>>
    BY DEF Adjacent
  <2>5. K \subseteq N /\ n + m + 2 \in N /\ n + 1 \in N
    BY <2>1 DEF N
  <2> HIDE DEF Adjacent
  <2>6. Adjacent(N) = Adjacent(K) \cup {<<n + 1, n + m + 2>>}
    <3>1. ASSUME NEW c \in Adjacent(N)
          PROVE  c \in Adjacent(K) \cup {<<n + 1, n + m + 2>>}
      <4>1. PICK a \in N, b \in N : c = <<a, b>>
        BY <2>3
      <4> QED
        BY <2>2, <4>1
    <3>2. ASSUME NEW c \in Adjacent(K)
          PROVE  c \in Adjacent(N)
      <4>1. PICK a \in K, b \in K : c = <<a, b>>
        BY <2>4
      <4>2. a \in N /\ b \in N
        BY <2>5
      <4> QED
        BY <2>2, <4>1, <4>2
    <3>3. <<n + 1, n + m + 2>> \in Adjacent(N)
      BY <2>2, <2>5
    <3> QED
      BY <3>1, <3>2, <3>3
  <2> QED
    BY <2>6 DEF K, N
<1>9. ASSUME NEW c \in Adjacent(Cuts(s))
      PROVE  SubSeq(u, c[1] + 1, c[2] - 1) = SubSeq(s, c[1] + 1, c[2] - 1)
  <2>1. c[1] \in Cuts(s) /\ c[2] \in Cuts(s) /\ c[1] < c[2]
    BY DEF Adjacent
  <2> DEFINE a == c[1] + 1  b == c[2] - 1
  <2>2. a \in 1 .. n + 2 /\ b \in -1 .. n /\ a - 1 < b + 1
    BY <1>1, <1>7, <2>1
  <2> HIDE DEF a, b
  <2> DEFINE w == <<"comma">> \o t
  <2>3. u = s \o w /\ w \in Seq(C) /\ s \in Seq(C)
    <3>1. <<"comma">> \in Seq(C)
      BY DEF C
    <3>2. s \in Seq(C)
      BY DEF C
    <3> QED
      BY <1>3, <3>1, <3>2, ConcatAssociative, ConcatProperties DEF u
  <2> HIDE DEF w
  <2>4. CASE b < a
    <3>1. SubSeq(u, a, b) = <<>> /\ SubSeq(s, a, b) = <<>>
      BY <1>1, <2>2, <2>4, SubSeqEmpty
    <3> QED
      BY <3>1 DEF a, b
  <2>5. CASE a <= b
    <3>1. a \in 1 .. Len(s) /\ b \in 1 .. Len(s)
      BY <1>1, <2>2, <2>5 DEF n
    <3>2. SubSeq(s \o w, a, b) = SubSeq(s, a, b)
      BY <2>3, <3>1, SubSeqOfConcat1
    <3> QED
      BY <2>3, <3>2 DEF a, b
  <2>6. a \in Int /\ b \in Int
    BY <1>1, <2>2
  <2>7. b < a \/ a <= b
    BY <2>6
  <2> QED
    BY <2>4, <2>5, <2>7
<1>10. SubSeq(u, n + 1 + 1, n + m + 2 - 1) = t
  <2>1. n + 1 + 1 \in Int /\ n + m + 2 - 1 \in Int
    BY <1>1
  <2>2. CASE m = 0
    <3>1. t = <<>>
      BY <1>3, <2>2, EmptySeq DEF m
    <3>2. n + m + 2 - 1 < n + 1 + 1
      BY <1>1, <2>2
    <3> QED
      BY <2>1, <3>1, <3>2, SubSeqEmpty
  <2>3. CASE m # 0
    <3> DEFINE v == s \o <<"comma">>  a == n + 1 + 1  b == n + m + 2 - 1
    <3>1. Len(v) = n + 1 /\ v \in Seq(C)
      BY <1>2
    <3>2. a \in Len(v) + 1 .. Len(v) + Len(t) /\ b \in Len(v) + 1 .. Len(v) + Len(t)
      <4> HIDE DEF v
      <4> QED
        BY <1>1, <2>3, <3>1 DEF m
    <3>3. a - Len(v) = 1 /\ b - Len(v) = Len(t)
      <4> HIDE DEF v
      <4> QED
        BY <1>1, <2>3, <3>1 DEF m
    <3>4. u = v \o t
      BY DEF u
    <3> HIDE DEF v, a, b
    <3>5. SubSeq(v \o t, a, b) = SubSeq(t, a - Len(v), b - Len(v))
      BY <1>3, <3>1, <3>2, SubSeqOfConcat2
    <3>6. SubSeq(t, 1, Len(t)) = t
      BY SubSeqFull
    <3>7. SubSeq(u, a, b) = t
      BY <3>3, <3>4, <3>5, <3>6
    <3> QED
      BY <3>7 DEF a, b
  <2> QED
    BY <2>2, <2>3
<1>11. {SubSeq(u, c[1] + 1, c[2] - 1) : c \in Adjacent(Cuts(u))}
         = {SubSeq(s, c[1] + 1, c[2] - 1) : c \in Adjacent(Cuts(s))} \cup {t}
  <2> DEFINE last == <<n + 1, n + m + 2>>  P(c) == SubSeq(u, c[1] + 1, c[2] - 1)
             A == Adjacent(Cuts(s))
  <2>1. last[1] = n + 1 /\ last[2] = n + m + 2
    OBVIOUS
  <2> HIDE DEF last
  <2>2. P(last) = t
    <3>1. last[1] + 1 = n + 1 + 1 /\ last[2] - 1 = n + m + 2 - 1
      BY <1>1, <2>1
    <3> QED
      BY <1>10, <3>1, Zenon
  <2>3. {P(c) : c \in A \cup {last}} = {P(c) : c \in A} \cup {t}
    <3> HIDE DEF P, A, last
    <3> QED
      BY <2>2
  <2>4. {P(c) : c \in A} = {SubSeq(s, c[1] + 1, c[2] - 1) : c \in A}
    <3>1. \A c \in A : P(c) = SubSeq(s, c[1] + 1, c[2] - 1)
      BY <1>9
    <3> HIDE DEF P, A
    <3> QED
      BY <3>1, Zenon
  <2> QED
    BY <1>8, <2>3, <2>4 DEF last
<1> QED
  BY <1>11, SplitIs DEF u

-----------------------------------------------------------------------------
(* Joining                                                                 *)

First(T) == CHOOSE x \in T : TRUE

\* The sets of at most k of the labels, and what Join recurses with on them.
AtMost(labels, k) == {T \in SUBSET labels : Cardinality(T) <= k}
JoinedUpTo(labels, k, j) ==
    j = [T \in AtMost(labels, k) |->
            IF T = {} THEN <<>> ELSE j[T \ {First(T)}] \o <<"comma">> \o First(T)]

LEMMA WithoutFirst ==
    ASSUME NEW labels, IsFiniteSet(labels), NEW k \in Nat, NEW T \in AtMost(labels, k + 1), T # {}
    PROVE  /\ T \ {First(T)} \in AtMost(labels, k)
           /\ First(T) \in T /\ First(T) \in labels
<1>1. First(T) \in T /\ T \in SUBSET labels /\ Cardinality(T) <= k + 1
  BY DEF First, AtMost
<1>2. IsFiniteSet(T)
  BY <1>1, FS_Subset
<1>3. Cardinality(T) \in Nat /\ Cardinality(T \ {First(T)}) = Cardinality(T) - 1
  BY <1>1, <1>2, FS_CardinalityType, FS_RemoveElement
<1> QED
  BY <1>1, <1>3 DEF AtMost

LEMMA AtMostIsMonotonic ==
    ASSUME NEW labels, IsFiniteSet(labels), NEW k \in Nat
    PROVE  AtMost(labels, k) \subseteq AtMost(labels, k + 1)
<1> SUFFICES ASSUME NEW T \in AtMost(labels, k)
             PROVE  T \in AtMost(labels, k + 1)
  OBVIOUS
<1>1. Cardinality(T) \in Nat /\ Cardinality(T) <= k /\ T \in SUBSET labels
  BY FS_Subset, FS_CardinalityType DEF AtMost
<1> QED
  BY <1>1 DEF AtMost

LEMMA JoinGoesOn ==
    ASSUME NEW labels, IsFiniteSet(labels), NEW k \in Nat, NEW j, JoinedUpTo(labels, k, j)
    PROVE  \E g : JoinedUpTo(labels, k + 1, g)
<1> DEFINE A == AtMost(labels, k)  B == AtMost(labels, k + 1)
           On(f, T) == IF T = {} THEN <<>> ELSE f[T \ {First(T)}] \o <<"comma">> \o First(T)
           g == [T \in B |-> On(j, T)]
<1>1. j = [T \in A |-> On(j, T)]
  BY DEF JoinedUpTo
<1>2. A \subseteq B /\ \A T \in B : T # {} => T \ {First(T)} \in A
  BY AtMostIsMonotonic, WithoutFirst
<1> HIDE DEF A, B
<1>3. \A T \in A : g[T] = j[T]
  <2> HIDE DEF On
  <2> QED
    BY <1>1, <1>2
<1>4. g = [T \in B |-> g[T]] /\ \A T \in B : g[T] = On(j, T)
  OBVIOUS
<1> HIDE DEF g
<1>5. \A T \in B : On(j, T) = On(g, T)
  BY <1>2, <1>3
<1> HIDE DEF On
<1>6. g = [T \in B |-> On(g, T)]
  BY <1>4, <1>5
<1>7. JoinedUpTo(labels, k + 1, g)
  BY <1>6 DEF JoinedUpTo, On, B
<1> QED
  BY <1>7

LEMMA JoinGoes ==
    ASSUME NEW labels, IsFiniteSet(labels), NEW n \in Nat
    PROVE  \E j : JoinedUpTo(labels, n, j)
<1> DEFINE S == {k \in 0 .. n : \E j : JoinedUpTo(labels, k, j)}
<1>1. 0 \in S
  <2> DEFINE j == [T \in AtMost(labels, 0) |-> <<>>]
  <2>1. \A T \in AtMost(labels, 0) : T = {}
    <3> SUFFICES ASSUME NEW T \in AtMost(labels, 0)
                 PROVE  T = {}
      OBVIOUS
    <3>1. IsFiniteSet(T) /\ Cardinality(T) <= 0
      BY FS_Subset DEF AtMost
    <3>2. Cardinality(T) \in Nat
      BY <3>1, FS_CardinalityType
    <3>3. Cardinality(T) = 0
      BY <3>1, <3>2
    <3> QED
      BY <3>1, <3>3, FS_EmptySet
  <2>2. JoinedUpTo(labels, 0, j)
    BY <2>1 DEF JoinedUpTo
  <2> HIDE DEF j
  <2> QED
    BY <2>2
<1>2. \A i \in 0 .. n : i # n /\ i \in S => i + 1 \in S
  BY JoinGoesOn
<1> HIDE DEF S
<1>3. n \in S
  BY <1>1, <1>2, UpTo
<1> QED
  BY <1>3 DEF S

\* What the words of a column are made of.
IsColumnOf(S, w, T) == w \in Seq(S \cup {"comma"}) /\ Split(w) = T

LEMMA JoinIs ==
    ASSUME NEW labels, IsFiniteSet(labels), labels # {}
    PROVE  \E j : /\ Join(labels) = Tail(j[labels])
                  /\ j = [T \in SUBSET labels |->
                            IF T = {} THEN <<>> ELSE j[T \ {First(T)}] \o <<"comma">> \o First(T)]
<1> DEFINE n == Cardinality(labels)
<1>1. n \in Nat /\ AtMost(labels, n) = SUBSET labels
  BY FS_CardinalityType, FS_Subset DEF AtMost
<1>2. \E j : JoinedUpTo(labels, n, j)
  BY <1>1, JoinGoes
<1> HIDE DEF n
<1> DEFINE j == CHOOSE f : f = [T \in SUBSET labels |->
                IF T = {} THEN <<>> ELSE f[T \ {First(T)}] \o <<"comma">> \o First(T)]
<1>3. j = [T \in SUBSET labels |->
                IF T = {} THEN <<>> ELSE j[T \ {First(T)}] \o <<"comma">> \o First(T)]
  BY <1>1, <1>2 DEF JoinedUpTo
<1>4. Join(labels) = Tail(j[labels])
  BY DEF Join, FoldSet, MapThenFoldSet, First
<1> HIDE DEF j
<1> QED
  BY <1>3, <1>4

LEMMA JoinSplits ==
    ASSUME NEW S, "comma" \notin S, NEW labels, labels \subseteq Seq(S),
           IsFiniteSet(labels), labels # {}
    PROVE  IsColumnOf(S, Join(labels), labels)
<1> DEFINE n == Cardinality(labels)  C == S \cup {"comma"}
<1>1. n \in Nat /\ AtMost(labels, n) = SUBSET labels /\ AtMost(labels, 0) \subseteq {{}}
  <2>1. n \in Nat /\ AtMost(labels, n) = SUBSET labels
    BY FS_CardinalityType, FS_Subset DEF AtMost
  <2>2. ASSUME NEW T \in AtMost(labels, 0)
        PROVE  T = {}
    <3>1. IsFiniteSet(T) /\ Cardinality(T) <= 0
      BY FS_Subset DEF AtMost
    <3>2. Cardinality(T) \in Nat
      BY <3>1, FS_CardinalityType
    <3>3. Cardinality(T) = 0
      BY <3>1, <3>2
    <3> QED
      BY <3>1, <3>3, FS_EmptySet
  <2> QED
    BY <2>1, <2>2
<1>2. PICK j : /\ Join(labels) = Tail(j[labels])
               /\ j = [T \in SUBSET labels |->
                        IF T = {} THEN <<>> ELSE j[T \ {First(T)}] \o <<"comma">> \o First(T)]
  BY JoinIs
<1>3. j[{}] = <<>> /\ \A T \in SUBSET labels : T # {} =>
                        j[T] = (j[T \ {First(T)}] \o <<"comma">>) \o First(T)
  <2> DEFINE On(T) == IF T = {} THEN <<>> ELSE j[T \ {First(T)}] \o <<"comma">> \o First(T)
  <2>1. \A T \in SUBSET labels : j[T] = On(T)
    <3> HIDE DEF On
    <3>1. j = [T \in SUBSET labels |-> On(T)]
      BY <1>2 DEF On
    <3> QED
      BY <3>1
  <2>2. j[{}] = On({})
    BY <2>1
  <2> QED
    BY <2>1, <2>2
<1> DEFINE Good(T) == \E w : j[T] = <<"comma">> \o w /\ IsColumnOf(S, w, T)
           K == {k \in 0 .. n : \A T \in AtMost(labels, k) : T # {} => Good(T)}
<1>4. 0 \in K
  BY <1>1
<1>5. ASSUME NEW k \in 0 .. n, k # n, k \in K
      PROVE  k + 1 \in K
  <2>1. ASSUME NEW T \in AtMost(labels, k + 1), T # {}
        PROVE  Good(T)
    <3> DEFINE x == First(T)  U == T \ {x}
    <3>1. U \in AtMost(labels, k) /\ x \in T /\ x \in labels /\ T \in SUBSET labels /\ x \in Seq(S)
      BY <1>5, <2>1, WithoutFirst DEF AtMost
    <3>2. j[T] = (j[U] \o <<"comma">>) \o x
      BY <1>3, <2>1, <3>1
    <3>3. T = U \cup {x}
      BY <3>1
    <3> HIDE DEF x, U
    <3>4. x \in Seq(C) /\ <<"comma">> \in Seq(C) /\ <<>> \in Seq(C)
      <4>1. x \in Seq(C)
        BY <3>1, SeqMonotonic
      <4>2. "comma" \in C
        OBVIOUS
      <4> HIDE DEF C
      <4> QED
        BY <4>1, <4>2
    <3>5. CASE U = {}
      <4>1. j[T] = <<"comma">> \o x
        BY <1>3, <3>2, <3>4, <3>5, ConcatEmptySeq
      <4>2. Split(x) = {x}
        BY <3>1, SplitOne
      <4>3. IsColumnOf(S, x, T)
        BY <3>3, <3>4, <3>5, <4>2 DEF IsColumnOf
      <4> QED
        BY <4>1, <4>3
    <3>6. CASE U # {}
      <4>1. PICK w : j[U] = <<"comma">> \o w /\ IsColumnOf(S, w, U)
        BY <1>5, <3>1, <3>6
      <4>2. w \in Seq(C) /\ Split(w) = U
        BY <4>1 DEF IsColumnOf
      <4> DEFINE v == (w \o <<"comma">>) \o x
      <4>3. v \in Seq(C)
        BY <3>4, <4>2, ConcatProperties
      <4>4. j[T] = <<"comma">> \o v
        <5> HIDE DEF C
        <5>1. w \o <<"comma">> \in Seq(C)
          BY <3>4, <4>2, ConcatProperties
        <5>2. <<"comma">> \o v = (<<"comma">> \o (w \o <<"comma">>)) \o x
          BY <3>4, <5>1, ConcatAssociative, SMTT(20)
        <5>3. <<"comma">> \o (w \o <<"comma">>) = (<<"comma">> \o w) \o <<"comma">>
          BY <3>4, <4>2, ConcatAssociative
        <5> QED
          BY <3>2, <4>1, <5>2, <5>3
      <4>5. Split(v) = U \cup {x}
        BY <3>1, <4>2, SplitMore
      <4>6. IsColumnOf(S, v, T)
        BY <3>3, <4>3, <4>5 DEF IsColumnOf
      <4> HIDE DEF v
      <4> QED
        BY <4>4, <4>6
    <3> QED
      BY <3>5, <3>6
  <2> HIDE DEF Good
  <2> QED
    BY <1>1, <1>5, <2>1
<1> HIDE DEF K, Good
<1>6. n \in K
  <2>1. 0 .. n \subseteq K
    BY <1>1, <1>4, <1>5, UpTo
  <2> QED
    BY <1>1, <2>1
<1>7. Good(labels)
  BY <1>1, <1>6 DEF K
<1>8. PICK w : j[labels] = <<"comma">> \o w /\ IsColumnOf(S, w, labels)
  BY <1>7 DEF Good
<1>9. Tail(<<"comma">> \o w) = w
  <2>1. w \in Seq(C) /\ "comma" \in C
    BY <1>8 DEF IsColumnOf
  <2> HIDE DEF C
  <2> QED
    BY <2>1
<1> QED
  BY <1>2, <1>8, <1>9

\* Of a column that is joined from labels a reader finds the labels, but for an
\* empty one that is alone.
LEMMA JoinedLabels ==
    ASSUME NEW S, "comma" \notin S, NEW labels, labels \subseteq Seq(S), IsFiniteSet(labels)
    PROVE  /\ LabelsOf(Join(labels)) \subseteq labels
           /\ LabelsOf(Join(labels)) \ {<<>>} = labels \ {<<>>}
<1>1. CASE labels = {}
  BY <1>1 DEF Join, LabelsOf
<1>2. CASE labels # {}
  <2>1. Split(Join(labels)) = labels
    BY <1>2, JoinSplits DEF IsColumnOf
  <2>2. CASE Join(labels) = <<>>
    <3>1. <<>> \in Seq(S)
      BY EmptySeq
    <3>2. Split(<<>>) = {<<>>}
      BY <3>1, SplitOne
    <3> QED
      BY <2>1, <2>2, <3>2 DEF LabelsOf
  <2>3. CASE Join(labels) # <<>>
    BY <2>1, <2>3 DEF LabelsOf
  <2> QED
    BY <2>2, <2>3
<1> QED
  BY <1>1, <1>2

-----------------------------------------------------------------------------
(* Labels have no comma, and of a column there are finitely many           *)

Char == (STRING \cup {"a", "b", "_", "colon"}
         \cup {"creator", "title", "date", "language", "translator"}) \ {"comma"}
Label == Seq(Char)

LEMMA NormalizedIsLabel ==
    ASSUME NEW val \in Text
    PROVE  NormalizeLabel(val) \in Label
<1> DEFINE n == Len(val)
           piece(i) == CASE val[i] = "comma" ->
                              IF i < Len(val) /\ val[i + 1] = "blank" THEN <<"_">> ELSE <<>>
                         [] val[i] = "blank" ->
                              IF i > 1 /\ val[i - 1] = "comma" THEN <<>> ELSE <<"_">>
                         [] val[i] = "hyphen" -> <<"_">>
                         [] OTHER -> <<ToLower(val[i])>>
           pieces == [i \in DOMAIN val |-> piece(i)]
<1>1. n \in Nat /\ DOMAIN val = 1 .. n /\ \A i \in 1 .. n : val[i] \in STRING
  BY LenProperties, ElementOfSeq DEF Text
<1>2. <<>> \in Seq(Char) /\ \A c \in Char : <<c>> \in Seq(Char)
  <2> HIDE DEF Char
  <2> QED
    OBVIOUS
<1>3. ASSUME NEW i \in 1 .. n
      PROVE  piece(i) \in Seq(Char)
  <2>1. "_" \in Char
    BY DEF Char
  <2>2. val[i] # "comma" => ToLower(val[i]) \in Char
    <3>1. DOMAIN Upper = {"A", "B"} /\ Upper["A"] = "a" /\ Upper["B"] = "b"
      BY DEF Upper
    <3>2. ToLower(val[i]) \in {"a", "b", val[i]}
      BY <3>1 DEF ToLower
    <3> QED
      BY <1>1, <3>2 DEF Char
  <2> HIDE DEF Char
  <2> QED
    BY <1>2, <2>1, <2>2
<1> HIDE DEF piece
<1>4. pieces \in [1 .. n -> Seq(Char)]
  BY <1>1, <1>3
<1> HIDE DEF pieces
<1>5. pieces \in Seq(Seq(Char))
  BY <1>1, <1>4, FunctionIsSeq
<1>6. FlattenSeq(pieces) \in Seq(Char)
  BY <1>5, FlattenTyped
<1> QED
  BY <1>6 DEF NormalizeLabel, pieces, piece, Label

LEMMA ImageIsFinite ==
    ASSUME NEW D, IsFiniteSet(D), NEW f, DOMAIN f = D, f = [x \in D |-> f[x]]
    PROVE  IsFiniteSet({f[x] : x \in D})
<1> DEFINE R == {f[x] : x \in D}
<1>1. f \in [D -> R]
  OBVIOUS
<1>2. f \in Surjection(D, R)
  BY <1>1 DEF Surjection
<1> HIDE DEF R
<1>3. IsFiniteSet(R)
  BY <1>2, FS_Surjection
<1> QED
  BY <1>3 DEF R

LEMMA NormalizedAreLabels ==
    ASSUME NEW labels, labels \subseteq Text, IsFiniteSet(labels)
    PROVE  Normalized(labels) \subseteq Label /\ IsFiniteSet(Normalized(labels))
<1> DEFINE f == [l \in labels |-> NormalizeLabel(l)]
<1>1. IsFiniteSet({f[l] : l \in labels})
  <2>1. DOMAIN f = labels /\ f = [l \in labels |-> f[l]]
    OBVIOUS
  <2> HIDE DEF f
  <2> QED
    BY <2>1, ImageIsFinite
<1>2. {f[l] : l \in labels} = Normalized(labels)
  BY DEF Normalized
<1> QED
  BY <1>1, <1>2, NormalizedIsLabel DEF Normalized

LEMMA FirstOfIsText ==
    ASSUME NEW people \in Seq(Person), NEW wanted \in SUBSET DOMAIN people
    PROVE  FirstOf(people, wanted) \in Text
<1>1. Len(people) \in Nat /\ DOMAIN people = 1 .. Len(people)
      /\ \A i \in 1 .. Len(people) : people[i] \in Person
  BY LenProperties, ElementOfSeq
<1>2. CASE wanted = {}
  BY <1>2, EmptySeq DEF FirstOf, Text
<1>3. CASE wanted # {}
  <2>1. Min(wanted) \in 1 .. Len(people)
    BY <1>1, <1>3, LeastOf
  <2>2. people[Min(wanted)].value \in Text
    BY <1>1, <2>1 DEF Person
  <2> QED
    BY <1>3, <2>2 DEF FirstOf
<1> QED
  BY <1>2, <1>3

LEMMA DateIsText ==
    ASSUME NEW val \in Text
    PROVE  NormalizeDate(val) \in Text
<1> DEFINE years == {i \in DOMAIN val : IsYear(val, i)}
<1>1. Len(val) \in Nat /\ DOMAIN val = 1 .. Len(val)
      /\ \A i \in 1 .. Len(val) : val[i] \in STRING
  BY LenProperties, ElementOfSeq DEF Text
<1>2. CASE years = {}
  BY <1>2, EmptySeq DEF NormalizeDate, Text
<1>3. CASE years # {}
  <2>1. Min(years) \in years
    BY <1>1, <1>3, LeastOf
  <2> DEFINE y == Min(years)
  <2> HIDE DEF y
  <2>2. y \in Nat /\ \A j \in y .. y + 3 : j \in DOMAIN val
    BY <1>1, <2>1 DEF IsYear, y
  <2>3. \A j \in y .. y + 3 : val[j] \in STRING
    BY <1>1, <2>2
  <2>4. SubSeq(val, y, y + 3) \in Seq(STRING)
    BY <2>2, <2>3, SubSeqProperties
  <2> QED
    BY <1>3, <2>4 DEF NormalizeDate, y, Text
<1> QED
  BY <1>2, <1>3

LEMMA HeadIsText ==
    ASSUME NEW texts \in Seq(Text)
    PROVE  HeadOr(texts) \in Text
<1>1. <<>> \in Text
  BY EmptySeq DEF Text
<1>2. texts # <<>> => Head(texts) \in Text
  BY HeadTailProperties
<1> QED
  BY <1>1, <1>2 DEF HeadOr

LabelNames == {"creator", "title", "date", "language", "translator"}

LEMMA BookLabelsAreTexts ==
    ASSUME NEW m \in Metadata
    PROVE  DOMAIN BookLabels(m) = LabelNames /\ \A p \in LabelNames : BookLabels(m)[p] \in Text
<1>1. /\ m.titles \in Seq(Text) /\ m.creators \in Seq(Person)
      /\ m.contributors \in Seq(Person) /\ m.dates \in Seq(Person)
      /\ m.languages \in Seq(Text)
  BY DEF Metadata
<1>2. Creator(m) \in Text
  BY <1>1, FirstOfIsText DEF Creator
<1>3. Translator(m) \in Text
  <2>1. \A people : Translators(people) \in SUBSET DOMAIN people
    BY DEF Translators
  <2> QED
    BY <1>1, <2>1, FirstOfIsText DEF Translator
<1>4. PublicationDate(m) \in Text
  <2>1. {i \in DOMAIN m.dates : m.dates[i].role = "publication"} \in SUBSET DOMAIN m.dates
    OBVIOUS
  <2> QED
    BY <1>1, <2>1, FirstOfIsText DEF PublicationDate
<1>5. NormalizeDate(PublicationDate(m)) \in Text
  BY <1>4, DateIsText
<1>6. HeadOr(m.titles) \in Text /\ HeadOr(m.languages) \in Text
  BY <1>1, HeadIsText
<1> QED
  BY <1>2, <1>3, <1>5, <1>6 DEF BookLabels, LabelNames

LEMMA SerializedAreLabels ==
    ASSUME NEW m \in Metadata
    PROVE  /\ Serialized(BookLabels(m)) \subseteq Label
           /\ IsFiniteSet(Serialized(BookLabels(m)))
<1> DEFINE b == BookLabels(m)
           D == {q \in DOMAIN b : NormalizeLabel(b[q]) # <<>>}
           f == [p \in D |-> <<p, "colon">> \o NormalizeLabel(b[p])]
<1>1. DOMAIN b = LabelNames /\ \A p \in LabelNames : NormalizeLabel(b[p]) \in Seq(Char)
  BY BookLabelsAreTexts, NormalizedIsLabel DEF Label
<1> HIDE DEF b
<1>2. IsFiniteSet(D)
  <2>1. IsFiniteSet(LabelNames)
    <3> DEFINE A == {"creator"}
    <3>1. IsFiniteSet(A)
      BY FS_Singleton
    <3>2. IsFiniteSet(A \cup {"title"})
      BY <3>1, FS_AddElement
    <3>3. IsFiniteSet((A \cup {"title"}) \cup {"date"})
      BY <3>2, FS_AddElement
    <3>4. IsFiniteSet(((A \cup {"title"}) \cup {"date"}) \cup {"language"})
      BY <3>3, FS_AddElement
    <3>5. IsFiniteSet((((A \cup {"title"}) \cup {"date"}) \cup {"language"}) \cup {"translator"})
      BY <3>4, FS_AddElement
    <3>6. LabelNames = (((A \cup {"title"}) \cup {"date"}) \cup {"language"}) \cup {"translator"}
      BY DEF LabelNames
    <3> QED
      BY <3>5, <3>6
  <2>2. D \in SUBSET LabelNames
    BY <1>1
  <2> HIDE DEF D
  <2> QED
    BY <2>1, <2>2, FS_Subset
<1>3. D \subseteq LabelNames
  BY <1>1
<1>4. Serialized(b) = {f[p] : p \in D}
  BY DEF Serialized
<1> HIDE DEF D
<1>5. IsFiniteSet({f[p] : p \in D})
  <2>1. DOMAIN f = D /\ f = [p \in D |-> f[p]]
    OBVIOUS
  <2> HIDE DEF f
  <2> QED
    BY <1>2, <2>1, ImageIsFinite
<1>6. ASSUME NEW p \in D
      PROVE  f[p] \in Label
  <2>1. p \in Char /\ "colon" \in Char
    BY <1>3 DEF LabelNames, Char
  <2>2. <<p, "colon">> \in Seq(Char)
    <3> HIDE DEF Char
    <3> QED
      BY <2>1
  <2>3. <<p, "colon">> \o NormalizeLabel(b[p]) \in Seq(Char)
    BY <1>1, <1>3, <2>2, ConcatProperties
  <2> QED
    BY <2>3 DEF Label
<1> QED
  BY <1>4, <1>5, <1>6 DEF b

-----------------------------------------------------------------------------
(* What a line has for arguments are words of it, or the --help of help    *)

\* A state of the flag package, with words of L.
ReadOf(L, s) == "args" \in DOMAIN s /\ s.args \in Seq(L)

LEMMA ReadWordOf ==
    ASSUME NEW L, NEW c, NEW s, ReadOf(L, s), NEW w \in L
    PROVE  ReadOf(L, ReadWord(c, s, w))
<1>1. \A r, m : ReadOf(L, r) => ReadOf(L, [r EXCEPT !.mode = m])
  BY DEF ReadOf
<1>2. \A r, o : ReadOf(L, r) => ReadOf(L, [r EXCEPT !.at = o])
  BY DEF ReadOf
<1>3. \A r, g : ReadOf(L, r) => ReadOf(L, [r EXCEPT !.given = g])
  BY DEF ReadOf
<1>4. \A r : \A a \in Seq(L) : ReadOf(L, r) => ReadOf(L, [r EXCEPT !.args = a])
  BY DEF ReadOf
<1>5. ReadOf(L, ReadArg(s, w))
  <2>1. s.args \in Seq(L)
    BY DEF ReadOf
  <2>2. Append(s.args, w) \in Seq(L)
    BY <2>1, AppendProperties
  <2> DEFINE a == Append(s.args, w)  r == [s EXCEPT !.mode = "args"]
  <2>3. ReadArg(s, w) = [r EXCEPT !.args = a]
    BY DEF ReadArg
  <2>4. ReadOf(L, r)
    BY <1>1
  <2> HIDE DEF a, r
  <2> QED
    BY <1>4, <2>2, <2>3, <2>4 DEF a
<1>6. ASSUME NEW option, NEW value
      PROVE  ReadOf(L, Give(c, s, option, value))
  <2> DEFINE g == Append(s.given, <<option, value>>)  r == [s EXCEPT !.mode = "options"]
  <2>1. Give(c, s, option, value)
          = IF Valid(c, option, value) THEN [r EXCEPT !.given = g] ELSE Fail(s)
    BY DEF Give
  <2>2. ReadOf(L, r) /\ ReadOf(L, Fail(s))
    BY <1>1 DEF Fail
  <2> HIDE DEF g, r
  <2> QED
    BY <1>3, <2>1, <2>2
<1>7. ReadOf(L, ReadOption(c, s, w))
  <2> DEFINE known == {o \in Options(c) : w.name \in o}
             option == CHOOSE o \in known : TRUE
             r == [s EXCEPT !.mode = "value"]
             helped == [s EXCEPT !.mode = "help"]
             waits == [r EXCEPT !.at = option]
  <2>1. ReadOption(c, s, w) =
          CASE known = {} -> IF w.name \in {"help", "h"} THEN helped ELSE Fail(s)
            [] known # {} /\ w.is # <<>> -> Give(c, s, option, Head(w.is))
            [] known \subseteq c.bools /\ known # {} /\ w.is = <<>> ->
                   Give(c, s, option, Arg("true"))
            [] OTHER -> waits
    BY DEF ReadOption
  <2>2. ReadOf(L, r) /\ ReadOf(L, helped) /\ ReadOf(L, Fail(s))
    BY <1>1 DEF Fail
  <2> HIDE DEF known, option, r, helped
  <2>3. ReadOf(L, waits)
    BY <1>2, <2>2
  <2> HIDE DEF waits
  <2> QED
    BY <1>6, <2>1, <2>2, <2>3
<1> QED
  BY <1>1, <1>5, <1>6, <1>7 DEF ReadWord

LEMMA ParseOf ==
    ASSUME NEW L, NEW c, NEW words \in Seq(L)
    PROVE  ReadOf(L, ParseFlags(c, words))
<1> DEFINE n == Len(words)
<1>1. n \in Nat /\ \A i \in 1 .. n : words[i] \in L
  BY LenProperties, ElementOfSeq
<1>2. PICK f : ParsedUpTo(c, words, n, f) /\ ParseFlags(c, words) = f[n]
  BY <1>1, ParseGoes
<1>3. /\ f[0] = Given(<<>>)
      /\ \A i \in 0 .. n : i # n => f[i + 1] = ReadWord(c, f[i], words[i + 1])
  BY <1>1, <1>2, ParseStep
<1> HIDE DEF n
<1> DEFINE T == {i \in 0 .. n : ReadOf(L, f[i])}
<1>4. 0 \in T
  <2>1. <<>> \in Seq(L)
    BY EmptySeq
  <2>2. ReadOf(L, f[0])
    BY <1>3, <2>1 DEF ReadOf, Given
  <2> QED
    BY <1>1, <2>2
<1>5. ASSUME NEW i \in 0 .. n, i # n, i \in T
      PROVE  i + 1 \in T
  <2>1. words[i + 1] \in L /\ i + 1 \in 0 .. n
    BY <1>1, <1>5
  <2>2. f[i + 1] = ReadWord(c, f[i], words[i + 1]) /\ ReadOf(L, f[i])
    BY <1>3, <1>5
  <2>3. ReadOf(L, f[i + 1])
    BY <2>1, <2>2, ReadWordOf
  <2> QED
    BY <2>1, <2>3
<1> HIDE DEF T
<1>6. 0 .. n \subseteq T
  BY <1>1, <1>4, <1>5, UpTo
<1>7. n \in T
  BY <1>1, <1>6
<1> QED
  BY <1>2, <1>7 DEF T

LEMMA ArgsOf ==
    ASSUME NEW L, NEW s, ReadOf(L, s)
    PROVE  s.args \in Seq(L)
BY DEF ReadOf

LEMMA HelpOfIsLine ==
    ASSUME NEW words \in Seq(Line), words # <<>>
    PROVE  HelpOf(words) \in Seq(Line) /\ HelpOf(words) # <<>>
<1> DEFINE helps == {i \in DOMAIN words : \A j \in 1 .. i : words[j] = Arg("help")}
           n == Cardinality(helps)  m == Len(words)  h == [i \in 1 .. n |-> Help]
<1>1. m \in Nat /\ DOMAIN words = 1 .. m /\ m # 0 /\ \A i \in 1 .. m : words[i] \in Line
  BY LenProperties, ElementOfSeq, EmptySeq
<1>2. n \in Nat /\ n <= m
  <2>1. IsFiniteSet(1 .. m) /\ Cardinality(1 .. m) = m
    BY <1>1, FS_Interval
  <2>2. helps \in SUBSET (1 .. m)
    BY <1>1
  <2> HIDE DEF helps, m
  <2>3. IsFiniteSet(helps) /\ Cardinality(helps) <= m
    BY <2>1, <2>2, FS_Subset
  <2> QED
    BY <2>3, FS_CardinalityType
<1> HIDE DEF n, m
<1>3. Help \in Line
  BY DEF Line
<1>4. h \in Seq(Line) /\ Len(h) = n
  <2>1. h \in [1 .. n -> Line]
    BY <1>3
  <2> HIDE DEF h
  <2> QED
    BY <1>2, <2>1, FunctionIsSeq
<1>5. SubSeq(words, n + 1, m) \in Seq(Line)
      /\ Len(SubSeq(words, n + 1, m)) = IF n + 1 <= m THEN m - (n + 1) + 1 ELSE 0
  <2>1. n + 1 \in Int /\ m \in Int /\ \A i \in n + 1 .. m : words[i] \in Line
    BY <1>1, <1>2
  <2> QED
    BY <2>1, SubSeqProperties
<1> DEFINE rest == SubSeq(words, n + 1, m)
<1> HIDE DEF h, rest
<1>6. rest \o h \in Seq(Line) /\ Len(rest \o h) = Len(rest) + Len(h)
  BY <1>4, <1>5, ConcatProperties DEF rest
<1>7. Len(rest \o h) # 0
  BY <1>1, <1>2, <1>4, <1>5, <1>6 DEF rest
<1>8. rest \o h # <<>>
  BY <1>7, EmptySeq
<1> QED
  BY <1>6, <1>8 DEF HelpOf, rest, h, n, m

LEMMA RunArgs ==
    ASSUME NEW line \in Seq(Vocabulary), NEW e
    PROVE  Run(line, e).args \in Seq(Line)
<1>1. Printed.args = <<>> /\ Refused.args = <<>> /\ <<>> \in Seq(Line)
  BY EmptySeq DEF Printed, Refused
<1>2. line \in Seq(Line)
  BY SeqMonotonic DEF Line
<1>3. ASSUME NEW name, NEW c, NEW words \in Seq(Line)
      PROVE  RunSubcommand(name, c, words, e).args \in Seq(Line)
  <2> DEFINE p == ParseFlags(c, words)
  <2>1. p.args \in Seq(Line)
    BY ParseOf, ArgsOf
  <2> HIDE DEF p
  <2> DEFINE done == [does |-> "run", command |-> name, given |-> p.given,
                      args |-> p.args, opens |-> Opens(c, p, e)]
  <2>2. RunSubcommand(name, c, words, e) \in {Printed, done, Refused}
    BY DEF RunSubcommand, p
  <2>3. done.args = p.args
    OBVIOUS
  <2> HIDE DEF done
  <2> QED
    BY <1>1, <2>1, <2>2, <2>3
<1>4. ASSUME NEW subcommands, NEW words \in Seq(Line)
      PROVE  RunGroup(subcommands, words, e).args \in Seq(Line)
  <2>1. words # <<>> => Tail(words) \in Seq(Line)
    BY HeadTailProperties
  <2> DEFINE ran == RunSubcommand(Head(words).name, subcommands[Head(words).name],
                                  Tail(words), e)
  <2>2. RunGroup(subcommands, words, e) \in {Printed, Refused}
        \/ (words # <<>> /\ RunGroup(subcommands, words, e) = ran)
    <3> HIDE DEF ran
    <3> QED
      BY DEF RunGroup, ran
  <2>3. words # <<>> => ran.args \in Seq(Line)
    BY <1>3, <2>1
  <2> HIDE DEF ran
  <2> QED
    BY <1>1, <2>2, <2>3
<1>5. ASSUME NEW words
      PROVE  RunPlain(words).args \in Seq(Line)
  BY <1>1 DEF RunPlain
<1>6. ASSUME NEW words \in Seq(Line), words # <<>>
      PROVE  RunCommand(words, e).args \in Seq(Line)
  <2>1. Tail(words) \in Seq(Line)
    BY <1>6, HeadTailProperties
  <2> DEFINE plain == RunPlain(Tail(words))
             live == RunGroup(LiveSubcommands, Tail(words), e)
             corpus == RunGroup(CorpusSubcommands, Tail(words), e)
  <2>2. RunCommand(words, e) \in {Printed, plain, live, corpus, Refused}
    <3> HIDE DEF plain, live, corpus
    <3> QED
      BY DEF RunCommand, plain, live, corpus
  <2>3. plain.args \in Seq(Line) /\ live.args \in Seq(Line) /\ corpus.args \in Seq(Line)
    BY <1>4, <1>5, <2>1
  <2> HIDE DEF plain, live, corpus
  <2> QED
    BY <1>1, <2>2, <2>3
<1> DEFINE p == ParseFlags(NoCommand, line)
           words == IF Head(p.args) = Arg("help") THEN HelpOf(p.args) ELSE p.args
           ran == RunCommand(words, e)
<1>7. p.args \in Seq(Line)
  BY <1>2, ParseOf, ArgsOf
<1>8. Run(line, e) \in {Printed, Refused} \/ (p.args # <<>> /\ Run(line, e) = ran)
  <2> HIDE DEF ran
  <2> QED
    BY DEF Run, ran
<1>9. p.args # <<>> => words \in Seq(Line) /\ words # <<>>
  BY <1>7, HelpOfIsLine
<1>10. p.args # <<>> => ran.args \in Seq(Line)
  BY <1>6, <1>9
<1> HIDE DEF p, words, ran
<1> QED
  BY <1>1, <1>8, <1>10

LEMMA LabelsInAreTexts ==
    ASSUME NEW args \in Seq(Line)
    PROVE  LabelsIn(args) \subseteq Text /\ IsFiniteSet(LabelsIn(args))
<1> DEFINE D == 2 .. Len(args)  f == [i \in D |-> Spelled[args[i].name]]
<1>1. Len(args) \in Nat /\ \A i \in 1 .. Len(args) : args[i] \in Line
  BY LenProperties, ElementOfSeq
<1>2. IsFiniteSet(D)
  BY <1>1, FS_Interval
<1>3. LabelsIn(args) = {f[i] : i \in D}
  BY DEF LabelsIn
<1>4. IsFiniteSet({f[i] : i \in D})
  <2>1. DOMAIN f = D /\ f = [i \in D |-> f[i]]
    OBVIOUS
  <2> HIDE DEF f, D
  <2> QED
    BY <1>2, <2>1, ImageIsFinite
<1>5. \A i \in D : args[i] \in Line
  BY <1>1
<1>6. \A i \in D : Spelled[args[i].name] \in Text
  BY <1>5, SessionAssumption DEF Line
<1> QED
  BY <1>3, <1>4, <1>6

-----------------------------------------------------------------------------
(* The labels column                                                       *)

LabelInv ==
    /\ pc = "open" => archive \in Archives
    /\ labelled \subseteq Label /\ IsFiniteSet(labelled)
    /\ LabelsOf(column) \subseteq Label /\ IsFiniteSet(LabelsOf(column))
    /\ LabelsOf(column) \ {<<>>} = labelled \ {<<>>}

LEMMA JoinedColumn ==
    ASSUME NEW labels, labels \subseteq Label, IsFiniteSet(labels)
    PROVE  /\ LabelsOf(Join(labels)) \subseteq Label /\ IsFiniteSet(LabelsOf(Join(labels)))
           /\ LabelsOf(Join(labels)) \ {<<>>} = labels \ {<<>>}
<1>1. "comma" \notin Char
  BY DEF Char
<1>2. LabelsOf(Join(labels)) \subseteq labels
      /\ LabelsOf(Join(labels)) \ {<<>>} = labels \ {<<>>}
  BY <1>1, JoinedLabels DEF Label
<1>3. LabelsOf(Join(labels)) \in SUBSET labels
  BY <1>2
<1> QED
  BY <1>2, <1>3, FS_Subset

LEMMA LabelStarts == SessionInit => LabelInv
<1>1. IsFiniteSet({})
  BY FS_EmptySet
<1> QED
  BY <1>1 DEF SessionInit, EpubInit, LabelInv, LabelsOf

LEMMA LabelSteps == SessionInv /\ LabelInv /\ [SessionNext]_sessionVars => LabelInv'
<1> SUFFICES ASSUME SessionInv, LabelInv, [SessionNext]_sessionVars
             PROVE  LabelInv'
  OBVIOUS
<1>1. ASSUME UNCHANGED row, pc' = "open" => pc = "open" /\ UNCHANGED archive
      PROVE  LabelInv'
  BY <1>1 DEF LabelInv, row
<1>2. CASE OpenBook /\ UNCHANGED shell
  <2>1. CASE archive.rootfiles # <<>> /\ Head(archive.rootfiles) \in DOMAIN archive.packages
    <3> DEFINE m == Package.metadata  labels == Serialized(BookLabels(m))
    <3>1. pc' = "spine" /\ column' = Join(labels) /\ labelled' = labels
      BY <1>2, <2>1 DEF OpenBook, SerializeLabels
    <3>2. m \in Metadata
      <4>1. IsArchive(archive)
        BY <1>2, EpubAssumption DEF OpenBook, LabelInv
      <4>2. Package \in PackageXML
        BY <2>1, <4>1 DEF IsArchive, Package, Range
      <4> QED
        BY <4>2 DEF PackageXML
    <3>3. labels \subseteq Label /\ IsFiniteSet(labels)
      BY <3>2, SerializedAreLabels
    <3> HIDE DEF labels
    <3>4. /\ LabelsOf(column') \subseteq Label /\ IsFiniteSet(LabelsOf(column'))
          /\ LabelsOf(column') \ {<<>>} = labels \ {<<>>}
      BY <3>1, <3>3, JoinedColumn
    <3> QED
      BY <3>1, <3>3, <3>4 DEF LabelInv
  <2>2. CASE ~(archive.rootfiles # <<>> /\ Head(archive.rootfiles) \in DOMAIN archive.packages)
    <3>1. pc' = "failed" /\ UNCHANGED row
      BY <1>2, <2>2 DEF OpenBook
    <3> QED
      BY <1>1, <3>1
  <2> QED
    BY <2>1, <2>2
<1>3. ASSUME SkipItemRef \/ OpenChapter \/ ReadToken \/ EndChapter \/ FinalizeText \/ Store
      PROVE  LabelInv'
  <2>1. UNCHANGED row /\ pc' # "open"
    BY <1>3 DEF SkipItemRef, OpenChapter, ReadToken, EndChapter, FinalizeText, Store
  <2> QED
    BY <1>1, <2>1
<1>4. CASE TypeLine
  BY <1>1, <1>4 DEF TypeLine
<1>5. CASE RunLine
  <2> DEFINE done == Run(said, env)  labels == LabelsIn(done.args)
             more == LabelsOf(column) \cup Normalized(labels)
             less == LabelsOf(column) \ Normalized(labels)
  <2>1. pc' = "ran" /\ (UNCHANGED row \/ SetLabel(done))
    BY <1>5 DEF RunLine
  <2>2. labels \subseteq Text /\ IsFiniteSet(labels)
    <3>1. done.args \in Seq(Line)
      BY RunArgs DEF SessionInv
    <3> QED
      BY <3>1, LabelsInAreTexts
  <2>3. CASE SetLabel(done)
    <3> HIDE DEF done
    <3>1. Normalized(labels) \subseteq Label /\ IsFiniteSet(Normalized(labels))
      BY <2>2, NormalizedAreLabels
    <3>2. \/ column' = Join(less) /\ labelled' = labelled \ Normalized(labels)
          \/ column' = Join(more) /\ labelled' = labelled \cup Normalized(labels)
      BY <2>3 DEF SetLabel, AddToColumn, DeleteFromColumn
    <3> HIDE DEF labels
    <3> DEFINE new == Normalized(labels)
    <3>3. /\ labelled \subseteq Label /\ IsFiniteSet(labelled)
          /\ LabelsOf(column) \subseteq Label /\ IsFiniteSet(LabelsOf(column))
          /\ LabelsOf(column) \ {<<>>} = labelled \ {<<>>}
      BY DEF LabelInv
    <3> HIDE DEF new
    <3>4. less \subseteq Label /\ IsFiniteSet(less) /\ more \subseteq Label /\ IsFiniteSet(more)
          /\ IsFiniteSet(labelled \ new) /\ IsFiniteSet(labelled \cup new)
      <4>1. less \in SUBSET LabelsOf(column) /\ labelled \ new \in SUBSET labelled
        OBVIOUS
      <4>2. IsFiniteSet(less) /\ IsFiniteSet(labelled \ new)
        BY <3>3, <4>1, FS_Subset
      <4>3. IsFiniteSet(more) /\ IsFiniteSet(labelled \cup new)
        BY <3>1, <3>3, FS_Union DEF new
      <4> QED
        BY <3>1, <3>3, <4>2, <4>3 DEF new
    <3>5. CASE column' = Join(less) /\ labelled' = labelled \ new
      <4>1. /\ LabelsOf(column') \subseteq Label /\ IsFiniteSet(LabelsOf(column'))
            /\ LabelsOf(column') \ {<<>>} = less \ {<<>>}
        BY <3>4, <3>5, JoinedColumn
      <4>2. less \ {<<>>} = (labelled \ new) \ {<<>>}
        BY <3>3 DEF new
      <4> HIDE DEF less, more
      <4> QED
        BY <2>1, <3>3, <3>4, <3>5, <4>1, <4>2 DEF LabelInv
    <3>6. CASE column' = Join(more) /\ labelled' = labelled \cup new
      <4>1. /\ LabelsOf(column') \subseteq Label /\ IsFiniteSet(LabelsOf(column'))
            /\ LabelsOf(column') \ {<<>>} = more \ {<<>>}
        BY <3>4, <3>6, JoinedColumn
      <4>2. more \ {<<>>} = (labelled \cup new) \ {<<>>}
        BY <3>3 DEF new
      <4>3. labelled \cup new \subseteq Label
        BY <3>1, <3>3 DEF new
      <4> HIDE DEF less, more
      <4> QED
        BY <2>1, <3>4, <3>6, <4>1, <4>2, <4>3 DEF LabelInv
    <3> QED
      BY <3>2, <3>5, <3>6 DEF new
  <2>4. CASE UNCHANGED row
    BY <1>1, <2>1, <2>4
  <2> QED
    BY <2>1, <2>3, <2>4
<1>6. CASE UNCHANGED sessionVars
  BY <1>1, <1>6 DEF sessionVars, epubVars
<1> QED
  BY <1>2, <1>3, <1>4, <1>5, <1>6 DEF SessionNext, EpubNext

\* storage/label.go:11, "To prevent corruption, commas are stripped": of any book, and
\* whatever is typed, the labels column of the row stands for the set of labels that the
\* metadata and set-label gave it; only the empty label comes and goes.
THEOREM ColumnIsSetOfLabels == SessionSpec => []LabelColumnIsSet
<1>1. LabelInv => LabelColumnIsSet
  BY DEF LabelInv, LabelColumnIsSet
<1>2. SessionSpec => []LabelInv
  BY LabelStarts, LabelSteps, SessionHolds, PTL DEF SessionSpec
<1> QED
  BY <1>1, <1>2, PTL

-----------------------------------------------------------------------------
(* A reader's place in a text, character by character                      *)

Character == STRING \cup {"e", "accent", "eaccent", "dash"} \cup Unseen
Gaps == {"first", "line", "word", "letter"}

\* What parts a character from the letter before it, and the next one then.
After(gap, c) ==
    IF c \notin Unseen THEN "letter"
    ELSE IF gap = "first" THEN "first"
    ELSE IF gap = "line" \/ c = "newline" THEN "line"
    ELSE IF gap = "word" \/ c \in Space THEN "word" ELSE "letter"

Between(text, i) == {j \in 1 .. i - 1 : \A k \in j .. i - 1 : text[k] \in Unseen}

LEMMA GapIs ==
    ASSUME NEW text, NEW i
    PROVE  Gap(text, i) =
             IF Between(text, i) = 1 .. i - 1 THEN "first"
             ELSE IF \E j \in Between(text, i) : text[j] = "newline" THEN "line"
             ELSE IF \E j \in Between(text, i) : text[j] \in Space THEN "word" ELSE "letter"
BY DEF Gap, Between

LEMMA GapTyped ==
    ASSUME NEW text, NEW i
    PROVE  Gap(text, i) \in Gaps
BY GapIs DEF Gaps

LEMMA GapOfPrefix ==
    ASSUME NEW s, NEW t, NEW i \in Nat, \A k \in 1 .. i - 1 : s[k] = t[k]
    PROVE  Gap(s, i) = Gap(t, i)
<1>1. Between(s, i) = Between(t, i)
  BY DEF Between
<1>2. \A j \in Between(s, i) : s[j] = t[j]
  BY DEF Between
<1>3. /\ (\E j \in Between(s, i) : s[j] = "newline") <=> (\E j \in Between(t, i) : t[j] = "newline")
      /\ (\E j \in Between(s, i) : s[j] \in Space) <=> (\E j \in Between(t, i) : t[j] \in Space)
  BY <1>1, <1>2
<1> QED
  BY <1>1, <1>3, GapIs

LEMMA GapAppend ==
    ASSUME NEW s \in Seq(Character), NEW c \in Character
    PROVE  Gap(Append(s, c), Len(s) + 2) = After(Gap(s, Len(s) + 1), c)
<1> DEFINE n == Len(s)  t == Append(s, c)
<1>1. n \in Nat /\ t[n + 1] = c /\ \A k \in 1 .. n : t[k] = s[k]
  BY LenProperties, AppendProperties
<1> HIDE DEF n, t
<1> DEFINE B == Between(s, n + 1)  A == Between(t, n + 2)
<1>2. A = {j \in 1 .. n + 1 : \A k \in j .. n + 1 : t[k] \in Unseen}
  <2>1. (n + 2) - 1 = n + 1
    BY <1>1
  <2> QED
    BY <2>1 DEF Between
<1>3. B = {j \in 1 .. n : \A k \in j .. n : t[k] \in Unseen}
  <2>1. (n + 1) - 1 = n
    BY <1>1
  <2> QED
    BY <1>1, <2>1 DEF Between
<1> HIDE DEF A, B
<1>4. Gap(s, n + 1) = IF B = 1 .. n THEN "first"
                      ELSE IF \E j \in B : s[j] = "newline" THEN "line"
                      ELSE IF \E j \in B : s[j] \in Space THEN "word" ELSE "letter"
  <2>1. (n + 1) - 1 = n
    BY <1>1
  <2> QED
    BY <2>1, GapIs DEF B
<1>5. Gap(t, n + 2) = IF A = 1 .. n + 1 THEN "first"
                      ELSE IF \E j \in A : t[j] = "newline" THEN "line"
                      ELSE IF \E j \in A : t[j] \in Space THEN "word" ELSE "letter"
  <2>1. (n + 2) - 1 = n + 1
    BY <1>1
  <2> QED
    BY <2>1, GapIs DEF A
<1>6. CASE c \notin Unseen
  <2>1. A = {}
    BY <1>1, <1>2, <1>6
  <2>2. 1 .. n + 1 # {}
    BY <1>1
  <2> QED
    BY <1>5, <1>6, <2>1, <2>2 DEF After, n, t
<1>7. CASE c \in Unseen
  <2>1. A = B \cup {n + 1}
    BY <1>1, <1>2, <1>3, <1>7
  <2>2. B \subseteq 1 .. n
    BY <1>3
  <2>3. A = 1 .. n + 1 <=> B = 1 .. n
    <3>1. 1 .. n + 1 = (1 .. n) \cup {n + 1} /\ n + 1 \notin 1 .. n
      BY <1>1
    <3> QED
      BY <2>1, <2>2, <3>1
  <2>4. \A j \in B : t[j] = s[j]
    BY <1>1, <2>2
  <2>5. (\E j \in A : t[j] = "newline") <=> c = "newline" \/ \E j \in B : s[j] = "newline"
    BY <1>1, <2>1, <2>4
  <2>6. (\E j \in A : t[j] \in Space) <=> c \in Space \/ \E j \in B : s[j] \in Space
    BY <1>1, <2>1, <2>4
  <2>7. "newline" \in Space
    BY DEF Space, Blank
  <2> DEFINE g == Gap(s, n + 1)
  <2>8. After(g, c) = IF g = "first" THEN "first"
                      ELSE IF g = "line" \/ c = "newline" THEN "line"
                      ELSE IF g = "word" \/ c \in Space THEN "word" ELSE "letter"
    BY <1>7 DEF After
  <2>9. Gap(t, n + 2) = After(g, c)
    BY <1>4, <1>5, <2>3, <2>5, <2>6, <2>8
  <2> QED
    BY <2>9 DEF n, t
<1> QED
  BY <1>6, <1>7

\* What a character adds to what is read.
Read(text, i) == IF text[i] \in Unseen THEN <<>> ELSE <<<<text[i], Gap(text, i)>>>>
Letter == Character \X Gaps

LEMMA ReadTyped ==
    ASSUME NEW s \in Seq(Character), NEW i \in 1 .. Len(s)
    PROVE  Read(s, i) \in Seq(Letter)
<1>1. s[i] \in Character /\ Gap(s, i) \in Gaps
  BY ElementOfSeq, GapTyped
<1>2. <<s[i], Gap(s, i)>> \in Letter
  BY <1>1 DEF Letter
<1>3. \A l \in Letter : <<l>> \in Seq(Letter)
  <2> HIDE DEF Letter
  <2> QED
    OBVIOUS
<1>4. <<>> \in Seq(Letter)
  BY EmptySeq
<1> QED
  BY <1>2, <1>3, <1>4 DEF Read

LEMMA ReadingIs ==
    ASSUME NEW s \in Seq(Character)
    PROVE  /\ Reading(s) = FlattenSeq([i \in 1 .. Len(s) |-> Read(s, i)])
           /\ [i \in 1 .. Len(s) |-> Read(s, i)] \in [1 .. Len(s) -> Seq(Letter)]
           /\ Reading(s) \in Seq(Letter)
<1> DEFINE f == [i \in 1 .. Len(s) |-> Read(s, i)]
<1>1. DOMAIN s = 1 .. Len(s) /\ Len(s) \in Nat
  BY LenProperties
<1>2. Reading(s) = FlattenSeq(f)
  BY <1>1 DEF Reading, Read
<1>3. f \in [1 .. Len(s) -> Seq(Letter)]
  BY ReadTyped
<1> HIDE DEF f
<1>4. f \in Seq(Seq(Letter))
  BY <1>1, <1>3, FunctionIsSeq
<1>5. FlattenSeq(f) \in Seq(Letter)
  BY <1>4, FlattenTyped
<1> QED
  BY <1>2, <1>3, <1>5 DEF f

LEMMA ReadingAppend ==
    ASSUME NEW s \in Seq(Character), NEW c \in Character
    PROVE  Reading(Append(s, c)) =
             Reading(s) \o IF c \in Unseen THEN <<>> ELSE <<<<c, Gap(s, Len(s) + 1)>>>>
<1> DEFINE n == Len(s)  t == Append(s, c)
           g == [i \in 1 .. n |-> Read(s, i)]  f == [i \in 1 .. n + 1 |-> Read(t, i)]
<1>1. /\ n \in Nat /\ t \in Seq(Character) /\ Len(t) = n + 1 /\ t[n + 1] = c
      /\ \A k \in 1 .. n : t[k] = s[k]
  BY LenProperties, AppendProperties
<1>2. \A i \in 1 .. n + 1 : Gap(t, i) = Gap(s, i)
  <2> SUFFICES ASSUME NEW i \in 1 .. n + 1
               PROVE  Gap(t, i) = Gap(s, i)
    OBVIOUS
  <2>1. i \in Nat /\ \A k \in 1 .. i - 1 : k \in 1 .. n
    BY <1>1
  <2>2. \A k \in 1 .. i - 1 : t[k] = s[k]
    BY <1>1, <2>1
  <2> QED
    BY <2>1, <2>2, GapOfPrefix
<1>3. \A i \in 1 .. n : Read(t, i) = Read(s, i)
  <2>1. \A i \in 1 .. n : i \in 1 .. n + 1
    BY <1>1
  <2> QED
    BY <1>1, <1>2, <2>1 DEF Read
<1>4. Reading(t) = FlattenSeq(f) /\ f \in [1 .. n + 1 -> Seq(Letter)]
  BY <1>1, ReadingIs
<1>5. Reading(s) = FlattenSeq(g)
  BY ReadingIs
<1>6. g = [i \in 1 .. n |-> f[i]]
  <2>1. \A i \in 1 .. n : f[i] = Read(s, i)
    BY <1>1, <1>3
  <2> HIDE DEF f
  <2> QED
    BY <2>1
<1>7. n + 1 \in 1 .. n + 1
  BY <1>1
<1>8. f[n + 1] = Read(t, n + 1)
  BY <1>7
<1>9. Read(t, n + 1) = IF c \in Unseen THEN <<>> ELSE <<<<c, Gap(s, n + 1)>>>>
  BY <1>1, <1>2, <1>7 DEF Read
<1> HIDE DEF f, g
<1>10. FlattenSeq(f) = FlattenSeq(g) \o f[n + 1]
  BY <1>1, <1>4, <1>6, FlattenOneMore
<1> QED
  BY <1>4, <1>5, <1>8, <1>9, <1>10 DEF t, n

\* Two texts after which a reader has read the same, and goes on alike.
Same(s, t) == Reading(s) = Reading(t) /\ Gap(s, Len(s) + 1) = Gap(t, Len(t) + 1)

LEMMA SameAppend ==
    ASSUME NEW s \in Seq(Character), NEW t \in Seq(Character), Same(s, t), NEW c \in Character
    PROVE  Same(Append(s, c), Append(t, c))
<1>1. Len(Append(s, c)) = Len(s) + 1 /\ Len(Append(t, c)) = Len(t) + 1
  BY AppendProperties
<1>2. Len(s) \in Nat /\ Len(t) \in Nat
  BY LenProperties
<1>3. Len(Append(s, c)) + 1 = Len(s) + 2 /\ Len(Append(t, c)) + 1 = Len(t) + 2
  BY <1>1, <1>2
<1>4. Gap(Append(s, c), Len(s) + 2) = Gap(Append(t, c), Len(t) + 2)
  BY GapAppend DEF Same
<1>5. Reading(Append(s, c)) = Reading(Append(t, c))
  BY ReadingAppend DEF Same
<1> QED
  BY <1>3, <1>4, <1>5 DEF Same

LEMMA SameConcat ==
    ASSUME NEW s \in Seq(Character), NEW t \in Seq(Character), Same(s, t),
           NEW u \in Seq(Character)
    PROVE  Same(s \o u, t \o u)
<1> DEFINE P == {v \in Seq(Character) : Same(s \o v, t \o v)}
<1>1. <<>> \in P
  <2>1. s \o <<>> = s /\ t \o <<>> = t /\ <<>> \in Seq(Character)
    BY ConcatEmptySeq, EmptySeq
  <2> QED
    BY <2>1
<1>2. ASSUME NEW v \in Seq(Character), NEW c \in Character, v \in P
      PROVE  Append(v, c) \in P
  <2>1. s \o Append(v, c) = Append(s \o v, c) /\ t \o Append(v, c) = Append(t \o v, c)
    BY ConcatAppend
  <2>2. s \o v \in Seq(Character) /\ t \o v \in Seq(Character) /\ Append(v, c) \in Seq(Character)
    BY ConcatProperties, AppendProperties
  <2>3. Same(Append(s \o v, c), Append(t \o v, c))
    BY <1>2, <2>2, SameAppend
  <2> QED
    BY <2>1, <2>2, <2>3
<1> HIDE DEF P
<1>3. Seq(Character) \subseteq P
  BY <1>1, <1>2, AlongSequences
<1>4. u \in P
  BY <1>3
<1> QED
  BY <1>4 DEF P

-----------------------------------------------------------------------------
(* The same, of decomposed texts                                           *)

Parts(c) == IF c = "eaccent" THEN <<"e", "accent">> ELSE <<c>>

LEMMA PartsTyped ==
    ASSUME NEW c \in Character
    PROVE  Parts(c) \in Seq(Character)
<1>1. "e" \in Character /\ "accent" \in Character
  BY DEF Character
<1> HIDE DEF Character
<1> QED
  BY <1>1 DEF Parts

LEMMA DecomposedIs ==
    ASSUME NEW s \in Seq(Character)
    PROVE  /\ Decomposed(s) = FlattenSeq([i \in 1 .. Len(s) |-> Parts(s[i])])
           /\ [i \in 1 .. Len(s) |-> Parts(s[i])] \in [1 .. Len(s) -> Seq(Character)]
           /\ Decomposed(s) \in Seq(Character)
<1> DEFINE f == [i \in 1 .. Len(s) |-> Parts(s[i])]
<1>1. DOMAIN s = 1 .. Len(s) /\ Len(s) \in Nat /\ \A i \in 1 .. Len(s) : s[i] \in Character
  BY LenProperties, ElementOfSeq
<1>2. Decomposed(s) = FlattenSeq(f)
  BY <1>1 DEF Decomposed, Parts
<1>3. f \in [1 .. Len(s) -> Seq(Character)]
  BY <1>1, PartsTyped
<1> HIDE DEF f
<1>4. f \in Seq(Seq(Character))
  BY <1>1, <1>3, FunctionIsSeq
<1>5. FlattenSeq(f) \in Seq(Character)
  BY <1>4, FlattenTyped
<1> QED
  BY <1>2, <1>3, <1>5 DEF f

LEMMA DecomposedAppend ==
    ASSUME NEW s \in Seq(Character), NEW c \in Character
    PROVE  Decomposed(Append(s, c)) = Decomposed(s) \o Parts(c)
<1> DEFINE n == Len(s)  t == Append(s, c)
           g == [i \in 1 .. n |-> Parts(s[i])]  f == [i \in 1 .. n + 1 |-> Parts(t[i])]
<1>1. /\ n \in Nat /\ t \in Seq(Character) /\ Len(t) = n + 1 /\ t[n + 1] = c
      /\ \A k \in 1 .. n : t[k] = s[k]
  BY LenProperties, AppendProperties
<1>2. Decomposed(t) = FlattenSeq(f) /\ f \in [1 .. n + 1 -> Seq(Character)]
  BY <1>1, DecomposedIs
<1>3. Decomposed(s) = FlattenSeq(g)
  BY DecomposedIs
<1>4. g = [i \in 1 .. n |-> f[i]]
  <2>1. \A i \in 1 .. n : f[i] = Parts(s[i])
    BY <1>1
  <2> HIDE DEF f
  <2> QED
    BY <2>1
<1>5. f[n + 1] = Parts(c)
  BY <1>1
<1> HIDE DEF f, g
<1>6. FlattenSeq(f) = FlattenSeq(g) \o f[n + 1]
  BY <1>1, <1>2, <1>4, FlattenOneMore
<1> QED
  BY <1>2, <1>3, <1>5, <1>6 DEF t

LEMMA DecomposedEmpty == Decomposed(<<>>) = <<>>
<1>1. [i \in DOMAIN <<>> |-> IF <<>>[i] = "eaccent" THEN <<"e", "accent">> ELSE <<<<>>[i]>>] = <<>>
  OBVIOUS
<1> QED
  BY <1>1, FlattenEmpty DEF Decomposed

LEMMA DecomposedConcat ==
    ASSUME NEW s \in Seq(Character), NEW u \in Seq(Character)
    PROVE  Decomposed(s \o u) = Decomposed(s) \o Decomposed(u)
<1> DEFINE P == {v \in Seq(Character) : Decomposed(s \o v) = Decomposed(s) \o Decomposed(v)}
<1>1. <<>> \in P
  <2>1. s \o <<>> = s /\ <<>> \in Seq(Character)
    BY ConcatEmptySeq, EmptySeq
  <2>2. Decomposed(s) \o <<>> = Decomposed(s)
    BY DecomposedIs, ConcatEmptySeq
  <2> QED
    BY <2>1, <2>2, DecomposedEmpty
<1>2. ASSUME NEW v \in Seq(Character), NEW c \in Character, v \in P
      PROVE  Append(v, c) \in P
  <2>1. s \o Append(v, c) = Append(s \o v, c)
    BY ConcatAppend
  <2>2. s \o v \in Seq(Character) /\ Append(v, c) \in Seq(Character)
    BY ConcatProperties, AppendProperties
  <2>3. Decomposed(Append(s \o v, c)) = (Decomposed(s) \o Decomposed(v)) \o Parts(c)
    BY <1>2, <2>2, DecomposedAppend
  <2>4. Decomposed(Append(v, c)) = Decomposed(v) \o Parts(c)
    BY DecomposedAppend
  <2>5. (Decomposed(s) \o Decomposed(v)) \o Parts(c) = Decomposed(s) \o (Decomposed(v) \o Parts(c))
    BY DecomposedIs, PartsTyped, ConcatAssociative, SMTT(20)
  <2> QED
    BY <2>1, <2>2, <2>3, <2>4, <2>5
<1> HIDE DEF P
<1>3. Seq(Character) \subseteq P
  BY <1>1, <1>2, AlongSequences
<1>4. u \in P
  BY <1>3
<1> QED
  BY <1>4 DEF P

Alike(s, t) == Same(Decomposed(s), Decomposed(t))

LEMMA AlikeConcat ==
    ASSUME NEW s \in Seq(Character), NEW t \in Seq(Character), Alike(s, t),
           NEW u \in Seq(Character)
    PROVE  Alike(s \o u, t \o u)
<1>1. /\ Decomposed(s) \in Seq(Character) /\ Decomposed(t) \in Seq(Character)
      /\ Decomposed(u) \in Seq(Character)
  BY DecomposedIs
<1>2. Same(Decomposed(s) \o Decomposed(u), Decomposed(t) \o Decomposed(u))
  BY <1>1, SameConcat DEF Alike
<1> QED
  BY <1>2, DecomposedConcat DEF Alike

\* What parts the letter that comes next from the last one.
GapAfter(s) == Gap(Decomposed(s), Len(Decomposed(s)) + 1)

LEMMA AppendUnseen ==
    ASSUME NEW s \in Seq(Character), NEW c \in Unseen
    PROVE  /\ Append(s, c) \in Seq(Character) /\ GapAfter(Append(s, c)) = After(GapAfter(s), c)
           /\ Reading(Decomposed(Append(s, c))) = Reading(Decomposed(s))
<1> DEFINE d == Decomposed(s)
<1>1. d \in Seq(Character) /\ Len(d) \in Nat
  BY DecomposedIs, LenProperties
<1>2. c # "eaccent" /\ c \in Character
  BY DEF Unseen, Space, Blank, Format, Character
<1>3. Decomposed(Append(s, c)) = d \o <<c>>
  BY <1>2, DecomposedAppend DEF Parts
<1> HIDE DEF d
<1>4. d \o <<c>> = Append(d, c) /\ Len(Append(d, c)) = Len(d) + 1
  BY <1>1, <1>2, AppendIsConcat, AppendProperties
<1>5. Gap(Append(d, c), Len(d) + 2) = After(Gap(d, Len(d) + 1), c)
  BY <1>1, <1>2, GapAppend
<1>6. Len(Append(d, c)) + 1 = Len(d) + 2
  BY <1>1, <1>4
<1>7. Reading(Append(d, c)) = Reading(d)
  <2>1. Reading(Append(d, c)) = Reading(d) \o <<>>
    BY <1>1, <1>2, ReadingAppend
  <2> QED
    BY <1>1, <2>1, ReadingIs, ConcatEmptySeq
<1>8. Append(s, c) \in Seq(Character)
  BY <1>2, AppendProperties
<1> QED
  BY <1>3, <1>4, <1>5, <1>6, <1>7, <1>8 DEF GapAfter, d

-----------------------------------------------------------------------------
(* What cleaning a text leaves as it is                                    *)

LEMMA AlikeTrans ==
    ASSUME NEW s, NEW t, NEW u, Alike(s, t), Alike(t, u)
    PROVE  Alike(s, u) /\ Alike(t, s)
BY DEF Alike, Same

LEMMA PrefixTyped ==
    ASSUME NEW S, NEW x \in Seq(S), NEW i \in 0 .. Len(x)
    PROVE  SubSeq(x, 1, i) \in Seq(S) /\ Len(SubSeq(x, 1, i)) = i
<1>1. Len(x) \in Nat /\ \A j \in 1 .. Len(x) : x[j] \in S
  BY LenProperties, ElementOfSeq
<1>2. i \in Int /\ \A j \in 1 .. i : x[j] \in S
  BY <1>1
<1>3. SubSeq(x, 1, i) \in Seq(S) /\ Len(SubSeq(x, 1, i)) = IF 1 <= i THEN i - 1 + 1 ELSE 0
  BY <1>2, SubSeqProperties
<1> QED
  BY <1>1, <1>3

\* Pieces that are the characters of a text, but for those that add nothing to it.
Drops(s, x, p) ==
    \A i \in 0 .. Len(x) : i # Len(x) =>
        \/ p[i + 1] = <<x[i + 1]>>
        \/ p[i + 1] = <<>> /\ Alike(s \o SubSeq(x, 1, i + 1), s \o SubSeq(x, 1, i))

LEMMA PieceByPiece ==
    ASSUME NEW s \in Seq(Character), NEW x \in Seq(Character),
           NEW p \in [1 .. Len(x) -> Seq(Character)], Drops(s, x, p)
    PROVE  FlattenSeq(p) \in Seq(Character) /\ Alike(s \o FlattenSeq(p), s \o x)
<1> DEFINE n == Len(x)  part(i) == [j \in 1 .. i |-> p[j]]  F(i) == FlattenSeq(part(i))
           T == {i \in 0 .. n : Alike(s \o F(i), s \o SubSeq(x, 1, i))}
<1>1. n \in Nat /\ \A j \in 1 .. n : x[j] \in Character
  BY LenProperties, ElementOfSeq
<1>2. ASSUME NEW i \in 0 .. n
      PROVE  F(i) \in Seq(Character)
  <2>1. part(i) \in [1 .. i -> Seq(Character)] /\ i \in Nat
    BY <1>1
  <2> HIDE DEF part
  <2>2. part(i) \in Seq(Seq(Character))
    BY <2>1, FunctionIsSeq
  <2> QED
    BY <2>2, FlattenTyped
<1>3. ASSUME NEW i \in 0 .. n, i # n
      PROVE  F(i + 1) = F(i) \o p[i + 1]
  <2> DEFINE f == part(i + 1)  g == part(i)
  <2>1. f \in [1 .. i + 1 -> Seq(Character)] /\ g = [j \in 1 .. i |-> f[j]]
        /\ f[i + 1] = p[i + 1] /\ i \in Nat
    <3>1. i \in Nat /\ i + 1 \in 1 .. i + 1 /\ \A j \in 1 .. i + 1 : j \in 1 .. n
      BY <1>1, <1>3
    <3>2. \A j \in 1 .. i : j \in 1 .. i + 1
      BY <3>1
    <3>3. f \in [1 .. i + 1 -> Seq(Character)]
      BY <3>1
    <3>4. \A j \in 1 .. i : f[j] = p[j]
      BY <3>2
    <3>5. g = [j \in 1 .. i |-> f[j]]
      <4> HIDE DEF f
      <4> QED
        BY <3>4
    <3> QED
      BY <3>1, <3>3, <3>5
  <2> HIDE DEF f, g
  <2>2. FlattenSeq(f) = FlattenSeq(g) \o f[i + 1]
    BY <2>1, FlattenOneMore
  <2> QED
    BY <2>1, <2>2 DEF f, g
<1>4. 0 \in T
  <2>1. part(0) = <<>>
    OBVIOUS
  <2>2. F(0) = <<>>
    BY <2>1, FlattenEmpty
  <2>3. SubSeq(x, 1, 0) = <<>>
    BY SubSeqEmpty
  <2>4. s \o F(0) = s \o SubSeq(x, 1, 0)
    BY <2>2, <2>3, Zenon
  <2>5. Alike(s \o F(0), s \o SubSeq(x, 1, 0))
    <3> HIDE DEF F
    <3> QED
      BY <2>4 DEF Alike, Same
  <2> HIDE DEF F
  <2>6. 0 \in 0 .. n
    BY <1>1
  <2> QED
    BY <2>5, <2>6, Zenon
<1>5. ASSUME NEW i \in 0 .. n, i # n, i \in T
      PROVE  i + 1 \in T
  <2> DEFINE u == SubSeq(x, 1, i)  v == SubSeq(x, 1, i + 1)  c == x[i + 1]
  <2>1. i + 1 \in 0 .. n /\ c \in Character
    BY <1>1, <1>5
  <2>2. u \in Seq(Character) /\ v = Append(u, c)
    BY <1>5, PrefixTyped, AppendAfterPrefix
  <2>3. F(i) \in Seq(Character) /\ F(i + 1) = F(i) \o p[i + 1]
    BY <1>2, <1>3, <1>5
  <2>4. Alike(s \o F(i), s \o u)
    BY <1>5
  <2> HIDE DEF F, c, u, v
  <2>5. CASE p[i + 1] = <<c>>
    <3>1. <<c>> \in Seq(Character)
      BY <2>1
    <3>2. Alike((s \o F(i)) \o <<c>>, (s \o u) \o <<c>>)
      BY <2>2, <2>3, <2>4, <3>1, ConcatProperties, AlikeConcat
    <3>3. (s \o F(i)) \o <<c>> = s \o F(i + 1)
      <4>1. F(i + 1) = F(i) \o <<c>>
        BY <2>3, <2>5, Zenon
      <4>2. (s \o F(i)) \o <<c>> = s \o (F(i) \o <<c>>)
        BY <2>3, <3>1, ConcatAssociative, SMTT(20)
      <4> QED
        BY <4>1, <4>2, Zenon
    <3>4. (s \o u) \o <<c>> = s \o v
      BY <2>1, <2>2, <3>1, ConcatAssociative, AppendIsConcat, SMTT(20)
    <3> QED
      BY <2>1, <3>2, <3>3, <3>4 DEF v
  <2>6. CASE p[i + 1] = <<>> /\ Alike(s \o v, s \o u)
    <3>1. F(i + 1) = F(i)
      BY <2>3, <2>6, ConcatEmptySeq
    <3>2. Alike(s \o F(i + 1), s \o v)
      BY <2>4, <2>6, <3>1 DEF Alike, Same
    <3> QED
      BY <2>1, <3>2 DEF v
  <2> QED
    BY <1>5, <2>5, <2>6 DEF Drops, c, u, v
<1> HIDE DEF T
<1>6. 0 .. n \subseteq T
  BY <1>1, <1>4, <1>5, UpTo
<1>7. n \in T /\ n \in 0 .. n
  BY <1>1, <1>6
<1>8. part(n) = p /\ SubSeq(x, 1, n) = x
  <2>1. part(n) = p
    OBVIOUS
  <2> QED
    BY <2>1, SubSeqFull
<1>9. F(n) = FlattenSeq(p)
  BY <1>8
<1> HIDE DEF F, n
<1>10. Alike(s \o F(n), s \o SubSeq(x, 1, n))
  BY <1>7 DEF T
<1> QED
  BY <1>2, <1>7, <1>8, <1>9, <1>10

LEMMA NextPlace ==
    ASSUME NEW n \in Nat, NEW i \in 0 .. n, i # n
    PROVE  /\ i \in Nat /\ i + 1 \in 1 .. n /\ i + 1 \in 0 .. n
           /\ (i + 1 < n <=> i + 1 # n) /\ (i + 1 > 1 <=> i # 0)
           /\ (i + 1) - 1 = i /\ i + 1 # 0
           /\ i \in (i + 1) - 2 .. i + 1 /\ i + 1 \in (i + 1) - 2 .. i + 1
           /\ i + 1 > 2 => i - 1 \in 0 .. n /\ i - 1 # n /\ (i - 1) + 1 = i
OBVIOUS

LEMMA CollapseLinesReads ==
    ASSUME NEW s \in Seq(Character), NEW x \in Seq(Character)
    PROVE  /\ CollapseLines(x) \in Seq(Character)
           /\ Alike(s \o CollapseLines(x), s \o x)
<1> DEFINE p == [i \in 1 .. Len(x) |->
                    IF i > 2 /\ \A j \in i - 2 .. i : x[j] = "newline" THEN <<>> ELSE <<x[i]>>]
<1>1. Len(x) \in Nat /\ DOMAIN x = 1 .. Len(x) /\ \A i \in 1 .. Len(x) : x[i] \in Character
  BY LenProperties, ElementOfSeq
<1>2. p \in [1 .. Len(x) -> Seq(Character)]
  <2>1. \A i \in 1 .. Len(x) : <<x[i]>> \in Seq(Character)
    BY <1>1
  <2>2. <<>> \in Seq(Character)
    BY EmptySeq
  <2> QED
    BY <2>1, <2>2
<1>3. Drops(s, x, p)
  <2> SUFFICES ASSUME NEW i \in 0 .. Len(x), i # Len(x)
               PROVE  \/ p[i + 1] = <<x[i + 1]>>
                      \/ /\ p[i + 1] = <<>>
                         /\ Alike(s \o SubSeq(x, 1, i + 1), s \o SubSeq(x, 1, i))
    BY DEF Drops
  <2>1. i + 1 \in 1 .. Len(x)
    BY <1>1, NextPlace
  <2>2. CASE ~(i + 1 > 2 /\ \A j \in (i + 1) - 2 .. i + 1 : x[j] = "newline")
    BY <2>1, <2>2
  <2>3. CASE i + 1 > 2 /\ \A j \in (i + 1) - 2 .. i + 1 : x[j] = "newline"
    <3>1. p[i + 1] = <<>>
      BY <2>1, <2>3
    <3>2. i \in (i + 1) - 2 .. i + 1 /\ i + 1 \in (i + 1) - 2 .. i + 1
      BY <1>1, NextPlace
    <3>3. x[i] = "newline" /\ x[i + 1] = "newline"
      BY <2>3, <3>2
    <3> DEFINE u == SubSeq(x, 1, i - 1)  v == s \o u
    <3>4. i - 1 \in 0 .. Len(x) /\ i - 1 # Len(x) /\ (i - 1) + 1 = i
      BY <1>1, <2>3, NextPlace
    <3>5. u \in Seq(Character) /\ SubSeq(x, 1, i) = Append(u, "newline")
      BY <3>3, <3>4, PrefixTyped, AppendAfterPrefix
    <3>6. SubSeq(x, 1, i + 1) = Append(SubSeq(x, 1, i), "newline")
      BY <3>3, AppendAfterPrefix
    <3>7. "newline" \in Unseen /\ "newline" \in Character
      BY DEF Unseen, Space, Blank, Character
    <3> HIDE DEF u, p
    <3>8. v \in Seq(Character) /\ s \o SubSeq(x, 1, i) = Append(v, "newline")
      <4>1. v \in Seq(Character)
        BY <3>5, ConcatProperties DEF v
      <4>2. s \o Append(u, "newline") = Append(s \o u, "newline")
        BY <3>5, <3>7, ConcatAppend
      <4> QED
        BY <3>5, <4>1, <4>2 DEF v
    <3>9. s \o SubSeq(x, 1, i + 1) = Append(Append(v, "newline"), "newline")
      <4>1. SubSeq(x, 1, i) \in Seq(Character)
        BY PrefixTyped
      <4>2. s \o Append(SubSeq(x, 1, i), "newline") = Append(s \o SubSeq(x, 1, i), "newline")
        BY <3>7, <4>1, ConcatAppend
      <4> QED
        BY <3>6, <3>8, <4>2, Zenon
    <3> HIDE DEF v
    <3> DEFINE w == Append(v, "newline")
    <3>10. w \in Seq(Character) /\ GapAfter(w) = After(GapAfter(v), "newline")
      BY <3>7, <3>8, AppendUnseen
    <3>11. GapAfter(w) \in {"first", "line"}
      BY <3>7, <3>10 DEF After
    <3> HIDE DEF w
    <3>12. GapAfter(Append(w, "newline")) = GapAfter(w)
           /\ Reading(Decomposed(Append(w, "newline"))) = Reading(Decomposed(w))
      <4>1. After(GapAfter(w), "newline") = GapAfter(w)
        BY <3>7, <3>11 DEF After
      <4> QED
        BY <3>7, <3>10, <4>1, AppendUnseen
    <3>13. Alike(Append(w, "newline"), w)
      BY <3>12 DEF Alike, Same, GapAfter
    <3> QED
      BY <3>1, <3>8, <3>9, <3>13 DEF w
  <2> QED
    BY <2>2, <2>3
<1>4. CollapseLines(x) = FlattenSeq(p)
  BY <1>1 DEF CollapseLines
<1> HIDE DEF p
<1> QED
  BY <1>2, <1>3, <1>4, PieceByPiece

LEMMA WithoutFormatReads ==
    ASSUME NEW x \in Seq(Character)
    PROVE  WithoutFormat(x) \in Seq(Character) /\ Alike(WithoutFormat(x), x)
<1> DEFINE p == [i \in 1 .. Len(x) |-> IF x[i] \in Format THEN <<>> ELSE <<x[i]>>]
<1>1. Len(x) \in Nat /\ DOMAIN x = 1 .. Len(x) /\ \A i \in 1 .. Len(x) : x[i] \in Character
  BY LenProperties, ElementOfSeq
<1>2. p \in [1 .. Len(x) -> Seq(Character)]
  <2>1. \A i \in 1 .. Len(x) : <<x[i]>> \in Seq(Character)
    BY <1>1
  <2>2. <<>> \in Seq(Character)
    BY EmptySeq
  <2> QED
    BY <2>1, <2>2
<1>3. <<>> \in Seq(Character) /\ <<>> \o x = x
  BY EmptySeq, ConcatEmptySeq
<1>4. Drops(<<>>, x, p)
  <2> SUFFICES ASSUME NEW i \in 0 .. Len(x), i # Len(x)
               PROVE  \/ p[i + 1] = <<x[i + 1]>>
                      \/ /\ p[i + 1] = <<>>
                         /\ Alike(<<>> \o SubSeq(x, 1, i + 1), <<>> \o SubSeq(x, 1, i))
    BY DEF Drops
  <2>1. i + 1 \in 1 .. Len(x)
    BY <1>1, NextPlace
  <2>2. CASE x[i + 1] \notin Format
    BY <2>1, <2>2
  <2>3. CASE x[i + 1] \in Format
    <3>1. p[i + 1] = <<>>
      BY <2>1, <2>3
    <3> DEFINE u == SubSeq(x, 1, i)  c == x[i + 1]
    <3>2. u \in Seq(Character) /\ SubSeq(x, 1, i + 1) = Append(u, c)
      BY PrefixTyped, AppendAfterPrefix
    <3>3. c \in Unseen /\ c # "newline" /\ c \notin Space
      BY <2>3 DEF Unseen, Format, Space, Blank
    <3>4. After(GapAfter(u), c) = GapAfter(u)
      BY <3>3, GapTyped DEF After, GapAfter, Gaps
    <3> HIDE DEF u, c, p
    <3>5. Append(u, c) \in Seq(Character) /\ Alike(Append(u, c), u)
      <4>1. /\ Append(u, c) \in Seq(Character)
            /\ GapAfter(Append(u, c)) = GapAfter(u)
            /\ Reading(Decomposed(Append(u, c))) = Reading(Decomposed(u))
        BY <3>2, <3>3, <3>4, AppendUnseen
      <4> QED
        BY <4>1 DEF Alike, Same, GapAfter
    <3>6. <<>> \o Append(u, c) = Append(u, c) /\ <<>> \o u = u
      BY <3>2, <3>5, ConcatEmptySeq
    <3> QED
      BY <3>1, <3>2, <3>5, <3>6 DEF u
  <2> QED
    BY <2>2, <2>3
<1>5. WithoutFormat(x) = FlattenSeq(p)
  BY <1>1 DEF WithoutFormat
<1> HIDE DEF p
<1>6. FlattenSeq(p) \in Seq(Character) /\ Alike(<<>> \o FlattenSeq(p), <<>> \o x)
  BY <1>2, <1>3, <1>4, PieceByPiece
<1>7. <<>> \o FlattenSeq(p) = FlattenSeq(p)
  BY <1>6, ConcatEmptySeq
<1> QED
  BY <1>3, <1>5, <1>6, <1>7

\* What Nfc makes of the first i characters lacks the accent that the last of
\* them has taken on in front.
Ahead(x, i) ==
    IF i # 0 /\ i # Len(x) /\ x[i] = "e" /\ x[i + 1] = "accent" THEN <<"accent">> ELSE <<>>

LEMMA NfcReads ==
    ASSUME NEW x \in Seq(Character)
    PROVE  Nfc(x) \in Seq(Character) /\ Decomposed(Nfc(x)) = Decomposed(x)
<1> DEFINE n == Len(x)
           p == [i \in 1 .. n |->
                    CASE x[i] = "e" /\ i < n /\ x[i + 1] = "accent" -> <<"eaccent">>
                      [] x[i] = "accent" /\ i > 1 /\ x[i - 1] = "e" -> <<>>
                      [] OTHER -> <<x[i]>>]
<1>1. n \in Nat /\ DOMAIN x = 1 .. n /\ \A i \in 1 .. n : x[i] \in Character
  BY LenProperties, ElementOfSeq
<1>2. /\ <<"eaccent">> \in Seq(Character) /\ <<"accent">> \in Seq(Character)
      /\ <<"e">> \in Seq(Character) /\ <<>> \in Seq(Character)
      /\ \A c \in Character : <<c>> \in Seq(Character)
      /\ "e" \in Character /\ "accent" \in Character /\ "eaccent" \in Character
  <2>1. "e" \in Character /\ "accent" \in Character /\ "eaccent" \in Character
    BY DEF Character
  <2> HIDE DEF Character
  <2> QED
    BY <2>1, EmptySeq
<1>3. p \in [1 .. n -> Seq(Character)]
  <2>1. ASSUME NEW i \in 1 .. n
        PROVE  p[i] \in Seq(Character)
    <3>1. <<x[i]>> \in Seq(Character)
      BY <1>1, <1>2
    <3> QED
      BY <1>2, <3>1
  <2>2. p = [i \in 1 .. n |-> p[i]]
    OBVIOUS
  <2> HIDE DEF p
  <2> QED
    BY <2>1, <2>2
<1>4. Nfc(x) = FlattenSeq(p)
  BY <1>1 DEF Nfc
<1>5. ASSUME NEW i \in 0 .. n, i # n
      PROVE  LET c == x[i + 1] IN
             \/ c = "e" /\ p[i + 1] = <<"eaccent">> /\ Ahead(x, i) = <<>>
                        /\ Ahead(x, i + 1) = <<"accent">>
             \/ c = "accent" /\ p[i + 1] = <<>> /\ Ahead(x, i) = <<"accent">>
                             /\ Ahead(x, i + 1) = <<>>
             \/ p[i + 1] = <<c>> /\ Ahead(x, i) = <<>> /\ Ahead(x, i + 1) = <<>>
  <2>1. /\ i + 1 \in 1 .. n /\ (i + 1 < n <=> i + 1 # n) /\ (i + 1 > 1 <=> i # 0)
        /\ (i + 1) - 1 = i /\ i + 1 # 0
    BY <1>1, <1>5, NextPlace
  <2>2. p[i + 1] = CASE x[i + 1] = "e" /\ i + 1 < n /\ x[(i + 1) + 1] = "accent" -> <<"eaccent">>
                     [] x[i + 1] = "accent" /\ i + 1 > 1 /\ x[(i + 1) - 1] = "e" -> <<>>
                     [] OTHER -> <<x[i + 1]>>
    BY <2>1
  <2>3. CASE x[i + 1] = "e" /\ i + 1 < n /\ x[(i + 1) + 1] = "accent"
    BY <2>1, <2>2, <2>3 DEF Ahead
  <2>4. CASE x[i + 1] = "accent" /\ i + 1 > 1 /\ x[(i + 1) - 1] = "e"
    BY <1>5, <2>1, <2>2, <2>4 DEF Ahead
  <2>5. CASE /\ ~(x[i + 1] = "e" /\ i + 1 < n /\ x[(i + 1) + 1] = "accent")
             /\ ~(x[i + 1] = "accent" /\ i + 1 > 1 /\ x[(i + 1) - 1] = "e")
    BY <2>1, <2>2, <2>5 DEF Ahead
  <2> QED
    BY <2>3, <2>4, <2>5
<1> HIDE DEF p
<1>6. p \in Seq(Seq(Character)) /\ Len(p) = n
  BY <1>1, <1>3, FunctionIsSeq
<1>7. PICK f : IsFlattened(Character, p, f)
  BY <1>6, FlattenIs
<1>8. /\ f \in [0 .. n -> Seq(Character)] /\ f[0] = <<>> /\ FlattenSeq(p) = f[n]
      /\ \A i \in 0 .. n : i # n => f[i + 1] = f[i] \o p[i + 1]
  BY <1>6, <1>7 DEF IsFlattened
<1> DEFINE D(i) == Decomposed(SubSeq(x, 1, i))
           T == {i \in 0 .. n : Decomposed(f[i]) = D(i) \o Ahead(x, i)}
<1>9. 0 \in T
  <2>1. SubSeq(x, 1, 0) = <<>>
    BY SubSeqEmpty
  <2>2. D(0) = <<>>
    BY <2>1, DecomposedEmpty
  <2>3. Ahead(x, 0) = <<>>
    BY DEF Ahead
  <2>4. Decomposed(f[0]) = <<>>
    BY <1>8, DecomposedEmpty
  <2> HIDE DEF D
  <2>5. D(0) \o Ahead(x, 0) = <<>>
    BY <1>2, <2>2, <2>3, ConcatEmptySeq
  <2>6. 0 \in 0 .. n
    BY <1>1
  <2> QED
    BY <2>4, <2>5, <2>6, Zenon
<1>10. ASSUME NEW i \in 0 .. n, i # n, i \in T
       PROVE  i + 1 \in T
  <2> DEFINE u == SubSeq(x, 1, i)  v == SubSeq(x, 1, i + 1)  c == x[i + 1]
  <2>1. i + 1 \in 0 .. n /\ c \in Character
    BY <1>1, <1>10, NextPlace
  <2>2. u \in Seq(Character) /\ v = Append(u, c)
    BY <1>10, PrefixTyped, AppendAfterPrefix
  <2>3. f[i] \in Seq(Character) /\ f[i + 1] = f[i] \o p[i + 1] /\ p[i + 1] \in Seq(Character)
    <3>1. i + 1 \in 1 .. n
      BY <1>1, <1>10, NextPlace
    <3> QED
      BY <1>3, <1>8, <1>10, <3>1
  <2>4. Decomposed(f[i]) = D(i) \o Ahead(x, i) /\ D(i) = Decomposed(u)
        /\ D(i + 1) = Decomposed(v)
    BY <1>10
  <2>5. \/ c = "e" /\ p[i + 1] = <<"eaccent">> /\ Ahead(x, i) = <<>>
                   /\ Ahead(x, i + 1) = <<"accent">>
        \/ c = "accent" /\ p[i + 1] = <<>> /\ Ahead(x, i) = <<"accent">>
                        /\ Ahead(x, i + 1) = <<>>
        \/ p[i + 1] = <<c>> /\ Ahead(x, i) = <<>> /\ Ahead(x, i + 1) = <<>>
    BY <1>5, <1>10
  <2> HIDE DEF u, v, c, D
  <2> DEFINE d == Decomposed(u)
  <2>6. d \in Seq(Character) /\ Decomposed(v) = d \o Parts(c)
    BY <2>1, <2>2, DecomposedAppend, DecomposedIs
  <2>7. \A e \in Character : Decomposed(f[i] \o <<e>>) = Decomposed(f[i]) \o Parts(e)
    <3> SUFFICES ASSUME NEW e \in Character
                 PROVE  Decomposed(f[i] \o <<e>>) = Decomposed(f[i]) \o Parts(e)
      OBVIOUS
    <3>1. f[i] \o <<e>> = Append(f[i], e)
      BY <2>3, AppendIsConcat
    <3>2. Decomposed(Append(f[i], e)) = Decomposed(f[i]) \o Parts(e)
      BY <2>3, DecomposedAppend
    <3> QED
      BY <3>1, <3>2, Zenon
  <2> HIDE DEF d
  <2>8. D(i) = d /\ D(i + 1) = d \o Parts(c) /\ d \o <<>> = d
    BY <2>4, <2>6, ConcatEmptySeq DEF d
  <2>9. Decomposed(f[i + 1]) = D(i + 1) \o Ahead(x, i + 1)
    <3>1. CASE c = "e" /\ p[i + 1] = <<"eaccent">> /\ Ahead(x, i) = <<>>
               /\ Ahead(x, i + 1) = <<"accent">>
      <4>1. Decomposed(f[i]) = d
        BY <2>4, <2>8, <3>1
      <4>2. Decomposed(f[i + 1]) = d \o Parts("eaccent")
        BY <1>2, <2>3, <2>7, <3>1, <4>1
      <4>3. Parts("eaccent") = <<"e">> \o <<"accent">> /\ Parts(c) = <<"e">>
        BY <3>1 DEF Parts
      <4>4. d \o (<<"e">> \o <<"accent">>) = (d \o <<"e">>) \o <<"accent">>
        BY <1>2, <2>6, ConcatAssociative
      <4> QED
        BY <2>8, <3>1, <4>2, <4>3, <4>4, Zenon
    <3>2. CASE c = "accent" /\ p[i + 1] = <<>> /\ Ahead(x, i) = <<"accent">>
               /\ Ahead(x, i + 1) = <<>>
      <4>1. f[i + 1] = f[i]
        BY <2>3, <3>2, ConcatEmptySeq
      <4>2. Parts(c) = <<"accent">>
        BY <3>2 DEF Parts
      <4>3. (d \o <<"accent">>) \o <<>> = d \o <<"accent">>
        BY <1>2, <2>6, ConcatEmptySeq, ConcatProperties
      <4> QED
        BY <2>4, <2>8, <3>2, <4>1, <4>2, <4>3, Zenon
    <3>3. CASE p[i + 1] = <<c>> /\ Ahead(x, i) = <<>> /\ Ahead(x, i + 1) = <<>>
      <4>1. Decomposed(f[i]) = d
        BY <2>4, <2>8, <3>3
      <4>2. Decomposed(f[i + 1]) = d \o Parts(c)
        BY <2>1, <2>3, <2>7, <3>3, <4>1
      <4>3. (d \o Parts(c)) \o <<>> = d \o Parts(c)
        BY <2>1, <2>6, PartsTyped, ConcatEmptySeq, ConcatProperties
      <4> QED
        BY <2>8, <3>3, <4>2, <4>3, Zenon
    <3> QED
      BY <2>5, <3>1, <3>2, <3>3
  <2> QED
    BY <2>1, <2>9 DEF T
<1> HIDE DEF T
<1>11. 0 .. n \subseteq T
  BY <1>1, <1>9, <1>10, UpTo
<1>12. n \in T /\ n \in 0 .. n
  BY <1>1, <1>11
<1>13. SubSeq(x, 1, n) = x /\ Ahead(x, n) = <<>>
  BY SubSeqFull DEF Ahead
<1>14. Decomposed(f[n]) = Decomposed(x) \o <<>>
  BY <1>12, <1>13 DEF T
<1>15. Decomposed(x) \o <<>> = Decomposed(x)
  BY DecomposedIs, ConcatEmptySeq
<1>16. f[n] \in Seq(Character)
  BY <1>8, <1>12
<1> QED
  BY <1>4, <1>8, <1>14, <1>15, <1>16

LEMMA SpacesRead ==
    ASSUME NEW s \in Seq(Character), NEW v \in Seq(Space)
    PROVE  /\ v \in Seq(Character) /\ s \o v \in Seq(Character)
           /\ Reading(Decomposed(s \o v)) = Reading(Decomposed(s))
           /\ GapAfter(s \o v) = "first" <=> GapAfter(s) = "first"
           /\ GapAfter(s) \in {"first", "line"} => GapAfter(s \o v) = GapAfter(s)
<1> DEFINE Q(w) == /\ Reading(Decomposed(s \o w)) = Reading(Decomposed(s))
                   /\ GapAfter(s \o w) = "first" <=> GapAfter(s) = "first"
                   /\ GapAfter(s) \in {"first", "line"} => GapAfter(s \o w) = GapAfter(s)
           P == {w \in Seq(Space) : w \in Seq(Character) /\ Q(w)}
<1>1. <<>> \in P
  <2>1. s \o <<>> = s /\ <<>> \in Seq(Character) /\ <<>> \in Seq(Space)
    BY ConcatEmptySeq, EmptySeq
  <2>2. Q(<<>>)
    BY <2>1
  <2> HIDE DEF Q
  <2> QED
    BY <2>1, <2>2
<1>2. ASSUME NEW w \in Seq(Space), NEW c \in Space, w \in P
      PROVE  Append(w, c) \in P
  <2>1. w \in Seq(Character) /\ Q(w)
    BY <1>2
  <2>2. c \in Character /\ c \in Unseen
    BY DEF Unseen, Character
  <2>3. s \o Append(w, c) = Append(s \o w, c) /\ s \o w \in Seq(Character)
    BY <2>1, <2>2, ConcatAppend, ConcatProperties
  <2>4. Append(w, c) \in Seq(Character) /\ Append(w, c) \in Seq(Space)
    BY <2>1, <2>2, AppendProperties
  <2> DEFINE t == s \o w
  <2> HIDE DEF t
  <2>5. /\ GapAfter(Append(t, c)) = After(GapAfter(t), c)
        /\ Reading(Decomposed(Append(t, c))) = Reading(Decomposed(t))
    BY <2>2, <2>3, AppendUnseen DEF t
  <2>6. /\ After(GapAfter(t), c) = "first" <=> GapAfter(t) = "first"
        /\ GapAfter(t) \in {"first", "line"} => After(GapAfter(t), c) = GapAfter(t)
    BY <2>2 DEF After
  <2>7. Q(Append(w, c))
    BY <2>1, <2>3, <2>5, <2>6 DEF t
  <2> HIDE DEF Q
  <2> QED
    BY <2>4, <2>7
<1> HIDE DEF P
<1>3. Seq(Space) \subseteq P
  BY <1>1, <1>2, AlongSequences
<1>4. v \in P
  BY <1>3
<1>5. v \in Seq(Character) /\ Q(v)
  BY <1>4 DEF P
<1>6. s \o v \in Seq(Character)
  BY <1>5, ConcatProperties
<1> QED
  BY <1>5, <1>6

\* The spaces at the end of a line are not read, nor those at its beginning.
LEMMA EndOfLine ==
    ASSUME NEW s \in Seq(Character), NEW v \in Seq(Space)
    PROVE  Alike((s \o v) \o <<"newline">>, s \o <<"newline">>)
<1> DEFINE t == s \o v
<1>1. /\ t \in Seq(Character) /\ Reading(Decomposed(t)) = Reading(Decomposed(s))
      /\ GapAfter(t) = "first" <=> GapAfter(s) = "first"
  BY SpacesRead
<1> HIDE DEF t
<1>2. "newline" \in Unseen /\ "newline" \in Character
  BY DEF Unseen, Space, Blank, Character
<1>3. \A u \in Seq(Character) :
         /\ u \o <<"newline">> = Append(u, "newline")
         /\ GapAfter(Append(u, "newline")) = After(GapAfter(u), "newline")
         /\ Reading(Decomposed(Append(u, "newline"))) = Reading(Decomposed(u))
  BY <1>2, AppendIsConcat, AppendUnseen
<1>4. After(GapAfter(t), "newline") = After(GapAfter(s), "newline")
  BY <1>1, <1>2 DEF After
<1>5. Alike(Append(t, "newline"), Append(s, "newline"))
  BY <1>1, <1>3, <1>4 DEF Alike, Same, GapAfter
<1> QED
  BY <1>1, <1>3, <1>5 DEF t

LEMMA BeginningOfLine ==
    ASSUME NEW s \in Seq(Character), GapAfter(s) \in {"first", "line"}, NEW v \in Seq(Space)
    PROVE  Alike(s \o v, s)
BY SpacesRead DEF Alike, Same, GapAfter

LEMMA SpacesAround ==
    ASSUME NEW n \in Nat, NEW S \in SUBSET (1 .. n), S # {}
    PROVE  /\ Min(S) \in 1 .. n /\ Max(S) \in 1 .. n /\ Min(S) <= Max(S)
           /\ \A i \in 1 .. Min(S) - 1 : i \in 1 .. n /\ i \notin S
           /\ \A i \in Max(S) + 1 .. n : i \in 1 .. n /\ i \notin S
           /\ Min(S) - 1 \in 1 - 1 .. n /\ Max(S) \in Min(S) - 1 .. n
           /\ (Min(S) - 1) + 1 = Min(S) /\ Max(S) \in 1 - 1 .. n /\ n \in Max(S) .. n
           /\ 1 \in 1 .. n + 1 /\ Min(S) - 1 \in Int /\ Max(S) + 1 \in Int
           /\ \A i \in Min(S) .. Max(S) : i \in 1 .. n
<1>1. Min(S) \in S /\ \A i \in S : Min(S) <= i
  BY LeastOf
<1>2. Max(S) \in S /\ \A i \in S : i <= Max(S)
  BY LastOf
<1> DEFINE a == Min(S)  b == Max(S)
<1>3. a \in 1 .. n /\ b \in 1 .. n /\ a <= b
  BY <1>1, <1>2
<1>4. \A i \in S : a <= i /\ i <= b
  BY <1>1, <1>2
<1> HIDE DEF a, b
<1>5. \A i \in 1 .. a - 1 : i \in 1 .. n /\ i \notin S
  BY <1>3, <1>4
<1>6. \A i \in b + 1 .. n : i \in 1 .. n /\ i \notin S
  BY <1>3, <1>4
<1>7. /\ a - 1 \in 1 - 1 .. n /\ b \in a - 1 .. n
      /\ (a - 1) + 1 = a /\ b \in 1 - 1 .. n /\ n \in b .. n
      /\ 1 \in 1 .. n + 1 /\ a - 1 \in Int /\ b + 1 \in Int
      /\ \A i \in a .. b : i \in 1 .. n
  BY <1>3
<1> QED
  BY <1>3, <1>5, <1>6, <1>7 DEF a, b

LEMMA TrimSpaceReads ==
    ASSUME NEW s \in Seq(Character), GapAfter(s) \in {"first", "line"},
           NEW x \in Seq(Character)
    PROVE  /\ TrimSpace(x) \in Seq(Character)
           /\ Alike((s \o TrimSpace(x)) \o <<"newline">>, (s \o x) \o <<"newline">>)
<1> DEFINE n == Len(x)  kept == {i \in 1 .. n : x[i] \notin Space}  nl == <<"newline">>
<1>1. n \in Nat /\ DOMAIN x = 1 .. n /\ \A i \in 1 .. n : x[i] \in Character
  BY LenProperties, ElementOfSeq
<1>2. TrimSpace(x) = IF kept = {} THEN <<>> ELSE SubSeq(x, Min(kept), Max(kept))
  BY <1>1 DEF TrimSpace
<1>3. nl \in Seq(Character)
  <2>1. "newline" \in Character
    BY DEF Unseen, Space, Blank, Character
  <2> HIDE DEF Character
  <2> QED
    BY <2>1
<1>4. kept \in SUBSET (1 .. n) /\ \A i \in 1 .. n : i \notin kept => x[i] \in Space
  OBVIOUS
<1> HIDE DEF n, kept, nl
<1>5. CASE kept = {}
  <2>1. \A i \in 1 .. n : x[i] \in Space
    BY <1>4, <1>5
  <2>2. SubSeq(x, 1, n) \in Seq(Space) /\ SubSeq(x, 1, n) = x
    BY <1>1, <2>1, SubSeqProperties, SubSeqFull DEF n
  <2>3. Alike((s \o x) \o nl, s \o nl)
    BY <2>2, EndOfLine DEF nl
  <2>4. TrimSpace(x) = <<>> /\ s \o <<>> = s
    BY <1>2, <1>5, ConcatEmptySeq
  <2>5. Alike(s \o nl, (s \o x) \o nl)
    BY <2>3, AlikeTrans DEF Alike, Same
  <2> QED
    BY <2>4, <2>5, EmptySeq DEF nl
<1>6. CASE kept # {}
  <2> DEFINE a == Min(kept)  b == Max(kept)
             pre == SubSeq(x, 1, a - 1)  mid == SubSeq(x, a, b)  suf == SubSeq(x, b + 1, n)
  <2>1. /\ a \in 1 .. n /\ b \in 1 .. n /\ a <= b
        /\ \A i \in 1 .. a - 1 : i \in 1 .. n /\ i \notin kept
        /\ \A i \in b + 1 .. n : i \in 1 .. n /\ i \notin kept
        /\ a - 1 \in 1 - 1 .. n /\ b \in a - 1 .. n
        /\ (a - 1) + 1 = a /\ b \in 1 - 1 .. n /\ n \in b .. n
        /\ 1 \in 1 .. n + 1 /\ a - 1 \in Int /\ b + 1 \in Int
        /\ \A i \in a .. b : i \in 1 .. n
    BY <1>1, <1>4, <1>6, SpacesAround
  <2> HIDE DEF a, b
  <2>2. pre \in Seq(Space)
    BY <1>4, <2>1, SubSeqProperties
  <2>3. suf \in Seq(Space)
    BY <1>1, <1>4, <2>1, SubSeqProperties
  <2>4. mid \in Seq(Character)
    <3>1. a \in Int /\ b \in Int /\ \A i \in a .. b : x[i] \in Character
      BY <1>1, <2>1
    <3> QED
      BY <3>1, SubSeqProperties
  <2>5. pre \o mid = SubSeq(x, 1, b)
    BY <2>1, ConcatAdjacentSubSeq DEF n
  <2>6. SubSeq(x, 1, b) \o suf = x
    BY <2>1, ConcatAdjacentSubSeq, SubSeqFull DEF n
  <2> HIDE DEF pre, mid, suf
  <2>7. pre \in Seq(Character) /\ suf \in Seq(Character) /\ s \o pre \in Seq(Character)
    BY <2>2, <2>3, SpacesRead
  <2> DEFINE t == (s \o pre) \o mid
  <2>8. t \in Seq(Character) /\ s \o mid \in Seq(Character)
    BY <2>4, <2>7, ConcatProperties
  <2>9. Alike(t, s \o mid)
    BY <2>2, <2>4, <2>7, BeginningOfLine, AlikeConcat
  <2>10. t \o suf = s \o x
    <3>1. t = s \o (pre \o mid) /\ pre \o mid \in Seq(Character)
      BY <2>4, <2>7, ConcatAssociative, ConcatProperties, SMTT(20)
    <3>2. (s \o (pre \o mid)) \o suf = s \o ((pre \o mid) \o suf)
      <4> DEFINE q == pre \o mid
      <4>1. q \in Seq(Character)
        BY <3>1
      <4> HIDE DEF q
      <4>2. (s \o q) \o suf = s \o (q \o suf)
        BY <2>7, <4>1, ConcatAssociative, SMTT(20)
      <4> QED
        BY <4>2 DEF q
    <3> QED
      BY <2>5, <2>6, <3>1, <3>2, Zenon
  <2> HIDE DEF t
  <2>11. Alike((t \o suf) \o nl, t \o nl)
    BY <2>3, <2>8, EndOfLine DEF nl
  <2>12. Alike(t \o nl, (s \o mid) \o nl)
    BY <1>3, <2>8, <2>9, AlikeConcat
  <2>13. Alike((s \o x) \o nl, (s \o mid) \o nl)
    BY <2>10, <2>11, <2>12, AlikeTrans
  <2>14. Alike((s \o mid) \o nl, (s \o x) \o nl)
    BY <2>13, AlikeTrans DEF Alike, Same
  <2>15. TrimSpace(x) = mid
    BY <1>2, <1>6 DEF mid, a, b
  <2> QED
    BY <2>4, <2>14, <2>15 DEF nl
<1> QED
  BY <1>5, <1>6

-----------------------------------------------------------------------------
(* A chapter, token by token                                               *)

\* Entities are read one by one.
LEMMA SeenTyped ==
    ASSUME NEW text \in Text
    PROVE  Seen(text) \in Seq(Character) /\ Len(Seen(text)) = Len(text)
<1>1. /\ Len(text) \in Nat /\ DOMAIN text = 1 .. Len(text)
      /\ \A i \in 1 .. Len(text) : text[i] \in STRING
  BY LenProperties, ElementOfSeq DEF Text
<1>2. STRING \subseteq Character /\ "dash" \in Character
  BY DEF Character
<1> HIDE DEF Character
<1>3. Seen(text) \in [1 .. Len(text) -> Character]
  BY <1>1, <1>2 DEF Seen
<1> HIDE DEF Seen
<1> QED
  BY <1>1, <1>3, FunctionIsSeq

\* Where nothing is escaped twice, decoding makes of each character one.
LEMMA UnescapedIsSeen ==
    ASSUME NEW text \in Text, \A i \in DOMAIN text : ~IsEntity(text, i)
    PROVE  Unescape(text) = Seen(text)
<1> DEFINE p == [i \in 1 .. Len(text) |->
                    CASE text[i] = "dashentity" -> <<"dash">>
                      [] IsEntity(text, i) -> <<"less">>
                      [] i > 1 /\ IsEntity(text, i - 1) -> <<>>
                      [] OTHER -> <<text[i]>>]
           n == Len(text)
           x == Seen(text)
<1>1. n \in Nat /\ DOMAIN text = 1 .. n
  BY LenProperties DEF Text
<1>2. Unescape(text) = FlattenSeq(p)
  BY <1>1 DEF Unescape
<1>3. x \in Seq(Character) /\ Len(x) = n
  BY SeenTyped
<1>4. \A i \in 1 .. n : x[i] = IF text[i] = "dashentity" THEN "dash" ELSE text[i]
  BY <1>1 DEF Seen
<1>5. DOMAIN p = 1 .. n
  OBVIOUS
<1>6. \A i \in 1 .. n : p[i] = <<x[i]>>
  <2> SUFFICES ASSUME NEW i \in 1 .. n
               PROVE  p[i] = <<x[i]>>
    OBVIOUS
  <2>1. ~IsEntity(text, i)
    BY <1>1
  <2>2. ~(i > 1 /\ IsEntity(text, i - 1))
    <3>1. i > 1 => i - 1 \in DOMAIN text
      BY <1>1
    <3> QED
      BY <3>1
  <2>3. p[i] = CASE text[i] = "dashentity" -> <<"dash">>
                 [] IsEntity(text, i) -> <<"less">>
                 [] i > 1 /\ IsEntity(text, i - 1) -> <<>>
                 [] OTHER -> <<text[i]>>
    OBVIOUS
  <2> HIDE DEF p, x
  <2>4. CASE text[i] = "dashentity"
    <3>1. x[i] = "dash"
      BY <1>4, <2>4
    <3> QED
      BY <2>1, <2>2, <2>3, <2>4, <3>1
  <2>5. CASE text[i] # "dashentity"
    <3>1. x[i] = text[i]
      BY <1>4, <2>5
    <3> QED
      BY <2>1, <2>2, <2>3, <2>5, <3>1
  <2> QED
    BY <2>4, <2>5
<1> HIDE DEF p, x
<1>7. \A i \in 1 .. n : p[i] \in Seq(Character)
  <2> SUFFICES ASSUME NEW i \in 1 .. n
               PROVE  <<x[i]>> \in Seq(Character)
    BY <1>6
  <2>1. x[i] \in Character
    BY <1>3, ElementOfSeq
  <2> HIDE DEF Character
  <2> QED
    BY <2>1
<1>8. p \in [1 .. n -> Seq(Character)]
  BY <1>5, <1>7 DEF p
<1>9. p \in Seq(Seq(Character)) /\ Len(p) = n
  BY <1>1, <1>8, FunctionIsSeq
<1>10. FlattenSeq(p) = x
  BY <1>3, <1>6, <1>9, FlattenSingles
<1> QED
  BY <1>2, <1>10 DEF x

LEMMA CollapseBlanksTyped ==
    ASSUME NEW text \in Seq(Character)
    PROVE  CollapseBlanks(text) \in Seq(Character)
<1> DEFINE p == [i \in 1 .. Len(text) |->
                    IF text[i] \notin Blank THEN <<text[i]>>
                    ELSE IF i > 1 /\ text[i - 1] \in Blank THEN <<>> ELSE <<"blank">>]
<1>1. /\ Len(text) \in Nat /\ DOMAIN text = 1 .. Len(text)
      /\ \A i \in 1 .. Len(text) : text[i] \in Character
  BY LenProperties, ElementOfSeq
<1>2. "blank" \in Character
  BY DEF Character, Unseen, Space, Blank
<1> HIDE DEF Character
<1>3. p \in [1 .. Len(text) -> Seq(Character)]
  <2>1. \A i \in 1 .. Len(text) : <<text[i]>> \in Seq(Character)
    <3>1. \A i \in 1 .. Len(text) : text[i] \in Character
      BY <1>1, <1>2
    <3> QED
      BY <3>1
  <2>2. <<>> \in Seq(Character) /\ <<"blank">> \in Seq(Character)
    BY <1>2, EmptySeq
  <2> QED
    BY <2>1, <2>2
<1>4. CollapseBlanks(text) = FlattenSeq(p)
  BY <1>1 DEF CollapseBlanks
<1> HIDE DEF p
<1>5. p \in Seq(Seq(Character))
  BY <1>1, <1>3, FunctionIsSeq
<1> QED
  BY <1>4, <1>5, FlattenTyped

\* What a reader sees of a token.
ShownToken(chapter, i) ==
    CASE chapter[i].kind = "chars" ->
            IF Inside(chapter, i) THEN <<>> ELSE CollapseBlanks(Seen(chapter[i].text))
      [] Breaks(chapter[i]) -> <<"newline">>
      [] OTHER -> <<>>

ShownTo(chapter, n) == FlattenSeq([i \in 1 .. n |-> ShownToken(chapter, i)])

LEMMA NewlineTyped == <<"newline">> \in Seq(Character)
<1>1. "newline" \in Character
  BY DEF Character, Unseen, Space, Blank
<1> HIDE DEF Character
<1> QED
  BY <1>1

LEMMA ShownTokenTyped ==
    ASSUME NEW chapter \in Seq(Token), NEW i \in 1 .. Len(chapter)
    PROVE  ShownToken(chapter, i) \in Seq(Character)
<1>1. chapter[i].text \in Text
  <2>1. chapter[i] \in Token
    BY ElementOfSeq
  <2> QED
    BY <2>1 DEF Token
<1>2. CollapseBlanks(Seen(chapter[i].text)) \in Seq(Character) /\ <<>> \in Seq(Character)
  BY <1>1, SeenTyped, CollapseBlanksTyped, EmptySeq
<1>3. CASE chapter[i].kind = "chars"
  BY <1>2, <1>3 DEF ShownToken, Breaks
<1>4. CASE chapter[i].kind # "chars"
  BY <1>2, <1>4, NewlineTyped DEF ShownToken
<1> QED
  BY <1>3, <1>4

LEMMA ShownToGrows ==
    ASSUME NEW chapter \in Seq(Token), NEW i \in 0 .. Len(chapter), i # Len(chapter)
    PROVE  /\ ShownTo(chapter, i) \in Seq(Character)
           /\ ShownTo(chapter, i + 1) = ShownTo(chapter, i) \o ShownToken(chapter, i + 1)
<1> DEFINE f == [j \in 1 .. i + 1 |-> ShownToken(chapter, j)]
           g == [j \in 1 .. i |-> ShownToken(chapter, j)]
<1>1. /\ Len(chapter) \in Nat /\ i \in Nat /\ i + 1 \in 1 .. i + 1
      /\ \A j \in 1 .. i + 1 : j \in 1 .. Len(chapter)
      /\ \A j \in 1 .. i : j \in 1 .. i + 1
  <2>1. Len(chapter) \in Nat
    BY LenProperties
  <2> DEFINE n == Len(chapter)
  <2> HIDE DEF n
  <2>2. n \in Nat /\ i \in 0 .. n /\ i # n
    BY <2>1 DEF n
  <2>3. /\ i \in Nat /\ i + 1 \in 1 .. i + 1 /\ \A j \in 1 .. i + 1 : j \in 1 .. n
        /\ \A j \in 1 .. i : j \in 1 .. i + 1
    BY <2>2
  <2> QED
    BY <2>1, <2>3 DEF n
<1>2. f \in [1 .. i + 1 -> Seq(Character)] /\ g \in [1 .. i -> Seq(Character)]
  BY <1>1, ShownTokenTyped
<1>3. g = [j \in 1 .. i |-> f[j]] /\ f[i + 1] = ShownToken(chapter, i + 1)
  BY <1>1
<1> HIDE DEF f, g
<1>4. FlattenSeq(f) = FlattenSeq(g) \o f[i + 1]
  BY <1>1, <1>2, <1>3, FlattenOneMore
<1>5. FlattenSeq(g) \in Seq(Character)
  <2>1. g \in Seq(Seq(Character))
    BY <1>1, <1>2, FunctionIsSeq
  <2> QED
    BY <2>1, FlattenTyped
<1> QED
  BY <1>3, <1>4, <1>5 DEF ShownTo, f, g

LEMMA ShownToAll ==
    ASSUME NEW chapter \in Seq(Token)
    PROVE  /\ ShownTo(chapter, 0) = <<>>
           /\ ShownTo(chapter, Len(chapter)) \in Seq(Character)
           /\ Shown(chapter) = ShownTo(chapter, Len(chapter)) \o <<"newline">>
<1> DEFINE f == [j \in 1 .. Len(chapter) |-> ShownToken(chapter, j)]
<1>1. Len(chapter) \in Nat /\ DOMAIN chapter = 1 .. Len(chapter)
  BY LenProperties
<1>2. Shown(chapter) = FlattenSeq(f) \o <<"newline">>
  BY <1>1 DEF Shown, ShownToken
<1>3. f \in [1 .. Len(chapter) -> Seq(Character)]
  BY ShownTokenTyped
<1> HIDE DEF f
<1>4. f \in Seq(Seq(Character))
  BY <1>1, <1>3, FunctionIsSeq
<1>5. FlattenSeq(f) \in Seq(Character)
  BY <1>4, FlattenTyped
<1>6. [j \in 1 .. 0 |-> ShownToken(chapter, j)] = <<>>
  OBVIOUS
<1>7. ShownTo(chapter, 0) = <<>>
  BY <1>6, FlattenEmpty DEF ShownTo
<1> QED
  BY <1>2, <1>5, <1>7 DEF ShownTo, f

-----------------------------------------------------------------------------
(* Ignored elements                                                        *)

IsTag(chapter, kind, k) == chapter[k].kind = kind /\ chapter[k].name \in IgnoreTags

LEMMA TagsAre ==
    ASSUME NEW chapter, NEW kind, NEW i \in Int, NEW j \in Int
    PROVE  /\ IsFiniteSet({k \in i .. j : IsTag(chapter, kind, k)})
           /\ Tags(chapter, kind, i, j) = Cardinality({k \in i .. j : IsTag(chapter, kind, k)})
           /\ Tags(chapter, kind, i, j) \in Nat
<1> DEFINE s == {k \in i .. j : IsTag(chapter, kind, k)}
<1>1. s \subseteq i .. j /\ IsFiniteSet(i .. j)
  BY FS_Interval
<1>2. IsFiniteSet(s)
  BY <1>1, FS_Subset
<1>3. Tags(chapter, kind, i, j) = Cardinality(s)
  BY DEF Tags, IsTag
<1> HIDE DEF s
<1> QED
  BY <1>2, <1>3, FS_CardinalityType DEF s

LEMMA TagsTyped ==
    ASSUME NEW chapter, NEW kind, NEW i \in Int, NEW j \in Int
    PROVE  Tags(chapter, kind, i, j) \in Nat
BY TagsAre

LEMMA TagsEmpty ==
    ASSUME NEW chapter, NEW kind
    PROVE  Tags(chapter, kind, 1, 0) = 0
<1>1. {k \in 1 .. 0 : IsTag(chapter, kind, k)} = {}
  OBVIOUS
<1> QED
  BY <1>1, TagsAre, FS_EmptySet

LEMMA TagsGrow ==
    ASSUME NEW chapter, NEW kind, NEW j \in Nat
    PROVE  Tags(chapter, kind, 1, j + 1) =
             Tags(chapter, kind, 1, j) + IF IsTag(chapter, kind, j + 1) THEN 1 ELSE 0
<1> DEFINE s == {k \in 1 .. j : IsTag(chapter, kind, k)}
           t == {k \in 1 .. j + 1 : IsTag(chapter, kind, k)}
<1>1. IsFiniteSet(s) /\ Cardinality(s) = Tags(chapter, kind, 1, j) /\ Cardinality(s) \in Nat
  BY TagsAre
<1>2. Cardinality(t) = Tags(chapter, kind, 1, j + 1)
  BY TagsAre
<1>3. 1 .. j + 1 = (1 .. j) \cup {j + 1} /\ j + 1 \notin 1 .. j
  OBVIOUS
<1>4. CASE IsTag(chapter, kind, j + 1)
  <2>1. t = s \cup {j + 1} /\ j + 1 \notin s
    BY <1>3, <1>4
  <2> HIDE DEF s, t
  <2>2. Cardinality(t) = Cardinality(s) + 1
    BY <1>1, <2>1, FS_AddElement
  <2> QED
    BY <1>1, <1>2, <1>4, <2>2
<1>5. CASE ~IsTag(chapter, kind, j + 1)
  <2>1. t = s
    BY <1>3, <1>5
  <2> HIDE DEF s, t
  <2> QED
    BY <1>1, <1>2, <1>5, <2>1
<1> QED
  BY <1>4, <1>5

LEMMA TagsSplit ==
    ASSUME NEW chapter, NEW kind, NEW j \in Nat, NEW i \in Nat, 1 <= j, j <= i + 1
    PROVE  Tags(chapter, kind, 1, i) = Tags(chapter, kind, 1, j - 1) + Tags(chapter, kind, j, i)
<1> DEFINE s == {k \in 1 .. j - 1 : IsTag(chapter, kind, k)}
           t == {k \in j .. i : IsTag(chapter, kind, k)}
           u == {k \in 1 .. i : IsTag(chapter, kind, k)}
<1>1. /\ IsFiniteSet(s) /\ Cardinality(s) = Tags(chapter, kind, 1, j - 1) /\ Cardinality(s) \in Nat
      /\ IsFiniteSet(t) /\ Cardinality(t) = Tags(chapter, kind, j, i) /\ Cardinality(t) \in Nat
      /\ Cardinality(u) = Tags(chapter, kind, 1, i)
  BY TagsAre
<1>2. 1 .. i = (1 .. j - 1) \cup (j .. i) /\ (1 .. j - 1) \cap (j .. i) = {}
  OBVIOUS
<1>3. u = s \cup t /\ s \cap t = {}
  BY <1>2
<1> HIDE DEF s, t, u
<1>4. Cardinality(u) = Cardinality(s) + Cardinality(t) - Cardinality(s \cap t)
  BY <1>1, <1>3, FS_Union
<1>5. Cardinality(s \cap t) = 0
  BY <1>3, FS_EmptySet
<1> QED
  BY <1>1, <1>4, <1>5

\* The ignored elements that have begun before a place and not ended.
DepthAt(chapter, i) == Tags(chapter, "start", 1, i) - Tags(chapter, "end", 1, i)

LEMMA DepthIs ==
    ASSUME NEW chapter, NEW i \in Nat
    PROVE  /\ DepthAt(chapter, i) \in Int /\ DepthAt(chapter, 0) = 0
           /\ DepthAt(chapter, i + 1) =
                 CASE IsTag(chapter, "start", i + 1) -> DepthAt(chapter, i) + 1
                   [] IsTag(chapter, "end", i + 1) -> DepthAt(chapter, i) - 1
                   [] OTHER -> DepthAt(chapter, i)
<1> DEFINE a == Tags(chapter, "start", 1, i)  b == Tags(chapter, "end", 1, i)
           c == Tags(chapter, "start", 1, i + 1)  d == Tags(chapter, "end", 1, i + 1)
<1>1. a \in Nat /\ b \in Nat
  BY TagsTyped
<1>2. c = a + IF IsTag(chapter, "start", i + 1) THEN 1 ELSE 0
  BY TagsGrow
<1>3. d = b + IF IsTag(chapter, "end", i + 1) THEN 1 ELSE 0
  BY TagsGrow
<1>4. ~(IsTag(chapter, "start", i + 1) /\ IsTag(chapter, "end", i + 1))
  BY DEF IsTag
<1>5. DepthAt(chapter, i) = a - b /\ DepthAt(chapter, i + 1) = c - d
  BY DEF DepthAt
<1>6. DepthAt(chapter, 0) = 0
  BY TagsEmpty DEF DepthAt
<1> HIDE DEF a, b, c, d
<1> QED
  BY <1>1, <1>2, <1>3, <1>4, <1>5, <1>6

\* In a chapter where each ignored element that ends has begun, the characters
\* inside one are those at a depth of more than zero.
LEMMA InsideIsDeep ==
    ASSUME NEW chapter \in Seq(Token), Balanced(chapter), NEW i \in 1 .. Len(chapter),
           chapter[i].kind = "chars"
    PROVE  Inside(chapter, i) <=> DepthAt(chapter, i - 1) > 0
<1> DEFINE d(k) == DepthAt(chapter, k)
<1>1. Len(chapter) \in Nat /\ DOMAIN chapter = 1 .. Len(chapter)
  BY LenProperties
<1>2. i \in Nat /\ i >= 1 /\ i - 1 \in Nat /\ (i - 1) + 1 = i /\ \A k \in 1 .. i : k \in 1 .. Len(chapter)
  BY <1>1
<1>3. \A k \in Nat : d(k) \in Int
  BY DepthIs
<1>4. d(i) = d(i - 1)
  <2>1. ~IsTag(chapter, "start", i) /\ ~IsTag(chapter, "end", i)
    BY DEF IsTag
  <2> QED
    BY <1>2, <2>1, DepthIs
<1>5. \A k \in 0 .. i : d(k) >= 0
  <2>1. d(0) = 0
    BY DepthIs
  <2>2. ASSUME NEW k \in 1 .. i
        PROVE  d(k) >= 0
    <3>1. Tags(chapter, "start", 1, k) >= Tags(chapter, "end", 1, k)
      BY <1>1, <1>2 DEF Balanced
    <3>2. Tags(chapter, "start", 1, k) \in Nat /\ Tags(chapter, "end", 1, k) \in Nat
      BY TagsTyped
    <3> QED
      BY <3>1, <3>2 DEF DepthAt
  <2>3. \A k \in 0 .. i : k = 0 \/ k \in 1 .. i
    OBVIOUS
  <2> HIDE DEF d
  <2> QED
    BY <2>1, <2>2, <2>3
<1>6. ASSUME NEW j \in 1 .. i - 1, NEW k \in j .. i
      PROVE  Tags(chapter, "start", j, k) > Tags(chapter, "end", j, k) <=> d(k) > d(j - 1)
  <2> DEFINE a == Tags(chapter, "start", 1, k)  b == Tags(chapter, "end", 1, k)
             e == Tags(chapter, "start", 1, j - 1)  f == Tags(chapter, "end", 1, j - 1)
             g == Tags(chapter, "start", j, k)  h == Tags(chapter, "end", j, k)
  <2>1. j \in Nat /\ k \in Nat /\ 1 <= j /\ j <= k + 1 /\ j - 1 \in Nat
    BY <1>2
  <2>2. a = e + g /\ b = f + h
    BY <2>1, TagsSplit
  <2>3. a \in Nat /\ b \in Nat /\ e \in Nat /\ f \in Nat /\ g \in Nat /\ h \in Nat
    BY <2>1, TagsTyped
  <2>4. d(k) = a - b /\ d(j - 1) = e - f
    BY DEF DepthAt
  <2> HIDE DEF a, b, e, f, g, h, d
  <2>5. g > h <=> d(k) > d(j - 1)
    BY <2>2, <2>3, <2>4
  <2> QED
    BY <2>5 DEF g, h
<1>7. Inside(chapter, i) <=> \E j \in 1 .. i - 1 : \A k \in j .. i : d(k) > d(j - 1)
  BY <1>6 DEF Inside
<1> HIDE DEF d
<1>8. ASSUME NEW j \in 1 .. i - 1, \A k \in j .. i : d(k) > d(j - 1)
      PROVE  d(i - 1) > 0
  <2>1. i \in j .. i /\ j - 1 \in 0 .. i /\ i \in Nat /\ j - 1 \in Nat
    BY <1>2
  <2>2. d(i) > d(j - 1) /\ d(j - 1) >= 0 /\ d(i) \in Int /\ d(j - 1) \in Int
    BY <1>3, <1>5, <1>8, <2>1
  <2> QED
    BY <1>4, <2>2
<1>9. ASSUME d(i - 1) > 0
      PROVE  \E j \in 1 .. i - 1 : \A k \in j .. i : d(k) > d(j - 1)
  <2> DEFINE T == {k \in 0 .. i - 1 : d(k) = 0}
  <2>1. 0 \in T
    BY <1>2, DepthIs DEF d
  <2>2. PICK m \in T : \A k \in T : k <= m
    BY <1>2, <2>1, LastUpTo
  <2>3. m \in 0 .. i - 1 /\ d(m) = 0 /\ m # i - 1
    BY <1>9
  <2> DEFINE j == m + 1
  <2>4. j \in 1 .. i - 1 /\ j - 1 = m
    BY <1>2, <2>3
  <2>5. ASSUME NEW k \in j .. i
        PROVE  d(k) > 0
    <3>1. CASE k = i
      BY <1>4, <1>9, <3>1
    <3>2. CASE k # i
      <4>1. k \in 0 .. i - 1 /\ k > m /\ k \in 0 .. i /\ k \in Nat
        BY <1>2, <2>3, <3>2
      <4>2. k \notin T
        BY <2>2, <2>3, <4>1
      <4>3. d(k) # 0 /\ d(k) >= 0 /\ d(k) \in Int
        BY <1>3, <1>5, <4>1, <4>2
      <4> QED
        BY <4>3
    <3> QED
      BY <3>1, <3>2
  <2>6. \A k \in j .. i : d(k) > d(j - 1)
    BY <2>3, <2>4, <2>5
  <2> HIDE DEF j
  <2> QED
    BY <2>4, <2>6
<1> QED
  BY <1>7, <1>8, <1>9 DEF d

-----------------------------------------------------------------------------
(* The book, chapter by chapter                                            *)

\* What is left of a sequence after its first k elements.
LEMMA SuffixStep ==
    ASSUME NEW S, NEW s \in Seq(S), NEW k \in 0 .. Len(s),
           NEW r, r = SubSeq(s, k + 1, Len(s))
    PROVE  /\ r = <<>> => k = Len(s)
           /\ r # <<>> => /\ k # Len(s) /\ Head(r) = s[k + 1]
                          /\ Tail(r) = SubSeq(s, (k + 1) + 1, Len(s))
<1> DEFINE n == Len(s)
<1>1. n \in Nat /\ k \in 0 .. n /\ \A i \in 1 .. n : s[i] \in S
  BY LenProperties, ElementOfSeq
<1>2. r = SubSeq(s, k + 1, n)
  OBVIOUS
<1>3. k = n => r = <<>>
  <2>1. k = n => n < k + 1 /\ k + 1 \in Int /\ n \in Int
    BY <1>1
  <2> QED
    BY <1>2, <2>1, SubSeqEmpty
<1> HIDE DEF n
<1>4. ASSUME k # n
      PROVE  r # <<>>
  <2>1. k + 1 \in Int /\ n \in Int /\ k + 1 <= n /\ \A i \in k + 1 .. n : i \in 1 .. n
    BY <1>1, <1>4
  <2>2. Len(r) = (n - (k + 1)) + 1
    BY <1>1, <1>2, <2>1, SubSeqProperties
  <2>3. Len(r) # 0
    BY <1>1, <1>4, <2>2
  <2> QED
    BY <2>3
<1>5. ASSUME k # n
      PROVE  Head(r) = s[k + 1] /\ Tail(r) = SubSeq(s, (k + 1) + 1, n)
  <2>1. k + 1 \in 1 .. n /\ n \in k + 1 .. n
    BY <1>1, <1>5
  <2> QED
    BY <1>2, <2>1, HeadTailOfSubSeq DEF n
<1> QED
  BY <1>3, <1>4, <1>5 DEF n

LEMMA TokenRead ==
    ASSUME NEW chapter \in Seq(Token), NEW i \in 0 .. Len(chapter), i # Len(chapter),
           depth = DepthAt(chapter, i)
    PROVE  /\ DepthAfter(chapter[i + 1]) = DepthAt(chapter, i + 1)
           /\ Readable(chapter) => Written(chapter[i + 1]) = ShownToken(chapter, i + 1)
<1>1. Len(chapter) \in Nat
  BY LenProperties
<1>2. i \in Nat /\ i + 1 \in 1 .. Len(chapter) /\ (i + 1) - 1 = i
  BY <1>1, NextPlace
<1> DEFINE t == chapter[i + 1]
<1>3. DepthAfter(t) = DepthAt(chapter, i + 1)
  <2>1. DepthAt(chapter, i + 1) =
          CASE IsTag(chapter, "start", i + 1) -> DepthAt(chapter, i) + 1
            [] IsTag(chapter, "end", i + 1) -> DepthAt(chapter, i) - 1
            [] OTHER -> DepthAt(chapter, i)
    BY <1>2, DepthIs
  <2>2. CASE t.kind = "start" /\ t.name \in IgnoreTags
    BY <2>1, <2>2 DEF DepthAfter, IsTag
  <2>3. CASE t.kind = "end" /\ t.name \in IgnoreTags
    BY <2>1, <2>3 DEF DepthAfter, IsTag
  <2>4. CASE /\ ~(t.kind = "start" /\ t.name \in IgnoreTags)
             /\ ~(t.kind = "end" /\ t.name \in IgnoreTags)
    BY <2>1, <2>4 DEF DepthAfter, IsTag
  <2> QED
    BY <2>2, <2>3, <2>4
<1>4. ASSUME Readable(chapter)
      PROVE  Written(t) = ShownToken(chapter, i + 1)
  <2>1. CASE t.kind = "chars"
    <3>1. Inside(chapter, i + 1) <=> depth > 0
      BY <1>2, <1>4, <2>1, InsideIsDeep DEF Readable
    <3>2. ~Breaks(t)
      BY <2>1 DEF Breaks
    <3>3. t.text \in Text /\ i + 1 \in DOMAIN chapter
      <4>1. t \in Token
        BY <1>2, ElementOfSeq
      <4> QED
        BY <1>1, <1>2, <4>1 DEF Token
    <3>4. Unescape(t.text) = Seen(t.text)
      BY <1>4, <2>1, <3>3, UnescapedIsSeen DEF Readable, EscapedTwice
    <3> QED
      BY <2>1, <3>1, <3>2, <3>4 DEF Written, ShownToken
  <2>2. CASE t.kind # "chars" /\ Breaks(t)
    BY <2>2 DEF Written, ShownToken
  <2>3. CASE t.kind # "chars" /\ ~Breaks(t)
    BY <2>3 DEF Written, ShownToken
  <2> QED
    BY <2>1, <2>2, <2>3
<1> QED
  BY <1>3, <1>4

\* The text of the book grows by a chapter: s for what is shown as b.
LEMMA ChapterRead ==
    ASSUME NEW s \in Seq(Character), GapAfter(s) \in {"first", "line"},
           NEW b \in Seq(Character), Alike(s, b), NEW x \in Seq(Character),
           NEW t, t = s \o TrimSpace(CollapseLines(x)) \o <<"newline">>
    PROVE  /\ t \in Seq(Character) /\ GapAfter(t) \in {"first", "line"}
           /\ Alike(t, b \o (x \o <<"newline">>))
<1> DEFINE nl == <<"newline">>  y == CollapseLines(x)  z == TrimSpace(y)
<1>1. nl \in Seq(Character)
  BY NewlineTyped
<1>2. y \in Seq(Character) /\ Alike(s \o y, s \o x)
  BY CollapseLinesReads
<1> HIDE DEF y
<1>3. z \in Seq(Character) /\ Alike((s \o z) \o nl, (s \o y) \o nl)
  BY <1>2, TrimSpaceReads
<1>4. t = (s \o z) \o nl
  BY DEF y
<1> HIDE DEF z, nl
<1>5. s \o x \in Seq(Character) /\ s \o y \in Seq(Character) /\ s \o z \in Seq(Character)
      /\ t \in Seq(Character)
  <2>1. s \o x \in Seq(Character) /\ s \o y \in Seq(Character)
    BY <1>2, ConcatProperties
  <2>2. s \o z \in Seq(Character)
    BY <1>3, ConcatProperties
  <2>3. (s \o z) \o nl \in Seq(Character)
    BY <1>1, <2>2, ConcatProperties
  <2> QED
    BY <1>4, <2>1, <2>2, <2>3
<1>6. Alike((s \o y) \o nl, (s \o x) \o nl)
  BY <1>1, <1>2, <1>5, AlikeConcat
<1>7. Alike(s \o x, b \o x)
  BY AlikeConcat
<1>8. b \o x \in Seq(Character)
  BY ConcatProperties
<1>9. Alike((s \o x) \o nl, (b \o x) \o nl)
  BY <1>1, <1>5, <1>7, <1>8, AlikeConcat
<1>10. Alike(t, (b \o x) \o nl)
  <2>1. Alike((s \o z) \o nl, (s \o x) \o nl)
    BY <1>3, <1>6, AlikeTrans
  <2>2. Alike((s \o z) \o nl, (b \o x) \o nl)
    BY <1>9, <2>1, AlikeTrans
  <2> QED
    BY <1>4, <2>2, Zenon
<1>11. (b \o x) \o nl = b \o (x \o nl)
  BY <1>1, ConcatAssociative, SMTT(20)
<1>12. GapAfter(t) \in {"first", "line"}
  <2>1. "newline" \in Unseen
    BY DEF Unseen, Space, Blank
  <2>2. "newline" \in Character
    BY <2>1 DEF Character
  <2>3. t = Append(s \o z, "newline")
    BY <1>4, <1>5, <2>2, AppendIsConcat DEF nl
  <2>4. GapAfter(t) = After(GapAfter(s \o z), "newline")
    BY <1>5, <2>1, <2>3, AppendUnseen
  <2> QED
    BY <2>1, <2>4 DEF After
<1> QED
  BY <1>5, <1>10, <1>11, <1>12 DEF nl

LEMMA TextCleaned ==
    ASSUME NEW x \in Seq(Character)
    PROVE  Reading(Decomposed(CleanForNLP(x))) = Reading(Decomposed(x))
<1>1. Nfc(x) \in Seq(Character) /\ Decomposed(Nfc(x)) = Decomposed(x)
  BY NfcReads
<1>2. Alike(WithoutFormat(Nfc(x)), Nfc(x))
  BY <1>1, WithoutFormatReads
<1> QED
  BY <1>1, <1>2 DEF Alike, Same, CleanForNLP
-----------------------------------------------------------------------------
(* What is read of the book at each step                                   *)

SpineLen == Len(Package.spine)
InBook == /\ archive \in Archives /\ archive.rootfiles # <<>>
          /\ Head(archive.rootfiles) \in DOMAIN archive.packages
AllReadable == \A i \in Places : Readable(Chapter(i))
Piece(i) == IF i \in Places THEN Shown(Chapter(i)) ELSE <<>>
ShownUpTo(k) == FlattenSeq([i \in 1 .. k |-> Piece(i)])
Reached(k) == \A i \in 1 .. k : i \in Places => Has(FileOf(Package.spine[i]))

LEMMA BookStays ==
    UNCHANGED archive =>
      /\ Package' = Package /\ Places' = Places /\ SpineLen' = SpineLen
      /\ InBook' <=> InBook
      /\ AllReadable' <=> AllReadable
      /\ \A k : ShownUpTo(k)' = ShownUpTo(k)
      /\ \A k : Reached(k)' <=> Reached(k)
      /\ \A k : Chapter(k)' = Chapter(k)
      /\ ShownBook' = ShownBook
BY DEF Package, Places, SpineLen, InBook, AllReadable, ShownUpTo, Piece, Reached, Chapter,
       ShownBook, FileOf, Href, Items, OpfDir, Has

LEMMA BookTyped ==
    ASSUME InBook
    PROVE  /\ Package.spine \in Seq(STRING) /\ SpineLen \in Nat
           /\ DOMAIN Package.spine = 1 .. SpineLen
           /\ \A f \in DOMAIN archive.files : archive.files[f] \in Seq(Token)
<1>1. IsArchive(archive)
  BY EpubAssumption DEF InBook
<1>2. Package \in PackageXML
  BY <1>1 DEF IsArchive, Package, Range, InBook
<1>3. Package.spine \in Seq(STRING)
  BY <1>2 DEF PackageXML, Spine
<1>4. \A f \in DOMAIN archive.files : archive.files[f] \in Seq(Token)
  BY <1>1 DEF IsArchive, Range
<1> QED
  BY <1>3, <1>4, LenProperties DEF SpineLen

LEMMA PieceTyped ==
    ASSUME InBook, NEW i, i \in Places => Has(FileOf(Package.spine[i]))
    PROVE  /\ i \in Places => Chapter(i) \in Seq(Token)
           /\ Piece(i) \in Seq(Character)
<1>1. CASE i \in Places
  <2>1. Chapter(i) \in Seq(Token)
    BY <1>1, BookTyped DEF Chapter, Has
  <2>2. Shown(Chapter(i)) \in Seq(Character)
    BY <2>1, ShownToAll, NewlineTyped, ConcatProperties
  <2> QED
    BY <1>1, <2>1, <2>2 DEF Piece
<1>2. CASE i \notin Places
  BY <1>2, EmptySeq DEF Piece
<1> QED
  BY <1>1, <1>2

LEMMA ShownUpToGrows ==
    ASSUME InBook, NEW k \in 0 .. SpineLen, k # SpineLen, Reached(k + 1)
    PROVE  /\ ShownUpTo(k) \in Seq(Character)
           /\ ShownUpTo(k + 1) = ShownUpTo(k) \o Piece(k + 1)
<1> DEFINE f == [j \in 1 .. k + 1 |-> Piece(j)]  g == [j \in 1 .. k |-> Piece(j)]
<1>1. k \in Nat
  BY BookTyped
<1>2. k + 1 \in 1 .. k + 1 /\ \A j \in 1 .. k : j \in 1 .. k + 1
  BY <1>1
<1>3. \A j \in 1 .. k + 1 : Piece(j) \in Seq(Character)
  BY PieceTyped DEF Reached
<1>4. f \in [1 .. k + 1 -> Seq(Character)] /\ g \in [1 .. k -> Seq(Character)]
  BY <1>2, <1>3
<1>5. g = [j \in 1 .. k |-> f[j]] /\ f[k + 1] = Piece(k + 1)
  BY <1>2
<1> HIDE DEF f, g
<1>6. FlattenSeq(f) = FlattenSeq(g) \o f[k + 1]
  BY <1>1, <1>4, <1>5, FlattenOneMore
<1>7. FlattenSeq(g) \in Seq(Character)
  <2>1. g \in Seq(Seq(Character))
    BY <1>1, <1>4, FunctionIsSeq
  <2> QED
    BY <2>1, FlattenTyped
<1> QED
  BY <1>5, <1>6, <1>7 DEF ShownUpTo, f, g

LEMMA ShownUpToAll ==
    ASSUME InBook
    PROVE  ShownUpTo(0) = <<>> /\ ShownUpTo(SpineLen) = ShownBook
<1>1. [i \in 1 .. 0 |-> Piece(i)] = <<>>
  OBVIOUS
<1>2. ShownUpTo(0) = <<>>
  BY <1>1, FlattenEmpty DEF ShownUpTo
<1>3. ShownUpTo(SpineLen) = ShownBook
  BY BookTyped DEF ShownUpTo, ShownBook, Piece
<1> QED
  BY <1>2, <1>3

\* The text so far is what is shown of the first k chapters.
FullIs(k) == /\ full \in Seq(Character) /\ GapAfter(full) \in {"first", "line"}
             /\ Alike(full, ShownUpTo(k))

\* The chapter is read up to some token.
ReadTo(chapter) ==
    \E i \in 0 .. Len(chapter) :
        /\ tokens = SubSeq(chapter, i + 1, Len(chapter))
        /\ depth = DepthAt(chapter, i)
        /\ Readable(chapter) => buf = ShownTo(chapter, i)

BetweenChapters ==
    \E k \in 0 .. SpineLen :
        /\ refs = SubSeq(Package.spine, k + 1, SpineLen)
        /\ Reached(k)
        /\ AllReadable => FullIs(k)

InChapter ==
    \E k \in 0 .. SpineLen :
        /\ k # SpineLen /\ k + 1 \in Places
        /\ refs = SubSeq(Package.spine, (k + 1) + 1, SpineLen)
        /\ Reached(k + 1)
        /\ ReadTo(Chapter(k + 1))
        /\ AllReadable => FullIs(k)

ReaderInv ==
    /\ pc = "open" => archive \in Archives /\ full = <<>>
    /\ pc \in {"spine", "text"} => InBook
    /\ pc = "spine" => BetweenChapters
    /\ pc = "text" => InChapter
    /\ TextIsReading

LEMMA ReaderStarts == SessionInit => ReaderInv
  BY DEF SessionInit, EpubInit, ReaderInv, TextIsReading

LEMMA EmptyRead == <<>> \in Seq(Character) /\ GapAfter(<<>>) = "first"
<1>1. Len(<<>>) = 0 /\ <<>> \in Seq(Character)
  BY EmptySeq
<1>2. Gap(<<>>, 1) = "first"
  <2>1. Between(<<>>, 1) = 1 .. 1 - 1
    BY DEF Between
  <2> QED
    BY <2>1, GapIs
<1>3. Len(Decomposed(<<>>)) + 1 = 1
  BY <1>1, DecomposedEmpty
<1> QED
  BY <1>1, <1>2, <1>3, DecomposedEmpty DEF GapAfter

LEMMA OpenBookReads == ReaderInv /\ OpenBook => ReaderInv'
<1> SUFFICES ASSUME ReaderInv, OpenBook
             PROVE  ReaderInv'
  OBVIOUS
<1>1. archive \in Archives /\ full = <<>> /\ UNCHANGED archive /\ full' = full
  BY DEF ReaderInv, OpenBook
<1>2. CASE archive.rootfiles # <<>> /\ Head(archive.rootfiles) \in DOMAIN archive.packages
  <2>1. pc' = "spine" /\ refs' = Package.spine /\ InBook
    BY <1>1, <1>2 DEF OpenBook, InBook
  <2>2. refs' = SubSeq(Package.spine, 0 + 1, SpineLen) /\ 0 \in 0 .. SpineLen
    BY <2>1, BookTyped, SubSeqFull DEF SpineLen
  <2>3. Reached(0)
    BY DEF Reached
  <2>4. ShownUpTo(0) = <<>>
    BY <2>1, ShownUpToAll
  <2>5. FullIs(0)'
    <3>1. ShownUpTo(0)' = <<>> /\ full' = <<>>
      BY <1>1, <2>4, BookStays
    <3> QED
      BY <3>1, EmptyRead DEF FullIs, Alike, Same, GapAfter
  <2>6. BetweenChapters'
    <3>1. SpineLen' = SpineLen /\ Package' = Package /\ Reached(0)'
      BY <1>1, <2>3, BookStays
    <3> QED
      BY <2>2, <2>5, <3>1 DEF BetweenChapters
  <2>7. InBook'
    BY <1>1, <2>1, BookStays
  <2> QED
    BY <2>1, <2>6, <2>7 DEF ReaderInv, TextIsReading
<1>3. CASE ~(archive.rootfiles # <<>> /\ Head(archive.rootfiles) \in DOMAIN archive.packages)
  BY <1>3 DEF OpenBook, ReaderInv, TextIsReading
<1> QED
  BY <1>2, <1>3

\* Between two chapters, with an itemref to read.
LEMMA NextItemRef ==
    ASSUME ReaderInv, pc = "spine", refs # <<>>
    PROVE  \E k \in 0 .. SpineLen :
               /\ k # SpineLen /\ k \in Nat /\ k + 1 \in 1 .. SpineLen /\ k + 1 \in 0 .. SpineLen
               /\ Head(refs) = Package.spine[k + 1]
               /\ Tail(refs) = SubSeq(Package.spine, (k + 1) + 1, SpineLen)
               /\ Reached(k)
               /\ AllReadable => FullIs(k)
<1>1. InBook /\ BetweenChapters
  BY DEF ReaderInv
<1>2. PICK k \in 0 .. SpineLen :
          /\ refs = SubSeq(Package.spine, k + 1, SpineLen)
          /\ Reached(k)
          /\ AllReadable => FullIs(k)
  BY <1>1 DEF BetweenChapters
<1>3. Package.spine \in Seq(STRING) /\ SpineLen \in Nat
  BY <1>1, BookTyped
<1>4. /\ k # SpineLen /\ Head(refs) = Package.spine[k + 1]
      /\ Tail(refs) = SubSeq(Package.spine, (k + 1) + 1, SpineLen)
  BY <1>2, <1>3, SuffixStep DEF SpineLen
<1>5. k \in Nat /\ k + 1 \in 1 .. SpineLen /\ k + 1 \in 0 .. SpineLen
  BY <1>3, <1>4, NextPlace
<1> QED
  BY <1>2, <1>4, <1>5

LEMMA ReachedNext ==
    ASSUME NEW k \in Nat, Reached(k), k + 1 \in Places => Has(FileOf(Package.spine[k + 1]))
    PROVE  Reached(k + 1)
<1>1. \A i \in 1 .. k + 1 : i \in 1 .. k \/ i = k + 1
  OBVIOUS
<1> QED
  BY <1>1 DEF Reached

LEMMA SkipItemRefReads == ReaderInv /\ SkipItemRef => ReaderInv'
<1> SUFFICES ASSUME ReaderInv, SkipItemRef
             PROVE  ReaderInv'
  OBVIOUS
<1>1. /\ pc = "spine" /\ refs # <<>> /\ Items(Head(refs)) = {} /\ refs' = Tail(refs)
      /\ UNCHANGED archive /\ pc' = "spine" /\ full' = full /\ InBook
  BY DEF ReaderInv, SkipItemRef
<1>2. PICK k \in 0 .. SpineLen :
               /\ k # SpineLen /\ k \in Nat /\ k + 1 \in 1 .. SpineLen /\ k + 1 \in 0 .. SpineLen
               /\ Head(refs) = Package.spine[k + 1]
               /\ Tail(refs) = SubSeq(Package.spine, (k + 1) + 1, SpineLen)
               /\ Reached(k)
               /\ AllReadable => FullIs(k)
  BY <1>1, NextItemRef
<1>3. k + 1 \notin Places
  BY <1>1, <1>2 DEF Places
<1>4. Reached(k + 1)
  BY <1>2, <1>3, ReachedNext
<1>5. ShownUpTo(k + 1) = ShownUpTo(k)
  <2>1. ShownUpTo(k) \in Seq(Character) /\ ShownUpTo(k + 1) = ShownUpTo(k) \o Piece(k + 1)
    BY <1>1, <1>2, <1>4, ShownUpToGrows
  <2>2. Piece(k + 1) = <<>>
    BY <1>3 DEF Piece
  <2> QED
    BY <2>1, <2>2, ConcatEmptySeq
<1>6. /\ Package' = Package /\ SpineLen' = SpineLen /\ Reached(k + 1)'
      /\ AllReadable' <=> AllReadable
      /\ ShownUpTo(k + 1)' = ShownUpTo(k + 1)
      /\ InBook'
  BY <1>1, <1>4, BookStays
<1>7. AllReadable' => FullIs(k + 1)'
  BY <1>1, <1>2, <1>5, <1>6 DEF FullIs
<1>8. BetweenChapters'
  BY <1>1, <1>2, <1>6, <1>7 DEF BetweenChapters
<1> QED
  BY <1>1, <1>6, <1>8 DEF ReaderInv, TextIsReading

LEMMA OpenChapterReads == ReaderInv /\ OpenChapter => ReaderInv'
<1> SUFFICES ASSUME ReaderInv, OpenChapter
             PROVE  ReaderInv'
  OBVIOUS
<1>1. /\ pc = "spine" /\ refs # <<>> /\ Items(Head(refs)) # {} /\ refs' = Tail(refs)
      /\ UNCHANGED archive /\ full' = full /\ InBook /\ depth' = 0 /\ buf' = <<>>
  BY DEF ReaderInv, OpenChapter
<1>2. CASE Has(FileOf(Head(refs)))
  <2>1. pc' = "text" /\ tokens' = archive.files[FileOf(Head(refs))]
    BY <1>2 DEF OpenChapter
  <2>2. PICK k \in 0 .. SpineLen :
               /\ k # SpineLen /\ k \in Nat /\ k + 1 \in 1 .. SpineLen /\ k + 1 \in 0 .. SpineLen
               /\ Head(refs) = Package.spine[k + 1]
               /\ Tail(refs) = SubSeq(Package.spine, (k + 1) + 1, SpineLen)
               /\ Reached(k)
               /\ AllReadable => FullIs(k)
    BY <1>1, NextItemRef
  <2>3. k + 1 \in Places /\ Has(FileOf(Package.spine[k + 1]))
    <3>1. k + 1 \in DOMAIN Package.spine
      BY <1>1, <2>2, BookTyped
    <3> QED
      BY <1>1, <1>2, <2>2, <3>1 DEF Places
  <2>4. Reached(k + 1)
    BY <2>2, <2>3, ReachedNext
  <2> DEFINE c == Chapter(k + 1)
  <2>5. c \in Seq(Token) /\ tokens' = c
    BY <1>1, <2>1, <2>2, <2>3, PieceTyped DEF Chapter
  <2> HIDE DEF c
  <2>6. /\ tokens' = SubSeq(c, 0 + 1, Len(c)) /\ 0 \in 0 .. Len(c)
        /\ DepthAt(c, 0) = 0 /\ ShownTo(c, 0) = <<>>
    <3>1. 0 \in Nat /\ Len(c) \in Nat /\ 0 + 1 = 1
      BY <2>5, LenProperties
    <3>2. SubSeq(c, 0 + 1, Len(c)) = c
      BY <2>5, <3>1, SubSeqFull
    <3> QED
      BY <2>5, <3>1, <3>2, DepthIs, ShownToAll
  <2>7. /\ Package' = Package /\ SpineLen' = SpineLen /\ Reached(k + 1)' /\ Places' = Places
        /\ AllReadable' <=> AllReadable
        /\ ShownUpTo(k)' = ShownUpTo(k) /\ Chapter(k + 1)' = c
        /\ InBook'
    BY <1>1, <2>4, BookStays DEF c
  <2>8. ReadTo(Chapter(k + 1))'
    <3>1. \E i \in 0 .. Len(c) :
            /\ tokens' = SubSeq(c, i + 1, Len(c))
            /\ depth' = DepthAt(c, i)
            /\ Readable(c) => buf' = ShownTo(c, i)
      BY <1>1, <2>6
    <3> QED
      BY <2>7, <3>1 DEF ReadTo
  <2>9. AllReadable' => FullIs(k)'
    BY <1>1, <2>2, <2>7 DEF FullIs
  <2>10. InChapter'
    BY <1>1, <2>2, <2>3, <2>7, <2>8, <2>9 DEF InChapter
  <2> QED
    BY <2>1, <2>7, <2>10 DEF ReaderInv, TextIsReading
<1>3. CASE ~Has(FileOf(Head(refs)))
  BY <1>3 DEF OpenChapter, ReaderInv, TextIsReading
<1> QED
  BY <1>2, <1>3

\* In a chapter.
LEMMA HereInBook ==
    ASSUME ReaderInv, pc = "text"
    PROVE  \E k \in 0 .. SpineLen :
               /\ k # SpineLen /\ k \in Nat /\ k + 1 \in 0 .. SpineLen /\ k + 1 \in Places
               /\ refs = SubSeq(Package.spine, (k + 1) + 1, SpineLen)
               /\ Reached(k + 1)
               /\ ReadTo(Chapter(k + 1))
               /\ AllReadable => FullIs(k)
               /\ Chapter(k + 1) \in Seq(Token)
<1>1. InBook /\ InChapter
  BY DEF ReaderInv
<1>2. PICK k \in 0 .. SpineLen :
        /\ k # SpineLen /\ k + 1 \in Places
        /\ refs = SubSeq(Package.spine, (k + 1) + 1, SpineLen)
        /\ Reached(k + 1)
        /\ ReadTo(Chapter(k + 1))
        /\ AllReadable => FullIs(k)
  BY <1>1 DEF InChapter
<1>3. k \in Nat /\ k + 1 \in 0 .. SpineLen /\ k + 1 \in 1 .. k + 1
  BY <1>1, <1>2, BookTyped, NextPlace
<1>4. Chapter(k + 1) \in Seq(Token)
  BY <1>1, <1>2, <1>3, PieceTyped DEF Reached
<1> QED
  BY <1>2, <1>3, <1>4

LEMMA ReadTokenReads == ReaderInv /\ ReadToken => ReaderInv'
<1> SUFFICES ASSUME ReaderInv, ReadToken
             PROVE  ReaderInv'
  OBVIOUS
<1>1. /\ pc = "text" /\ tokens # <<>> /\ tokens' = Tail(tokens) /\ refs' = refs
      /\ UNCHANGED archive /\ full' = full /\ InBook
  BY DEF ReaderInv, ReadToken
<1>2. CASE Head(tokens).kind # "malformed"
  <2>1. /\ pc' = "text" /\ depth' = DepthAfter(Head(tokens))
        /\ buf' = buf \o Written(Head(tokens))
    BY <1>1, <1>2 DEF ReadToken
  <2>2. PICK k \in 0 .. SpineLen :
               /\ k # SpineLen /\ k \in Nat /\ k + 1 \in 0 .. SpineLen /\ k + 1 \in Places
               /\ refs = SubSeq(Package.spine, (k + 1) + 1, SpineLen)
               /\ Reached(k + 1)
               /\ ReadTo(Chapter(k + 1))
               /\ AllReadable => FullIs(k)
               /\ Chapter(k + 1) \in Seq(Token)
    BY <1>1, HereInBook
  <2> DEFINE c == Chapter(k + 1)
  <2>3. PICK i \in 0 .. Len(c) :
          /\ tokens = SubSeq(c, i + 1, Len(c))
          /\ depth = DepthAt(c, i)
          /\ Readable(c) => buf = ShownTo(c, i)
    BY <2>2 DEF ReadTo
  <2>4. c \in Seq(Token) /\ Len(c) \in Nat
    BY <2>2, LenProperties
  <2>5. /\ Package' = Package /\ SpineLen' = SpineLen /\ Reached(k + 1)' /\ Places' = Places
        /\ AllReadable' <=> AllReadable
        /\ ShownUpTo(k)' = ShownUpTo(k) /\ Chapter(k + 1)' = c
        /\ InBook'
    BY <1>1, <2>2, BookStays
  <2> HIDE DEF c
  <2>6. /\ i # Len(c) /\ Head(tokens) = c[i + 1]
        /\ Tail(tokens) = SubSeq(c, (i + 1) + 1, Len(c))
    BY <1>1, <2>3, <2>4, SuffixStep
  <2>7. i + 1 \in 0 .. Len(c)
    BY <2>4, <2>6, NextPlace
  <2>8. DepthAfter(c[i + 1]) = DepthAt(c, i + 1)
        /\ (Readable(c) => Written(c[i + 1]) = ShownToken(c, i + 1))
    BY <2>3, <2>4, <2>6, TokenRead
  <2>9. ShownTo(c, i + 1) = ShownTo(c, i) \o ShownToken(c, i + 1)
    BY <2>4, <2>6, ShownToGrows
  <2>10. ReadTo(Chapter(k + 1))'
    <3>1. \E j \in 0 .. Len(c) :
            /\ tokens' = SubSeq(c, j + 1, Len(c))
            /\ depth' = DepthAt(c, j)
            /\ Readable(c) => buf' = ShownTo(c, j)
      BY <1>1, <2>1, <2>3, <2>6, <2>7, <2>8, <2>9
    <3> QED
      BY <2>5, <3>1 DEF ReadTo
  <2>11. AllReadable' => FullIs(k)'
    BY <1>1, <2>2, <2>5 DEF FullIs
  <2>12. InChapter'
    BY <1>1, <2>2, <2>5, <2>10, <2>11 DEF InChapter
  <2> QED
    BY <2>1, <2>5, <2>12 DEF ReaderInv, TextIsReading
<1>3. CASE Head(tokens).kind = "malformed"
  BY <1>3 DEF ReadToken, ReaderInv, TextIsReading
<1> QED
  BY <1>2, <1>3

LEMMA EndChapterReads == ReaderInv /\ EndChapter => ReaderInv'
<1> SUFFICES ASSUME ReaderInv, EndChapter
             PROVE  ReaderInv'
  OBVIOUS
<1>1. /\ pc = "text" /\ tokens = <<>> /\ refs' = refs /\ pc' = "spine"
      /\ UNCHANGED archive /\ InBook
      /\ full' = full \o TrimSpace(CollapseLines(buf)) \o <<"newline">>
  BY DEF ReaderInv, EndChapter
<1>2. PICK k \in 0 .. SpineLen :
               /\ k # SpineLen /\ k \in Nat /\ k + 1 \in 0 .. SpineLen /\ k + 1 \in Places
               /\ refs = SubSeq(Package.spine, (k + 1) + 1, SpineLen)
               /\ Reached(k + 1)
               /\ ReadTo(Chapter(k + 1))
               /\ AllReadable => FullIs(k)
               /\ Chapter(k + 1) \in Seq(Token)
  BY <1>1, HereInBook
<1> DEFINE c == Chapter(k + 1)  b == ShownTo(c, Len(c))
<1>3. AllReadable => buf = b /\ FullIs(k)
  <2>1. PICK i \in 0 .. Len(c) :
          /\ tokens = SubSeq(c, i + 1, Len(c))
          /\ Readable(c) => buf = ShownTo(c, i)
    BY <1>2 DEF ReadTo
  <2>2. AllReadable => Readable(c)
    BY <1>2 DEF AllReadable
  <2>3. c \in Seq(Token)
    BY <1>2
  <2> HIDE DEF c
  <2>4. i = Len(c)
    BY <1>1, <2>1, <2>3, SuffixStep
  <2> QED
    BY <1>2, <2>1, <2>2, <2>4
<1>4. b \in Seq(Character) /\ Shown(c) = b \o <<"newline">>
  BY <1>2, ShownToAll
<1>5. ShownUpTo(k) \in Seq(Character) /\ ShownUpTo(k + 1) = ShownUpTo(k) \o Piece(k + 1)
  BY <1>1, <1>2, ShownUpToGrows
<1>6. Piece(k + 1) = Shown(c)
  BY <1>2 DEF Piece
<1> HIDE DEF b, c
<1>7. /\ Package' = Package /\ SpineLen' = SpineLen /\ Reached(k + 1)'
      /\ AllReadable' <=> AllReadable
      /\ ShownUpTo(k + 1)' = ShownUpTo(k + 1)
      /\ InBook'
  BY <1>1, <1>2, BookStays
<1>8. ASSUME AllReadable
      PROVE  FullIs(k + 1)'
  <2>1. buf = b /\ full \in Seq(Character) /\ GapAfter(full) \in {"first", "line"}
        /\ Alike(full, ShownUpTo(k))
    BY <1>3, <1>8 DEF FullIs
  <2>2. /\ full' \in Seq(Character) /\ GapAfter(full') \in {"first", "line"}
        /\ Alike(full', ShownUpTo(k) \o (b \o <<"newline">>))
    BY <1>1, <1>4, <1>5, <2>1, ChapterRead
  <2>3. Alike(full', ShownUpTo(k + 1))
    BY <1>4, <1>5, <1>6, <2>2
  <2> QED
    BY <1>7, <2>2, <2>3 DEF FullIs, Alike, Same, GapAfter
<1>9. BetweenChapters'
  BY <1>1, <1>2, <1>7, <1>8 DEF BetweenChapters
<1> QED
  BY <1>1, <1>7, <1>9 DEF ReaderInv, TextIsReading

LEMMA FinalizeTextReads == ReaderInv /\ FinalizeText => ReaderInv'
<1> SUFFICES ASSUME ReaderInv, FinalizeText
             PROVE  ReaderInv'
  OBVIOUS
<1>1. /\ pc = "spine" /\ refs = <<>> /\ pc' = "row" /\ full' = CleanForNLP(full)
      /\ UNCHANGED archive /\ InBook /\ BetweenChapters
  BY DEF ReaderInv, FinalizeText
<1>2. PICK k \in 0 .. SpineLen :
          /\ refs = SubSeq(Package.spine, k + 1, SpineLen)
          /\ AllReadable => FullIs(k)
  BY <1>1 DEF BetweenChapters
<1>3. k = SpineLen
  BY <1>1, <1>2, BookTyped, SuffixStep DEF SpineLen
<1>4. ShownUpTo(k) = ShownBook
  BY <1>1, <1>3, ShownUpToAll
<1>5. ASSUME AllReadable
      PROVE  Reading(Decomposed(full')) = Reading(Decomposed(ShownBook))
  <2>1. full \in Seq(Character) /\ Alike(full, ShownBook)
    BY <1>2, <1>4, <1>5 DEF FullIs
  <2>2. Reading(Decomposed(CleanForNLP(full))) = Reading(Decomposed(full))
    BY <2>1, TextCleaned
  <2> QED
    BY <1>1, <2>1, <2>2 DEF Alike, Same
<1>6. ShownBook' = ShownBook /\ (AllReadable' <=> AllReadable)
  BY <1>1, BookStays
<1>7. AllReadable' => Reading(Decomposed(full')) = Reading(Decomposed(ShownBook'))
  BY <1>5, <1>6
<1>8. TextIsReading'
  <2> DEFINE same == Reading(Decomposed(full)) = Reading(Decomposed(ShownBook))
  <2>1. TextIsReading <=> (pc = "row" /\ AllReadable => same)
    BY DEF TextIsReading, AllReadable
  <2>2. same' <=> Reading(Decomposed(full')) = Reading(Decomposed(ShownBook'))
    BY DEF Reading, Decomposed, Gap
  <2> QED
    BY <1>7, <2>2 DEF TextIsReading, AllReadable
<1> QED
  BY <1>1, <1>8 DEF ReaderInv

LEMMA ReaderSteps == ReaderInv /\ [SessionNext]_sessionVars => ReaderInv'
<1> SUFFICES ASSUME ReaderInv, [SessionNext]_sessionVars
             PROVE  ReaderInv'
  OBVIOUS
<1>1. CASE OpenBook
  BY <1>1, OpenBookReads
<1>2. CASE SkipItemRef
  BY <1>2, SkipItemRefReads
<1>3. CASE OpenChapter
  BY <1>3, OpenChapterReads
<1>4. CASE ReadToken
  BY <1>4, ReadTokenReads
<1>5. CASE EndChapter
  BY <1>5, EndChapterReads
<1>6. CASE FinalizeText
  BY <1>6, FinalizeTextReads
<1>7. CASE Store \/ TypeLine \/ RunLine
  BY <1>7 DEF Store, TypeLine, RunLine, ReaderInv, TextIsReading
<1>8. CASE UNCHANGED sessionVars
  <2>1. /\ UNCHANGED <<archive, pc, refs, tokens, depth, buf, full>>
    BY <1>8 DEF sessionVars, epubVars, reading
  <2>2. /\ Package' = Package /\ Places' = Places /\ SpineLen' = SpineLen
        /\ InBook' <=> InBook
        /\ AllReadable' <=> AllReadable
        /\ \A k : ShownUpTo(k)' = ShownUpTo(k)
        /\ \A k : Reached(k)' <=> Reached(k)
        /\ \A k : Chapter(k)' = Chapter(k)
        /\ ShownBook' = ShownBook
    BY <2>1, BookStays
  <2>3. BetweenChapters => BetweenChapters'
    BY <2>1, <2>2 DEF BetweenChapters, FullIs
  <2>4. InChapter => InChapter'
    BY <2>1, <2>2 DEF InChapter, FullIs, ReadTo
  <2>5. TextIsReading => TextIsReading'
    BY <2>1, <2>2 DEF TextIsReading, AllReadable
  <2> QED
    BY <2>1, <2>2, <2>3, <2>4, <2>5 DEF ReaderInv
<1> QED
  BY <1>1, <1>2, <1>3, <1>4, <1>5, <1>6, <1>7, <1>8 DEF SessionNext, EpubNext

\* epub.go:127, "Text extracts the plain text content of the EPUB in reading order": of
\* any book without an entity escaped twice, whose ignored elements are balanced, the
\* text of the row reads as the book does, letter by letter, with words and lines parted
\* where they are in its text, and at br and the tags of BlockTags, however its chapters
\* are cut into tokens.
THEOREM TextReadsAsBook == SessionSpec => []TextIsReading
<1>1. ReaderInv => TextIsReading
  BY DEF ReaderInv
<1>2. SessionSpec => []ReaderInv
  BY ReaderStarts, ReaderSteps, PTL DEF SessionSpec
<1> QED
  BY <1>1, <1>2, PTL
=============================================================================
