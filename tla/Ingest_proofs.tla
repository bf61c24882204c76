----------------------------- MODULE Ingest_proofs -----------------------------
(***************************************************************************)
(* Proofs about Ingest: a directory goes in as a whole or not at all, and  *)
(* no row that is there is touched, for any number of ingests of any       *)
(* directories.                                                            *)
(***************************************************************************)
EXTENDS Ingest, SequenceTheorems, TLAPS

\* The one writer: who has rows in a batch is it, and the rows are not in the corpus.
OneWriter ==
    /\ \A p, q \in writer : p = q
    /\ \A p \in Ingesters : ing[p].batch # {} => writer = {p}
    /\ \A p \in Ingesters : ing[p].batch \cap DOMAIN corpus = {}

\* The books of a directory that are behind the iterator are in the batch, or in the
\* corpus already; a book that is a copy of an earlier one is in the batch.
NoneIsLost ==
    \A p \in Ingesters :
        /\ ing[p].pc = "insert" => ing[p].rest # <<>>
        /\ ing[p].pc = "scan" => ing[p].seen = ing[p].batch
        /\ ing[p].pc = "insert" => ing[p].seen = ing[p].batch \cup {File1(p).id}
        /\ Working(p) =>
             Books(ing[p].dir) \subseteq Books(ing[p].rest) \cup ing[p].batch \cup DOMAIN corpus

IngestInv == IngestTypeOK /\ OneWriter /\ NoneIsLost

-----------------------------------------------------------------------------
(* Lemmas                                                                  *)

\* The books of a sequence are its first one and those of the rest.
LEMMA BooksOfTail ==
    ASSUME NEW s \in Seq(File), s # <<>>
    PROVE  Books(s) = {Head(s).id} \cup Books(Tail(s))
<1>1. Len(s) \in Nat \ {0} /\ Head(s) = s[1] /\ DOMAIN s = 1 .. Len(s)
  OBVIOUS
<1>2. DOMAIN Tail(s) = 1 .. Len(s) - 1 /\ \A i \in 1 .. Len(s) - 1 : Tail(s)[i] = s[i + 1]
  OBVIOUS
<1>3. Range(s) = {s[1]} \cup Range(Tail(s))
  <2>1. ASSUME NEW x \in Range(s)
        PROVE  x \in {s[1]} \cup Range(Tail(s))
    <3>1. PICK i \in 1 .. Len(s) : x = s[i]
      BY <1>1, <2>1 DEF Range
    <3>2. CASE i # 1
      <4>1. i - 1 \in DOMAIN Tail(s) /\ Tail(s)[i - 1] = x
        BY <1>1, <1>2, <3>1, <3>2
      <4> QED
        BY <4>1 DEF Range
    <3> QED
      BY <3>1, <3>2
  <2>2. ASSUME NEW i \in DOMAIN Tail(s)
        PROVE  Tail(s)[i] \in Range(s)
    BY <1>1, <1>2, <2>2 DEF Range
  <2>3. s[1] \in Range(s)
    BY <1>1 DEF Range
  <2> QED
    BY <2>1, <2>2, <2>3 DEF Range
<1> QED
  BY <1>1, <1>3 DEF Books

\* The file the iterator is at.
LEMMA FirstFile ==
    ASSUME IngestTypeOK, NEW p \in Ingesters, ing[p].rest # <<>>
    PROVE  /\ File1(p) \in File /\ Tail(ing[p].rest) \in Seq(File)
           /\ Books(ing[p].rest) = {File1(p).id} \cup Books(Tail(ing[p].rest))
  BY BooksOfTail DEF IngestTypeOK, Ingestion, File1

\* An ingest that has read nothing yet.
LEMMA FreshType ==
    ASSUME NEW dir \in Seq(File), NEW pc \in {"ready", "scan", "insert", "ok", "failed"}
    PROVE  Fresh(dir, pc) \in Ingestion
  BY DEF Fresh, Ingestion

-----------------------------------------------------------------------------
(* The invariant                                                           *)

\* At first every directory is unread.
LEMMA IngestInvInit == IngestInit => IngestInv
<1> SUFFICES ASSUME IngestInit
             PROVE  IngestInv
  OBVIOUS
<1>1. <<>> \in Seq(File)
  OBVIOUS
<1>2. Fresh(<<>>, "ready") \in Ingestion
  BY <1>1, FreshType
<1>3. ing \in [Ingesters -> Ingestion]
  BY <1>2 DEF IngestInit
<1>4. IngestTypeOK
  BY <1>3, IngestAssumption DEF IngestInit, IngestTypeOK, CorpusTypeOK
<1>5. OneWriter /\ NoneIsLost
  BY DEF IngestInit, OneWriter, NoneIsLost, Working, Fresh
<1> QED
  BY <1>4, <1>5 DEF IngestInv

\* What each step makes of a process; the others are left alone.
Step(p, new) ==
    /\ ing' = [ing EXCEPT ![p] = new]
    /\ new \in Ingestion

\* A book that is in the corpus or was seen is passed over.
LEMMA SkipIs ==
    ASSUME IngestInv, NEW p \in Ingesters, SkipSeen(p) \/ SkipIngested(p)
    PROVE  /\ Step(p, [ing[p] EXCEPT !.rest = Tail(@)])
           /\ ing[p].pc = "scan" /\ ing[p].rest # <<>> /\ UNCHANGED <<corpus, writer, crashes>>
           /\ File1(p).id \in ing[p].batch \cup DOMAIN corpus
<1>1. ing[p].pc = "scan" /\ ing[p].rest # <<>> /\ Skip(p)
  BY DEF SkipSeen, SkipIngested, NotSeen
<1>2. ing[p] \in Ingestion /\ Tail(ing[p].rest) \in Seq(File)
  BY <1>1, FirstFile DEF IngestInv, IngestTypeOK
<1>3. [ing[p] EXCEPT !.rest = Tail(@)] \in Ingestion
  BY <1>2 DEF Ingestion
<1>4. ing' = [ing EXCEPT ![p] = [ing[p] EXCEPT !.rest = Tail(@)]]
  BY <1>1 DEF Skip, IngestInv, IngestTypeOK
<1> QED
  BY <1>1, <1>3, <1>4
  DEF Step, Skip, SkipSeen, SkipIngested, InCorpus, IngestInv, NoneIsLost

\* The text of the next book is extracted, to be inserted.
LEMMA ExtractIs ==
    ASSUME IngestInv, NEW p \in Ingesters, Extract(p)
    PROVE  /\ Step(p, [ing[p] EXCEPT !.seen = @ \cup {File1(p).id}, !.pc = "insert"])
           /\ ing[p].pc = "scan" /\ ing[p].rest # <<>> /\ UNCHANGED <<corpus, writer, crashes>>
<1>1. ing[p] \in Ingestion /\ File1(p).id \in Docs
  BY FirstFile DEF Extract, NotSeen, IngestInv, IngestTypeOK, File
<1>2. [ing[p] EXCEPT !.seen = @ \cup {File1(p).id}, !.pc = "insert"] \in Ingestion
  BY <1>1 DEF Ingestion
<1> QED
  BY <1>2 DEF Extract, NotSeen, Step, IngestInv, IngestTypeOK

\* A failure gives the whole batch up.
LEMMA RollBackIs ==
    ASSUME IngestInv, NEW p \in Ingesters, RollBack(p)
    PROVE  /\ Step(p, Fresh(ing[p].dir, "failed"))
           /\ writer' = writer \ {p} /\ UNCHANGED corpus
<1>1. ing[p].dir \in Seq(File)
  BY DEF IngestInv, IngestTypeOK, Ingestion
<1>2. Fresh(ing[p].dir, "failed") \in Ingestion
  BY <1>1, FreshType
<1> QED
  BY <1>2 DEF RollBack, Step, IngestInv, IngestTypeOK

\* The next book goes into the batch of the one writer.
LEMMA InsertIs ==
    ASSUME IngestInv, NEW p \in Ingesters, Insert(p), ~RollBack(p)
    PROVE  /\ Step(p, [ing[p] EXCEPT !.batch = @ \cup {File1(p).id}, !.rest = Tail(@),
                                     !.pc = "scan"])
           /\ ing[p].pc = "insert" /\ ing[p].rest # <<>> /\ ~InCorpus(File1(p).id)
           /\ writer \subseteq {p} /\ writer' = {p} /\ UNCHANGED <<corpus, crashes>>
<1>1. ing[p].rest # <<>>
  BY DEF Insert, IngestInv, NoneIsLost
<1>2. ing[p] \in Ingestion /\ File1(p).id \in Docs /\ Tail(ing[p].rest) \in Seq(File)
  BY <1>1, FirstFile DEF IngestInv, IngestTypeOK, File
<1>3. [ing[p] EXCEPT !.batch = @ \cup {File1(p).id}, !.rest = Tail(@), !.pc = "scan"]
            \in Ingestion
  BY <1>2 DEF Ingestion
<1> QED
  BY <1>1, <1>3 DEF Insert, Step, IngestInv, IngestTypeOK

\* An ingest begins, or begins again.
LEMMA BeginIs ==
    ASSUME IngestInv, NEW p \in Ingesters, StartIngest(p) \/ RunAgain(p)
    PROVE  /\ \E dir \in Dirs : Step(p, Fresh(dir, "scan"))
           /\ UNCHANGED <<corpus, writer, crashes>>
  BY IngestAssumption, FreshType DEF StartIngest, RunAgain, Step

\* The batch goes into the corpus at the end of the directory.
LEMMA CommitIs ==
    ASSUME IngestInv, NEW p \in Ingesters, Commit(p)
    PROVE  /\ Step(p, Fresh(ing[p].dir, "ok"))
           /\ ing[p].pc = "scan" /\ ing[p].rest = <<>>
           /\ writer' = writer \ {p} /\ UNCHANGED crashes
           /\ CorpusTypeOK'
           /\ DOMAIN corpus' = DOMAIN corpus \cup ing[p].batch
           /\ \A d \in DOMAIN corpus : corpus'[d] = corpus[d]
<1>1. ing[p].dir \in Seq(File) /\ ing[p].batch \subseteq Docs
  BY DEF IngestInv, IngestTypeOK, Ingestion
<1>2. Fresh(ing[p].dir, "ok") \in Ingestion
  BY <1>1, FreshType
<1>3. \A d \in Docs : NewRow(Extracted[d].labels, Extracted[d].txt) \in CorpusRow
  BY IngestAssumption DEF NewRow, CorpusRow
<1>4. ing[p].batch \cap DOMAIN corpus = {}
  BY DEF IngestInv, OneWriter
<1>5. ing' = [ing EXCEPT ![p] = Fresh(ing[p].dir, "ok")]
  BY DEF Commit, IngestInv, IngestTypeOK
<1> DEFINE rows == [d \in ing[p].batch |-> NewRow(Extracted[d].labels, Extracted[d].txt)]
<1>6. /\ DOMAIN rows = ing[p].batch
      /\ \A d \in ing[p].batch : rows[d] \in CorpusRow
  BY <1>1, <1>3
<1>7. WriteStream(rows)
  BY DEF Commit
<1> HIDE DEF rows
<1>8. /\ DOMAIN corpus' = DOMAIN corpus \cup ing[p].batch
      /\ \A d \in DOMAIN corpus : corpus'[d] = corpus[d]
      /\ \A d \in DOMAIN corpus' : corpus'[d] \in CorpusRow
      /\ corpus' = [d \in DOMAIN corpus' |-> corpus'[d]]
  BY <1>4, <1>6, <1>7 DEF WriteStream, IngestInv, IngestTypeOK, CorpusTypeOK
<1>9. CorpusTypeOK'
  BY <1>1, <1>8 DEF CorpusTypeOK, IngestInv, IngestTypeOK
<1> QED
  BY <1>2, <1>5, <1>8, <1>9 DEF Commit, Step

\* The curator changes rows, and neither adds nor removes any.
LEMMA CurateIs ==
    ASSUME IngestInv, Curate
    PROVE  /\ UNCHANGED <<ing, writer, crashes>>
           /\ CorpusTypeOK' /\ DOMAIN corpus' = DOMAIN corpus
<1>1. PICK d \in DOMAIN corpus : \/ \E t \in Txts : UpdateTxt(d, t)
                                 \/ AckTxt(d) \/ AckNlp(d)
  BY DEF Curate
<1>2. PICK row \in CorpusRow : SetRow(d, row)
  <2>1. corpus[d] \in CorpusRow
    BY DEF IngestInv, IngestTypeOK, CorpusTypeOK
  <2>2. /\ \A t \in Txts : [corpus[d] EXCEPT !.txt = t] \in CorpusRow
        /\ [corpus[d] EXCEPT !.txt_ack = TRUE] \in CorpusRow
        /\ [corpus[d] EXCEPT !.nlp_ack = TRUE] \in CorpusRow
    BY <2>1 DEF CorpusRow
  <2> QED
    BY <1>1, <2>2 DEF UpdateTxt, AckTxt, AckNlp
<1> QED
  BY <1>2 DEF Curate, SetRow, IngestInv, IngestTypeOK, CorpusTypeOK

\* Every step keeps the invariant.
LEMMA IngestInvStep ==
    ASSUME IngestInv, [IngestNext]_ingestVars
    PROVE  IngestInv'
<1> USE DEF IngestInv
<1>1. ASSUME NEW p \in Ingesters, StartIngest(p) \/ RunAgain(p)
      PROVE  IngestInv'
  <2>1. PICK dir \in Dirs : Step(p, Fresh(dir, "scan")) /\ UNCHANGED <<corpus, writer, crashes>>
    BY <1>1, BeginIs
  <2> QED
    BY <2>1 DEF Step, Fresh, IngestTypeOK, CorpusTypeOK, OneWriter, NoneIsLost, Working, File1
<1>2. ASSUME NEW p \in Ingesters, SkipSeen(p) \/ SkipIngested(p)
      PROVE  IngestInv'
  <2>1. /\ Step(p, [ing[p] EXCEPT !.rest = Tail(@)])
        /\ ing[p].pc = "scan" /\ UNCHANGED <<corpus, writer, crashes>>
        /\ File1(p).id \in ing[p].batch \cup DOMAIN corpus
        /\ Books(ing[p].rest) = {File1(p).id} \cup Books(Tail(ing[p].rest))
    BY <1>2, SkipIs, FirstFile
  <2>2. IngestTypeOK'
    BY <2>1 DEF Step, IngestTypeOK, CorpusTypeOK
  <2>3. \A q \in Ingesters : ing'[q].batch = ing[q].batch
    BY <2>1 DEF Step, IngestTypeOK, Ingestion
  <2>4. OneWriter'
    BY <2>1, <2>3 DEF OneWriter
  <2>5. ASSUME NEW q \in Ingesters
        PROVE  IF q = p THEN /\ ing'[q].pc = "scan" /\ ing'[q].rest = Tail(ing[q].rest)
                             /\ ing'[q].dir = ing[q].dir /\ ing'[q].seen = ing[q].seen
                        ELSE ing'[q] = ing[q]
    BY <2>1 DEF Step, IngestTypeOK, Ingestion
  <2>6. NoneIsLost'
    BY <2>1, <2>3, <2>5 DEF NoneIsLost, Working, File1
  <2> QED
    BY <2>2, <2>4, <2>6
<1>3. ASSUME NEW p \in Ingesters, Extract(p)
      PROVE  IngestInv'
  <2>1. /\ Step(p, [ing[p] EXCEPT !.seen = @ \cup {File1(p).id}, !.pc = "insert"])
        /\ ing[p].pc = "scan" /\ ing[p].rest # <<>> /\ UNCHANGED <<corpus, writer, crashes>>
    BY <1>3, ExtractIs
  <2>2. IngestTypeOK'
    BY <2>1 DEF Step, IngestTypeOK, CorpusTypeOK
  <2>3. \A q \in Ingesters : ing'[q].batch = ing[q].batch
    BY <2>1 DEF Step, IngestTypeOK, Ingestion
  <2>4. OneWriter'
    BY <2>1, <2>3 DEF OneWriter
  <2>5. NoneIsLost'
    BY <2>1 DEF Step, IngestTypeOK, Ingestion, NoneIsLost, Working, File1
  <2> QED
    BY <2>2, <2>4, <2>5
<1>4. ASSUME NEW p \in Ingesters, RollBack(p), crashes' \in 0 .. MaxCrashes
      PROVE  IngestInv'
  <2>1. /\ Step(p, Fresh(ing[p].dir, "failed"))
        /\ writer' = writer \ {p} /\ UNCHANGED corpus
    BY <1>4, RollBackIs
  <2> QED
    BY <1>4, <2>1
    DEF Step, Fresh, IngestTypeOK, CorpusTypeOK, OneWriter, NoneIsLost, Working, File1
<1>5. ASSUME NEW p \in Ingesters, Insert(p), ~RollBack(p)
      PROVE  IngestInv'
  <2>1. /\ Step(p, [ing[p] EXCEPT !.batch = @ \cup {File1(p).id}, !.rest = Tail(@),
                                  !.pc = "scan"])
        /\ ing[p].pc = "insert" /\ ~InCorpus(File1(p).id)
        /\ writer \subseteq {p} /\ writer' = {p} /\ UNCHANGED <<corpus, crashes>>
        /\ Books(ing[p].rest) = {File1(p).id} \cup Books(Tail(ing[p].rest))
    BY <1>5, InsertIs, FirstFile
  <2>2. IngestTypeOK'
    BY <2>1 DEF Step, IngestTypeOK, CorpusTypeOK
  <2>3. /\ ing'[p].batch = ing[p].batch \cup {File1(p).id}
        /\ \A q \in Ingesters : q # p => ing'[q] = ing[q]
    BY <2>1 DEF Step, IngestTypeOK, Ingestion
  <2>4. \A q \in Ingesters : q # p => ing[q].batch = {}
    BY <2>1 DEF OneWriter
  <2>5. OneWriter'
    BY <2>1, <2>3, <2>4 DEF OneWriter, InCorpus
  <2>6. NoneIsLost'
    BY <2>1 DEF Step, IngestTypeOK, Ingestion, NoneIsLost, Working, File1
  <2> QED
    BY <2>2, <2>5, <2>6
<1>6. ASSUME NEW p \in Ingesters, Commit(p)
      PROVE  IngestInv'
  <2>1. /\ Step(p, Fresh(ing[p].dir, "ok"))
        /\ writer' = writer \ {p} /\ UNCHANGED crashes
        /\ CorpusTypeOK' /\ DOMAIN corpus' = DOMAIN corpus \cup ing[p].batch
    BY <1>6, CommitIs
  <2>2. IngestTypeOK'
    BY <2>1 DEF Step, IngestTypeOK
  <2>3. OneWriter'
    BY <2>1 DEF Step, Fresh, IngestTypeOK, OneWriter
  <2>4. NoneIsLost'
    BY <2>1 DEF Step, Fresh, IngestTypeOK, NoneIsLost, Working, File1
  <2> QED
    BY <2>2, <2>3, <2>4
<1>7. CASE Curate
  <2>1. UNCHANGED <<ing, writer, crashes>> /\ CorpusTypeOK' /\ DOMAIN corpus' = DOMAIN corpus
    BY <1>7, CurateIs
  <2> QED
    BY <2>1 DEF IngestTypeOK, OneWriter, NoneIsLost, Working, File1
<1>8. CASE UNCHANGED ingestVars
  BY <1>8 DEF ingestVars, IngestTypeOK, CorpusTypeOK, OneWriter, NoneIsLost, Working, File1
<1>9. ASSUME NEW p \in Ingesters, BadFile(p) \/ Fail(p)
      PROVE  RollBack(p) /\ crashes' \in 0 .. MaxCrashes
  BY <1>9, IngestAssumption DEF BadFile, Fail, IngestTypeOK
<1>10. ASSUME NEW p \in Ingesters, Insert(p)
       PROVE  crashes' \in 0 .. MaxCrashes
  BY <1>10 DEF Insert, IngestTypeOK
<1> QED
  BY <1>1, <1>2, <1>3, <1>4, <1>5, <1>6, <1>7, <1>8, <1>9, <1>10 DEF IngestNext, IngestStep

-----------------------------------------------------------------------------
(* The theorems                                                            *)

\* The state of Ingest is well typed.
THEOREM IngestIsTyped == IngestSpec => []IngestTypeOK
<1>1. IngestInv => IngestTypeOK
  BY DEF IngestInv
<1>2. IngestInv /\ [IngestNext]_ingestVars => IngestInv'
  BY IngestInvStep
<1> QED
  BY IngestInvInit, <1>1, <1>2, PTL DEF IngestSpec

\* The steps that change the corpus: a commit and the curator's.
LEMMA CorpusChanges ==
    ASSUME IngestInv, [IngestNext]_ingestVars
    PROVE  UNCHANGED corpus \/ Curate \/ \E p \in Ingesters : Commit(p)
<1>1. \A p \in Ingesters : StartIngest(p) \/ RunAgain(p) => UNCHANGED corpus
  BY BeginIs
<1>2. \A p \in Ingesters : SkipSeen(p) \/ SkipIngested(p) => UNCHANGED corpus
  BY SkipIs
<1>3. \A p \in Ingesters : Extract(p) => UNCHANGED corpus
  BY ExtractIs
<1>4. \A p \in Ingesters : BadFile(p) \/ Fail(p) => UNCHANGED corpus
  BY DEF BadFile, Fail, RollBack
<1>5. \A p \in Ingesters : Insert(p) => UNCHANGED corpus
  BY DEF Insert, RollBack
<1> QED
  BY <1>1, <1>2, <1>3, <1>4, <1>5 DEF IngestNext, IngestStep, ingestVars

\* Whenever rows are added, all the books of a directory are in the corpus.
THEOREM DirectoriesGoInWhole == IngestSpec => IngestAllOrNothing
<1>1. IngestInv /\ [IngestNext]_ingestVars =>
        (DOMAIN corpus' \ DOMAIN corpus # {} =>
            \E p \in Ingesters : /\ ing[p].pc = "scan" /\ ing'[p].pc = "ok"
                                 /\ Books(ing[p].dir) \subseteq DOMAIN corpus')
  <2> SUFFICES ASSUME IngestInv, [IngestNext]_ingestVars,
                      DOMAIN corpus' \ DOMAIN corpus # {}
               PROVE  \E p \in Ingesters : /\ ing[p].pc = "scan" /\ ing'[p].pc = "ok"
                                           /\ Books(ing[p].dir) \subseteq DOMAIN corpus'
    OBVIOUS
  <2>1. PICK p \in Ingesters : Commit(p)
    BY CorpusChanges, CurateIs
  <2>2. /\ Step(p, Fresh(ing[p].dir, "ok")) /\ ing[p].pc = "scan" /\ ing[p].rest = <<>>
        /\ DOMAIN corpus' = DOMAIN corpus \cup ing[p].batch
    BY <2>1, CommitIs
  <2>3. ing'[p].pc = "ok"
    BY <2>2 DEF Step, Fresh, IngestInv, IngestTypeOK
  <2>4. Books(<<>>) = {}
    BY DEF Books, Range
  <2>5. Books(ing[p].dir) \subseteq DOMAIN corpus'
    BY <2>2, <2>4 DEF IngestInv, NoneIsLost, Working
  <2> QED
    BY <2>2, <2>3, <2>5
<1>2. IngestInv /\ [IngestNext]_ingestVars => IngestInv'
  BY IngestInvStep
<1> QED
  BY IngestInvInit, <1>1, <1>2, PTL DEF IngestSpec, IngestAllOrNothing

\* No step of an ingest touches a row that is there.
THEOREM CurationIsKept == IngestSpec => IngestKeepsCuration
<1>1. IngestInv /\ [IngestNext]_ingestVars =>
        ((\E p \in Ingesters : ing'[p] # ing[p]) =>
            \A d \in DOMAIN corpus : InCorpus(d)' /\ corpus'[d] = corpus[d])
  <2> SUFFICES ASSUME IngestInv, [IngestNext]_ingestVars,
                      NEW p \in Ingesters, ing'[p] # ing[p],
                      NEW d \in DOMAIN corpus
               PROVE  d \in DOMAIN corpus' /\ corpus'[d] = corpus[d]
    BY DEF InCorpus
  <2>1. ~Curate
    BY CurateIs
  <2>2. CASE UNCHANGED corpus
    BY <2>2
  <2>3. CASE \E q \in Ingesters : Commit(q)
    BY <2>3, CommitIs
  <2> QED
    BY <2>1, <2>2, <2>3, CorpusChanges
<1>2. IngestInv /\ [IngestNext]_ingestVars => IngestInv'
  BY IngestInvStep
<1> QED
  BY IngestInvInit, <1>1, <1>2, PTL DEF IngestSpec, IngestKeepsCuration
=============================================================================
