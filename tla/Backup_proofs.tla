----------------------------- MODULE Backup_proofs -----------------------------
(***************************************************************************)
(* Proofs about Curation and Backup, for any corpus and any processes: the *)
(* state of both is well typed, and a payload is in the corpus only if the *)
(* text was acknowledged; the rows of a backup belong together; and one    *)
(* that is reported as written is a complete copy, unless the temporary    *)
(* database has a write-ahead log.                                         *)
(***************************************************************************)
EXTENDS Backup, TLAPS

-----------------------------------------------------------------------------
(* CURATION                                                                *)

\* The text of a document is acknowledged, or the document is excepted.
Covered(d) == \/ InCorpus(d) /\ corpus[d].txt_ack
              \/ Saw(d, "rm") \/ Saw(d, "force")

\* Why the check of ingest-nlp holds on until it stores: the row it has read stays
\* acknowledged, whatever happens meanwhile, unless it is removed.
RunsAreCovered ==
    \A p \in Runners : run[p].pc \in {"read", "script", "write"} => Covered(run[p].doc)

CurationInv == CurationTypeOK /\ RunsAreCovered /\ NlpNeedsTxtAck

-----------------------------------------------------------------------------
(* The shapes of the state of a run, and of the rows                       *)

\* The fields of a run at each stage.
LEMMA RunShape ==
    ASSUME NEW r \in Run
    PROVE  /\ r.pc \in {"idle", "check", "read", "script", "write"}
           /\ r.pc # "idle" => r.doc \in Docs
           /\ r.pc \in {"check", "read"} => r \in [pc : {"check", "read"}, doc : Docs]
           /\ r.pc \in {"script", "write"} =>
                r \in [pc : {"script", "write"}, doc : Docs, txt : Txts]
  BY DEF Run, Idle

\* The row that SetRow leaves is well typed, as are the others.
LEMMA SetRowType ==
    ASSUME CorpusTypeOK, NEW d \in Docs, NEW row \in CorpusRow, SetRow(d, row)
    PROVE  CorpusTypeOK' /\ DOMAIN corpus' = DOMAIN corpus
  BY DEF CorpusTypeOK, SetRow

\* The same for the rows of a stream,
LEMMA WriteStreamType ==
    ASSUME CorpusTypeOK, NEW rows, DOMAIN rows \subseteq Docs,
           \A d \in DOMAIN rows : rows[d] \in CorpusRow, WriteStream(rows)
    PROVE  CorpusTypeOK'
  BY DEF CorpusTypeOK, WriteStream

\* and for a row that goes.
LEMMA DeleteType ==
    ASSUME CorpusTypeOK, NEW d \in Docs, Delete(d)
    PROVE  CorpusTypeOK'
  BY DEF CorpusTypeOK, Delete

-----------------------------------------------------------------------------
(* Type correctness                                                        *)

\* At first nothing runs.
LEMMA CurationTypeInit == CurationInit => CurationTypeOK
  BY DEF CurationInit, CurationTypeOK, CorpusTypeOK, Run, Idle

\* The steps of ingest-nlp.
LEMMA RunnerType ==
    ASSUME CurationTypeOK, NEW p \in Runners, StartIngestNlp(p) \/ IngestNlp(p)
    PROVE  CurationTypeOK'
<1> USE DEF CurationTypeOK
<1>1. run[p] \in Run /\ Idle \in Run
  BY DEF Run
<1>2. CASE StartIngestNlp(p)
  <2>1. CorpusTypeOK'
    BY <1>2 DEF StartIngestNlp, CorpusTypeOK
  <2>2. PICK d \in Docs, pc \in {"check", "read"} :
            /\ run' = [run EXCEPT ![p] = [pc |-> pc, doc |-> d]]
            /\ used' = used \/ used' = used \cup {<<d, "force">>}
    BY <1>2 DEF StartIngestNlp, To, Use
  <2>3. [pc |-> pc, doc |-> d] \in Run
    BY DEF Run
  <2>4. run' \in [Runners -> Run]
    BY <2>2, <2>3
  <2>5. used' \subseteq Docs \X Exceptions
    BY <2>2 DEF Exceptions
  <2> QED
    BY <2>1, <2>4, <2>5
<1>3. CASE CheckAck(p) \/ ReadTxt(p) \/ RunScript(p)
  <2>1. CorpusTypeOK' /\ used' = used
    BY <1>3 DEF CheckAck, ReadTxt, RunScript, CorpusTypeOK
  <2>2. ASSUME CheckAck(p)
        PROVE  run' \in [Runners -> Run]
    <3>1. [run[p] EXCEPT !.pc = "read"] \in Run
      BY <1>1, <2>2, RunShape DEF CheckAck, Run
    <3> QED
      BY <1>1, <2>2, <3>1 DEF CheckAck, To
  <2>3. ASSUME ReadTxt(p)
        PROVE  run' \in [Runners -> Run]
    <3>1. run[p].doc \in Docs
      BY <1>1, <2>3, RunShape DEF ReadTxt
    <3>2. ASSUME InCorpus(run[p].doc)
          PROVE  [pc |-> "script", doc |-> run[p].doc,
                  txt |-> corpus[run[p].doc].txt] \in Run
      BY <3>1, <3>2 DEF CorpusTypeOK, CorpusRow, InCorpus, Run
    <3> QED
      BY <1>1, <2>3, <3>2 DEF ReadTxt, To
  <2>4. ASSUME RunScript(p)
        PROVE  run' \in [Runners -> Run]
    <3>1. [run[p] EXCEPT !.pc = "write"] \in Run
      BY <1>1, <2>4, RunShape DEF RunScript, Run
    <3> QED
      BY <1>1, <2>4, <3>1 DEF RunScript, To
  <2> QED
    BY <1>3, <2>1, <2>2, <2>3, <2>4
<1>4. CASE StoreNlp(p)
  <2>1. run' \in [Runners -> Run] /\ used' = used
    BY <1>1, <1>4 DEF StoreNlp, To
  <2>2. run[p].doc \in Docs /\ run[p].txt \in Txts
    BY <1>1, <1>4, RunShape DEF StoreNlp
  <2>3. CASE InCorpus(run[p].doc)
    <3>1. /\ corpus[run[p].doc] \in CorpusRow
          /\ NlpOf[run[p].txt] \in Nlps
      BY <2>2, <2>3, CurationAssumption DEF CorpusTypeOK, InCorpus
    <3>2. [corpus[run[p].doc] EXCEPT !.nlp = NlpOf[run[p].txt],
                                     !.nlp_created = TRUE] \in CorpusRow
      BY <3>1 DEF CorpusRow
    <3> QED
      BY <1>4, <2>1, <2>2, <2>3, <3>2, SetRowType DEF StoreNlp, WriteNlp
  <2>4. CASE ~InCorpus(run[p].doc)
    BY <1>4, <2>1, <2>4 DEF StoreNlp, CorpusTypeOK
  <2> QED
    BY <2>3, <2>4
<1> QED
  BY <1>2, <1>3, <1>4 DEF IngestNlp

\* The other commands.
Curator(d) == \/ IngestBook(d) \/ PushTxt(d) \/ AcknowledgeTxt(d)
              \/ AcknowledgeNlp(d) \/ Remove(d) \/ MoveNlp(d)

\* The steps of the curator.
LEMMA CuratorType ==
    ASSUME CurationTypeOK, NEW d \in Docs, Curator(d)
    PROVE  CurationTypeOK'
<1> USE DEF CurationTypeOK
<1>1. run' = run /\ used' \subseteq Docs \X Exceptions
  BY DEF Curator, IngestBook, PushTxt, AcknowledgeTxt, AcknowledgeNlp, Remove, MoveNlp,
         Use, Exceptions
<1>2. CASE IngestBook(d)
  <2>1. NewRow(Extracted[d].labels, Extracted[d].txt) \in CorpusRow
    BY CurationAssumption DEF NewRow, CorpusRow
  <2> QED
    BY <1>1, <1>2, <2>1, WriteStreamType DEF IngestBook
<1>3. CASE PushTxt(d) \/ AcknowledgeTxt(d) \/ AcknowledgeNlp(d) \/ MoveNlp(d)
  <2>1. corpus[d] \in CorpusRow
    BY <1>3 DEF PushTxt, AcknowledgeTxt, AcknowledgeNlp, MoveNlp, InCorpus, CorpusTypeOK
  <2>2. PICK row \in CorpusRow : SetRow(d, row)
    <3>1. \A t \in Txts : [corpus[d] EXCEPT !.txt = t] \in CorpusRow
      BY <2>1 DEF CorpusRow
    <3>2. /\ [corpus[d] EXCEPT !.txt_ack = TRUE] \in CorpusRow
          /\ [corpus[d] EXCEPT !.nlp_ack = TRUE] \in CorpusRow
          /\ [corpus[d] EXCEPT !.nlp = NoNlp] \in CorpusRow
      BY <2>1 DEF CorpusRow
    <3> QED
      BY <1>3, <3>1, <3>2 DEF PushTxt, AcknowledgeTxt, AcknowledgeNlp, MoveNlp,
                              UpdateTxt, AckTxt, AckNlp, ClearNlp
  <2> QED
    BY <1>1, <2>2, SetRowType
<1>4. CASE Remove(d)
  BY <1>1, <1>4, DeleteType DEF Remove
<1> QED
  BY <1>2, <1>3, <1>4 DEF Curator

\* Every step keeps the types.
LEMMA CurationTypeStep ==
    ASSUME CurationTypeOK, [CurationNext]_curationVars
    PROVE  CurationTypeOK'
<1>1. CASE \E p \in Runners : StartIngestNlp(p) \/ IngestNlp(p)
  BY <1>1, RunnerType
<1>2. CASE \E d \in Docs : Curator(d)
  BY <1>2, CuratorType
<1>3. CASE UNCHANGED curationVars
  BY <1>3 DEF curationVars, CurationTypeOK, CorpusTypeOK
<1> QED
  BY <1>1, <1>2, <1>3 DEF CurationNext, Curator

\* The state of Curation is well typed.
THEOREM CurationIsTyped == CurationSpec => []CurationTypeOK
<1>1. CurationInit => CurationTypeOK
  BY CurationTypeInit
<1>2. CurationTypeOK /\ [CurationNext]_curationVars => CurationTypeOK'
  BY CurationTypeStep
<1> QED
  BY <1>1, <1>2, PTL DEF CurationSpec

-----------------------------------------------------------------------------
(* A payload needs an acknowledged text                                    *)

\* An acknowledged text stays acknowledged, or the document becomes an exception.
LEMMA CoveredStays ==
    ASSUME CurationTypeOK, [CurationNext]_curationVars, NEW e, Covered(e)
    PROVE  Covered(e)'
<1> USE DEF Covered, InCorpus, Saw
<1>1. ASSUME NEW p \in Runners, StartIngestNlp(p) \/ IngestNlp(p)
      PROVE  Covered(e)'
  <2>1. CASE StartIngestNlp(p)
    BY <2>1 DEF StartIngestNlp, Use
  <2>2. CASE CheckAck(p) \/ ReadTxt(p) \/ RunScript(p)
    BY <2>2 DEF CheckAck, ReadTxt, RunScript
  <2>3. CASE StoreNlp(p)
    BY <2>3 DEF StoreNlp, WriteNlp, SetRow, CurationTypeOK, CorpusTypeOK, CorpusRow
  <2> QED
    BY <1>1, <2>1, <2>2, <2>3 DEF IngestNlp
<1>2. ASSUME NEW d \in Docs, Curator(d)
      PROVE  Covered(e)'
  <2>1. CASE IngestBook(d)
    BY <2>1 DEF IngestBook, WriteStream
  <2>2. CASE PushTxt(d)
    BY <2>2 DEF PushTxt, UpdateTxt, SetRow, Use, CurationTypeOK, CorpusTypeOK, CorpusRow
  <2>3. CASE AcknowledgeTxt(d) \/ AcknowledgeNlp(d)
    BY <2>3 DEF AcknowledgeTxt, AcknowledgeNlp, AckTxt, AckNlp, SetRow, CurationTypeOK,
                CorpusTypeOK, CorpusRow
  <2>4. CASE Remove(d)
    BY <2>4 DEF Remove, Delete, Use
  <2>5. CASE MoveNlp(d)
    BY <2>5 DEF MoveNlp, ClearNlp, SetRow, Use, CurationTypeOK, CorpusTypeOK, CorpusRow
  <2> QED
    BY <1>2, <2>1, <2>2, <2>3, <2>4, <2>5 DEF Curator
<1>3. CASE UNCHANGED curationVars
  BY <1>3 DEF curationVars
<1> QED
  BY <1>1, <1>2, <1>3 DEF CurationNext, Curator

\* A run that reads, computes or stores did so before, or has just been allowed to.
LEMMA RunsStayCovered ==
    ASSUME CurationTypeOK, RunsAreCovered, [CurationNext]_curationVars
    PROVE  RunsAreCovered'
<1> SUFFICES ASSUME NEW p \in Runners, (run[p].pc \in {"read", "script", "write"})'
             PROVE  Covered(run[p].doc)'
  BY DEF RunsAreCovered
<1>1. CASE run'[p] = run[p]
  BY <1>1, CoveredStays DEF RunsAreCovered
<1>2. CASE run'[p] # run[p]
  <2>1. StartIngestNlp(p) \/ IngestNlp(p)
    <3>1. ASSUME NEW q \in Runners, StartIngestNlp(q) \/ IngestNlp(q), q # p
          PROVE  FALSE
      BY <1>2, <3>1 DEF StartIngestNlp, IngestNlp, CheckAck, ReadTxt, RunScript, StoreNlp,
                        To, CurationTypeOK
    <3>2. ASSUME NEW d \in Docs, Curator(d)
          PROVE  FALSE
      BY <1>2, <3>2 DEF Curator, IngestBook, PushTxt, AcknowledgeTxt, AcknowledgeNlp,
                        Remove, MoveNlp
    <3> QED
      BY <1>2, <3>1, <3>2 DEF CurationNext, Curator, curationVars
  <2>2. CASE StartIngestNlp(p)
    <3>1. PICK d \in Docs, pc \in {"check", "read"} :
              /\ run' = [run EXCEPT ![p] = [pc |-> pc, doc |-> d]]
              /\ pc = "read" => <<d, "force">> \in used'
      BY <2>2 DEF StartIngestNlp, To, Use
    <3>2. run'[p] = [pc |-> pc, doc |-> d]
      BY <3>1 DEF CurationTypeOK
    <3> QED
      BY <3>1, <3>2 DEF Covered, Saw
  <2>3. CASE CheckAck(p)
    <3>1. run[p] \in [pc : {"check", "read"}, doc : Docs]
      BY <2>3, RunShape DEF CheckAck, CurationTypeOK
    <3> QED
      BY <2>3, <3>1 DEF CheckAck, To, Covered, InCorpus, Idle, CurationTypeOK
  <2>4. CASE ReadTxt(p)
    <3> PICK d : d = run[p].doc
      OBVIOUS
    <3>1. Covered(d)'
      BY <2>4, CoveredStays DEF ReadTxt, RunsAreCovered
    <3> QED
      BY <2>4, <3>1 DEF ReadTxt, To, Idle, CurationTypeOK
  <2>5. CASE RunScript(p)
    <3> PICK d : d = run[p].doc
      OBVIOUS
    <3>1. Covered(d)'
      BY <2>5, CoveredStays DEF RunScript, RunsAreCovered
    <3>2. run[p] \in [pc : {"script", "write"}, doc : Docs, txt : Txts]
      BY <2>5, RunShape DEF RunScript, CurationTypeOK
    <3> QED
      BY <2>5, <3>1, <3>2 DEF RunScript, To, Idle, CurationTypeOK
  <2>6. CASE StoreNlp(p)
    BY <2>6 DEF StoreNlp, To, Idle, CurationTypeOK
  <2> QED
    BY <2>1, <2>2, <2>3, <2>4, <2>5, <2>6 DEF IngestNlp
<1> QED
  BY <1>1, <1>2

\* A row that has a payload had it before, or has just been given it by a run.
LEMMA NlpStaysAcked ==
    ASSUME CurationInv, [CurationNext]_curationVars
    PROVE  NlpNeedsTxtAck'
<1> USE DEF CurationInv
<1> SUFFICES ASSUME NEW e \in DOMAIN corpus', HasNlp(e)'
             PROVE  Covered(e)'
  BY DEF NlpNeedsTxtAck, Covered
<1>1. CASE InCorpus(e) /\ HasNlp(e)
  BY <1>1, CoveredStays DEF NlpNeedsTxtAck, Covered, InCorpus
<1>2. CASE ~(InCorpus(e) /\ HasNlp(e))
  <2>1. PICK p \in Runners : StoreNlp(p) /\ run[p].doc = e
    <3>1. ASSUME NEW p \in Runners, StartIngestNlp(p) \/ IngestNlp(p)
          PROVE  StoreNlp(p) /\ run[p].doc = e
      BY <1>2, <3>1 DEF StartIngestNlp, IngestNlp, CheckAck, ReadTxt, RunScript, StoreNlp,
                        InCorpus, HasNlp, WriteNlp, SetRow
    <3>2. ASSUME NEW d \in Docs, IngestBook(d)
          PROVE  FALSE
      BY <1>2, <3>2 DEF IngestBook, WriteStream, NewRow, InCorpus, HasNlp
    <3>3. ASSUME NEW d \in Docs, PushTxt(d) \/ AcknowledgeTxt(d) \/ AcknowledgeNlp(d)
                                 \/ Remove(d) \/ MoveNlp(d)
          PROVE  FALSE
      BY <1>2, <3>3 DEF PushTxt, AcknowledgeTxt, AcknowledgeNlp, Remove, MoveNlp, UpdateTxt,
                        AckTxt, AckNlp, Delete, ClearNlp, SetRow, InCorpus, HasNlp,
                        CurationTypeOK, CorpusTypeOK, CorpusRow
    <3> QED
      BY <1>2, <3>1, <3>2, <3>3 DEF CurationNext, curationVars, InCorpus, HasNlp
  <2>2. Covered(run[p].doc)
    BY <2>1 DEF StoreNlp, RunsAreCovered
  <2> QED
    BY <2>1, <2>2, CoveredStays
<1> QED
  BY <1>1, <1>2

\* At first no run has read anything.
LEMMA CurationInvInit == CurationInit => CurationInv
  BY CurationTypeInit DEF CurationInit, CurationInv, RunsAreCovered, NlpNeedsTxtAck, Idle

\* Every step keeps the invariant.
LEMMA CurationInvStep ==
    ASSUME CurationInv, [CurationNext]_curationVars
    PROVE  CurationInv'
  BY CurationTypeStep, RunsStayCovered, NlpStaysAcked DEF CurationInv

\* doc/workflow.md:93: no payload is stored for a text that was not acknowledged,
\* whatever runs while the script does, but for --force and for rows removed.
THEOREM NlpIsOfAckedTxt == CurationSpec => []NlpNeedsTxtAck
<1>1. CurationInv => NlpNeedsTxtAck
  BY DEF CurationInv
<1>2. CurationInv /\ [CurationNext]_curationVars => CurationInv'
  BY CurationInvStep
<1> QED
  BY CurationInvInit, <1>1, <1>2, PTL DEF CurationSpec

-----------------------------------------------------------------------------
(* What a row holds belongs together                                       *)

\* Unless a text was pushed, there is one text of a document, however often it is
\* removed and ingested again, and its payload is made from that text.
RowIsExtracted(d, row) ==
    ~Saw(d, "push-txt") =>
        /\ row.txt = Extracted[d].txt
        /\ row.nlp \in {NoNlp, NlpOf[Extracted[d].txt]}

RowAgrees(d) == /\ RowIsExtracted(d, corpus[d])
                /\ HasNlp(d) => corpus[d].nlp # NoNlp \/ Saw(d, "move")

RowsAreExtracted == \A d \in DOMAIN corpus : RowAgrees(d)

RunsAreExtracted ==
    \A p \in Runners : run[p].pc \in {"script", "write"} /\ ~Saw(run[p].doc, "push-txt") =>
        run[p].txt = Extracted[run[p].doc].txt

RowsInv == CurationTypeOK /\ RowsAreExtracted /\ RunsAreExtracted

\* The exceptions are never forgotten.
LEMMA UsedGrows ==
    ASSUME [CurationNext]_curationVars
    PROVE  used \subseteq used'
  BY DEF CurationNext, curationVars, StartIngestNlp, IngestNlp, CheckAck, ReadTxt, RunScript,
         StoreNlp, IngestBook, PushTxt, AcknowledgeTxt, AcknowledgeNlp, Remove, MoveNlp, Use

\* At first each row has the payload of its text, or none.
LEMMA RowsInvInit == CurationInit => RowsInv
  BY CurationTypeInit
  DEF CurationInit, RowsInv, RowsAreExtracted, RunsAreExtracted, Idle

\* The rows keep to the payloads of their texts, exceptions aside.
LEMMA RowsStayExtracted ==
    ASSUME RowsInv, [CurationNext]_curationVars
    PROVE  RowsAreExtracted'
<1> USE DEF RowsInv
<1> SUFFICES ASSUME NEW e \in DOMAIN corpus'
             PROVE  RowAgrees(e)'
  BY DEF RowsAreExtracted
<1>0. \A x : Saw(e, x) => Saw(e, x)'
  BY UsedGrows DEF Saw
<1>1. CASE InCorpus(e) /\ corpus'[e] = corpus[e]
  BY <1>0, <1>1 DEF RowsAreExtracted, RowAgrees, RowIsExtracted, HasNlp, InCorpus
<1>2. CASE ~(InCorpus(e) /\ corpus'[e] = corpus[e])
  <2>1. ASSUME NEW p \in Runners, StartIngestNlp(p) \/ IngestNlp(p)
        PROVE  RowAgrees(e)'
    <3>1. StoreNlp(p) /\ e = run[p].doc /\ InCorpus(e)
      BY <1>2, <2>1 DEF StartIngestNlp, IngestNlp, CheckAck, ReadTxt, RunScript, StoreNlp,
                        InCorpus, WriteNlp, SetRow
    <3>2. NlpOf[run[p].txt] \in Nlps /\ corpus[e] \in CorpusRow
      BY <3>1, RunShape, CurationAssumption
      DEF StoreNlp, CurationTypeOK, CorpusTypeOK, InCorpus
    <3>3. corpus'[e] = [corpus[e] EXCEPT !.nlp = NlpOf[run[p].txt], !.nlp_created = TRUE]
      BY <3>1 DEF StoreNlp, WriteNlp, SetRow, InCorpus
    <3>4. corpus'[e].txt = corpus[e].txt /\ corpus'[e].nlp = NlpOf[run[p].txt]
      BY <3>2, <3>3 DEF CorpusRow
    <3>5. corpus'[e].nlp # NoNlp
      BY <3>2, <3>4, CorpusStoreAssumption
    <3>6. ~Saw(e, "push-txt") => run[p].txt = Extracted[e].txt
      BY <3>1 DEF RunsAreExtracted, StoreNlp
    <3>7. ~Saw(e, "push-txt") => corpus[e].txt = Extracted[e].txt
      BY <3>1 DEF RowsAreExtracted, RowAgrees, RowIsExtracted, InCorpus
    <3> QED
      BY <1>0, <3>4, <3>5, <3>6, <3>7 DEF RowAgrees, RowIsExtracted
  <2>2. ASSUME NEW d \in Docs, IngestBook(d)
        PROVE  RowAgrees(e)'
    BY <1>2, <2>2 DEF IngestBook, WriteStream, NewRow, InCorpus, RowAgrees, RowIsExtracted,
                      HasNlp
  <2>3. ASSUME NEW d \in Docs, PushTxt(d) \/ MoveNlp(d)
        PROVE  RowAgrees(e)'
    <3>1. d = e /\ corpus[e] \in CorpusRow
      BY <1>2, <2>3 DEF PushTxt, MoveNlp, UpdateTxt, ClearNlp, SetRow, InCorpus,
                        CurationTypeOK, CorpusTypeOK
    <3>2. corpus[e].nlp_created => corpus[e].nlp # NoNlp \/ Saw(e, "move")
      BY <1>2, <2>3, <3>1
      DEF PushTxt, MoveNlp, InCorpus, RowsAreExtracted, RowAgrees, HasNlp
    <3>3. CASE PushTxt(d)
      <4>1. Saw(e, "push-txt")'
        BY <3>1, <3>3 DEF PushTxt, Use, Saw
      <4>2. corpus'[e].nlp = corpus[e].nlp /\ corpus'[e].nlp_created = corpus[e].nlp_created
        BY <3>1, <3>3 DEF PushTxt, UpdateTxt, SetRow, InCorpus, CorpusRow
      <4> QED
        BY <1>0, <3>2, <4>1, <4>2 DEF RowAgrees, RowIsExtracted, HasNlp
    <3>4. CASE MoveNlp(d)
      <4>1. Saw(e, "move")'
        BY <3>1, <3>4 DEF MoveNlp, Use, Saw
      <4>2. corpus'[e].nlp = NoNlp /\ corpus'[e].txt = corpus[e].txt
        BY <3>1, <3>4 DEF MoveNlp, ClearNlp, SetRow, InCorpus, CorpusRow
      <4> QED
        BY <1>0, <3>1, <3>4, <4>1, <4>2
        DEF MoveNlp, InCorpus, RowsAreExtracted, RowAgrees, RowIsExtracted
    <3> QED
      BY <2>3, <3>3, <3>4
  <2>4. ASSUME NEW d \in Docs, AcknowledgeTxt(d) \/ AcknowledgeNlp(d)
        PROVE  RowAgrees(e)'
    <3>1. d = e /\ InCorpus(e) /\ corpus[e] \in CorpusRow
      BY <1>2, <2>4 DEF AcknowledgeTxt, AcknowledgeNlp, AckTxt, AckNlp, SetRow, InCorpus,
                        CurationTypeOK, CorpusTypeOK
    <3>2. /\ corpus'[e].txt = corpus[e].txt
          /\ corpus'[e].nlp = corpus[e].nlp
          /\ corpus'[e].nlp_created = corpus[e].nlp_created
      BY <2>4, <3>1 DEF AcknowledgeTxt, AcknowledgeNlp, AckTxt, AckNlp, SetRow, InCorpus,
                        CorpusRow
    <3> QED
      BY <1>0, <3>1, <3>2 DEF RowsAreExtracted, RowAgrees, RowIsExtracted, HasNlp, InCorpus
  <2>5. ASSUME NEW d \in Docs, Remove(d)
        PROVE  FALSE
    BY <1>2, <2>5 DEF Remove, Delete, InCorpus
  <2>6. ASSUME UNCHANGED curationVars
        PROVE  FALSE
    BY <1>2, <2>6 DEF curationVars, InCorpus
  <2> QED
    BY <2>1, <2>2, <2>3, <2>4, <2>5, <2>6 DEF CurationNext
<1> QED
  BY <1>1, <1>2

\* So does what the runs have read.
LEMMA RunsStayExtracted ==
    ASSUME RowsInv, [CurationNext]_curationVars
    PROVE  RunsAreExtracted'
<1> USE DEF RowsInv, RunsAreExtracted
<1>0. used \subseteq used'
  BY UsedGrows
<1>1. ASSUME NEW p \in Runners, StartIngestNlp(p) \/ IngestNlp(p)
      PROVE  RunsAreExtracted'
  <2>1. CASE StartIngestNlp(p)
    <3>1. PICK d \in Docs, pc \in {"check", "read"} :
              run' = [run EXCEPT ![p] = [pc |-> pc, doc |-> d]]
      BY <2>1 DEF StartIngestNlp, To
    <3> QED
      BY <1>0, <3>1 DEF Saw, CurationTypeOK
  <2>2. CASE CheckAck(p)
    <3>1. run[p] \in [pc : {"check", "read"}, doc : Docs]
      BY <2>2, RunShape DEF CheckAck, CurationTypeOK
    <3> QED
      BY <1>0, <2>2, <3>1 DEF CheckAck, To, Saw, Idle, CurationTypeOK
  <2>3. CASE ReadTxt(p)
    BY <2>3 DEF ReadTxt, To, Saw, Idle, CurationTypeOK, RowsAreExtracted, RowAgrees,
                RowIsExtracted, InCorpus
  <2>4. CASE RunScript(p)
    <3>1. run[p] \in [pc : {"script", "write"}, doc : Docs, txt : Txts]
      BY <2>4, RunShape DEF RunScript, CurationTypeOK
    <3> QED
      BY <2>4, <3>1 DEF RunScript, To, Saw, Idle, CurationTypeOK
  <2>5. CASE StoreNlp(p)
    BY <2>5 DEF StoreNlp, To, Saw, Idle, CurationTypeOK
  <2> QED
    BY <1>1, <2>1, <2>2, <2>3, <2>4, <2>5 DEF IngestNlp
<1>2. ASSUME NEW d \in Docs, Curator(d)
      PROVE  RunsAreExtracted'
  <2>1. run' = run
    BY <1>2 DEF Curator, IngestBook, PushTxt, AcknowledgeTxt, AcknowledgeNlp, Remove, MoveNlp
  <2> QED
    BY <1>0, <2>1 DEF Saw
<1>3. CASE UNCHANGED curationVars
  BY <1>3 DEF curationVars, Saw
<1> QED
  BY <1>1, <1>2, <1>3 DEF CurationNext, Curator

\* Every step keeps both.
LEMMA RowsInvStep ==
    ASSUME RowsInv, [CurationNext]_curationVars
    PROVE  RowsInv'
  BY CurationTypeStep, RowsStayExtracted, RunsStayExtracted DEF RowsInv

-----------------------------------------------------------------------------
(* BACKUP                                                                  *)

\* The fields of the state of a backup, and the list it works from.
BackupShape ==
    /\ bk = [pc |-> bk.pc, with_nlp |-> bk.with_nlp, list |-> bk.list, todo |-> bk.todo,
             reading |-> bk.reading, batch |-> bk.batch, topics |-> bk.topics,
             journal |-> bk.journal, file |-> bk.file]
    /\ DOMAIN bk.list \subseteq Docs
    /\ \A d \in DOMAIN bk.list :
          bk.list[d].hash \in Txts /\ bk.list[d].nlp_created \in BOOLEAN

TypeInv == BackupTypeOK /\ BackupShape

\* What has been copied at each stage: a listed row is in the batch or still to do,
\* and the file of the temporary database holds the batch, but for a log beside it.
BackupProgress ==
    /\ bk.pc = "rows" =>
        /\ DOMAIN bk.batch \cup bk.todo = DOMAIN bk.list
        /\ bk.topics = {} /\ bk.file = EmptyDb
    /\ bk.pc # "rows" => bk.reading = {}
    /\ bk.pc \in {"topics", "create", "copy"} => DOMAIN bk.batch = DOMAIN bk.list
    /\ bk.pc \in {"create", "copy"} => bk.topics = TopicNames
    /\ bk.pc \in {"topics", "create", "copy"} =>
        \/ bk.file = [rows |-> bk.batch, topics |-> bk.topics]
        \/ bk.journal = "wal" /\ (bk.file.rows = bk.batch \/ bk.file = EmptyDb)

-----------------------------------------------------------------------------
(* Type correctness                                                        *)

\* At first there is no backup.
LEMMA BackupTypeInit == BackupInit => TypeInv
  BY CurationTypeInit, BackupAssumption
  DEF BackupInit, TypeInv, BackupTypeOK, BackupShape, NoBackup, NoFile, Earlier, IsCopy,
      EmptyDb

\* A backup that has ended, with whatever is left of the output.
LEMMA NoBackupType ==
    ASSUME TypeInv, CurationTypeOK', NEW pc \in {"idle", "ok", "failed"},
           bk' = NoBackup(pc), output' = output \/ output'.kind # "whole",
           UNCHANGED backups
    PROVE  TypeInv'
  BY DEF TypeInv, BackupTypeOK, BackupShape, NoBackup, IsCopy, EmptyDb

\* The list of rows and an empty copy.
LEMMA StartBackupType ==
    ASSUME TypeInv, StartBackup
    PROVE  TypeInv'
<1>1. CurationTypeOK'
  BY DEF StartBackup, TypeInv, BackupTypeOK, CurationTypeOK, CorpusTypeOK, curationVars
<1>2. PICK with_nlp \in WithNlp, journal \in Journals :
        bk' = [pc |-> "rows", with_nlp |-> with_nlp, list |-> [d \in DOMAIN corpus |-> Meta(d)],
               todo |-> DOMAIN corpus, reading |-> {}, batch |-> <<>>, topics |-> {},
               journal |-> journal, file |-> EmptyDb]
  BY DEF StartBackup, NoBackup
<1>3. with_nlp \in BOOLEAN /\ journal \in {"delete", "wal"}
  BY BackupAssumption
<1>4. BackupShape'
  BY <1>2 DEF BackupShape, Meta, TypeInv, BackupTypeOK, CurationTypeOK, CorpusTypeOK, CorpusRow
<1>5. backups' \in 0 .. MaxBackups
  BY BackupAssumption DEF StartBackup, TypeInv, BackupTypeOK
<1>6. output' = output
  BY DEF StartBackup
<1>7. IsCopy(bk.batch, bk.topics)' /\ IsCopy(bk.file.rows, bk.file.topics)'
  BY <1>2 DEF IsCopy, EmptyDb
<1> QED
  BY <1>1, <1>2, <1>3, <1>4, <1>5, <1>6, <1>7 DEF TypeInv, BackupTypeOK

\* A row of the list, with the text and the payload that are in the corpus now.
LEMMA CopiedType ==
    ASSUME TypeInv, NEW d \in DOMAIN bk.list, InCorpus(d), NEW v \in Nlps \cup {NoNlp}
    PROVE  /\ DOMAIN Copied(d, v) = DOMAIN bk.batch \cup {d}
           /\ IsCopy(Copied(d, v), bk.topics)
           /\ \A e \in DOMAIN bk.batch : e # d => Copied(d, v)[e] = bk.batch[e]
           /\ Copied(d, v)[d] = [hash |-> bk.list[d].hash, txt |-> corpus[d].txt, nlp |-> v,
                                 nlp_created |-> bk.list[d].nlp_created]
<1>1. corpus[d].txt \in Txts
  BY DEF InCorpus, TypeInv, BackupTypeOK, CurationTypeOK, CorpusTypeOK, CorpusRow
<1> QED
  BY <1>1 DEF Copied, IsCopy, CopiedRow, TypeInv, BackupTypeOK, BackupShape

\* A row is copied with its text.
LEMMA BackUpTxtType ==
    ASSUME TypeInv, NEW d \in Docs, BackUpTxt(d)
    PROVE  TypeInv'
<1>1. CurationTypeOK'
  BY DEF BackUpTxt, TypeInv, BackupTypeOK, CurationTypeOK, CorpusTypeOK, curationVars
<1>2. bk' = [bk EXCEPT !.reading = IF bk.with_nlp THEN {d} ELSE {},
                       !.batch = Copied(d, NoNlp), !.todo = @ \ {d}]
  BY DEF BackUpTxt
<1>3. d \in DOMAIN bk.list /\ InCorpus(d)
  BY DEF BackUpTxt, TypeInv, BackupTypeOK
<1>4. IsCopy(Copied(d, NoNlp), bk.topics) /\ DOMAIN Copied(d, NoNlp) = DOMAIN bk.batch \cup {d}
  BY <1>3, CopiedType
<1>5. bk' = [pc |-> bk.pc, with_nlp |-> bk.with_nlp, list |-> bk.list,
             todo |-> bk.todo \ {d}, reading |-> IF bk.with_nlp THEN {d} ELSE {},
             batch |-> Copied(d, NoNlp), topics |-> bk.topics, journal |-> bk.journal,
             file |-> bk.file]
  BY <1>2 DEF TypeInv, BackupShape
<1>6. /\ bk'.pc = bk.pc /\ bk'.with_nlp = bk.with_nlp /\ bk'.list = bk.list
      /\ bk'.todo = bk.todo \ {d} /\ bk'.reading \subseteq {d}
      /\ bk'.batch = Copied(d, NoNlp) /\ bk'.topics = bk.topics
      /\ bk'.journal = bk.journal /\ bk'.file = bk.file
  BY <1>5
<1>7. BackupShape'
  BY <1>5, <1>6 DEF TypeInv, BackupShape
<1>8. IsCopy(bk.batch, bk.topics)' /\ IsCopy(bk.file.rows, bk.file.topics)'
  BY <1>4, <1>6 DEF IsCopy, TypeInv, BackupTypeOK
<1>9. output' = output /\ backups' = backups
  BY DEF BackUpTxt
<1> QED
  BY <1>1, <1>4, <1>6, <1>7, <1>8, <1>9 DEF TypeInv, BackupTypeOK, IsCopy

\* The payload of a row is copied after its text, into the same row.
LEMMA BackUpNlpType ==
    ASSUME TypeInv, NEW d \in Docs, BackUpNlp(d)
    PROVE  /\ TypeInv'
           /\ bk' = [bk EXCEPT !.reading = {}, !.batch = bk'.batch]
           /\ DOMAIN bk'.batch = DOMAIN bk.batch
           /\ \A e \in DOMAIN bk.batch : e # d => bk'.batch[e] = bk.batch[e]
           /\ bk'.batch[d] = [bk.batch[d] EXCEPT !.nlp = corpus[d].nlp]
<1>1. CurationTypeOK'
  BY DEF BackUpNlp, TypeInv, BackupTypeOK, CurationTypeOK, CorpusTypeOK, curationVars
<1>2. d \in DOMAIN bk.batch /\ bk.batch[d] \in CopiedRow /\ corpus[d].nlp \in Nlps \cup {NoNlp}
  BY DEF BackUpNlp, TypeInv, BackupTypeOK, IsCopy, InCorpus, CurationTypeOK, CorpusTypeOK,
         CorpusRow
<1>3. [bk.batch[d] EXCEPT !.nlp = corpus[d].nlp] \in CopiedRow
  BY <1>2 DEF CopiedRow
<1> DEFINE batch == [bk.batch EXCEPT ![d].nlp = corpus[d].nlp]
<1>4. /\ DOMAIN batch = DOMAIN bk.batch
      /\ batch[d] = [bk.batch[d] EXCEPT !.nlp = corpus[d].nlp]
      /\ \A e \in DOMAIN bk.batch : e # d => batch[e] = bk.batch[e]
  BY <1>2
<1>5. bk' = [bk EXCEPT !.reading = {}, !.batch = batch]
  BY DEF BackUpNlp
<1>6. IsCopy(batch, bk.topics)
  BY <1>2, <1>3, <1>4 DEF IsCopy, TypeInv, BackupTypeOK
<1> HIDE DEF batch
<1>7. bk'.batch = batch
  BY <1>5 DEF TypeInv, BackupShape
<1>8. TypeInv'
  BY <1>1, <1>4, <1>5, <1>6 DEF BackUpNlp, TypeInv, BackupTypeOK, BackupShape
<1> QED
  BY <1>4, <1>5, <1>7, <1>8

\* The rows and then the topics are committed, and the output is created.
LEMMA CommitType ==
    ASSUME TypeInv, CommitRows \/ BackUpTopic \/ CommitTopics \/ CreateOutput
    PROVE  TypeInv'
<1>1. CurationTypeOK'
  BY DEF CommitRows, BackUpTopic, CommitTopics, CreateOutput, TypeInv, BackupTypeOK,
         CurationTypeOK, CorpusTypeOK, curationVars
<1> USE DEF TypeInv, BackupTypeOK, BackupShape
<1>2. CASE CommitRows
  <2>1. \A file \in InFile({}) : IsCopy(file.rows, file.topics)
    BY DEF InFile, IsCopy
  <2> QED
    BY <1>1, <1>2, <2>1 DEF CommitRows
<1>3. CASE BackUpTopic
  <2>1. \A n \in TopicNames : \A file \in InFile(bk.topics \cup {n}) :
            IsCopy(file.rows, file.topics) /\ IsCopy(bk.batch, bk.topics \cup {n})
    BY DEF InFile, IsCopy
  <2> QED
    BY <1>1, <1>3, <2>1 DEF BackUpTopic
<1>4. CASE CommitTopics
  BY <1>1, <1>4 DEF CommitTopics
<1>5. CASE CreateOutput
  BY <1>1, <1>5 DEF CreateOutput, Partial
<1> QED
  BY <1>2, <1>3, <1>4, <1>5

\* The backup ends, with an output or without.
LEMMA EndType ==
    ASSUME TypeInv, RowGone \/ CompressFile \/ BackupFails
    PROVE  TypeInv'
<1>1. CurationTypeOK'
  BY DEF RowGone, CompressFile, BackupFails, TypeInv, BackupTypeOK, CurationTypeOK,
         CorpusTypeOK, curationVars
<1>2. CASE RowGone \/ BackupFails
  BY <1>1, <1>2, NoBackupType DEF RowGone, BackupFails, NoFile
<1>3. CASE CompressFile
  <2>1. BackupTypeOK'
    BY <1>1, <1>3
    DEF CompressFile, NoBackup, File, IsCopy, EmptyDb, TypeInv, BackupTypeOK, BackupShape
  <2>2. BackupShape'
    BY <1>3 DEF CompressFile, NoBackup, BackupShape
  <2> QED
    BY <2>1, <2>2 DEF TypeInv
<1> QED
  BY <1>2, <1>3

\* Every step keeps the types.
LEMMA BackupTypeStep ==
    ASSUME TypeInv, [BackupNext]_backupVars
    PROVE  TypeInv'
<1>1. CASE StartBackup
  BY <1>1, StartBackupType
<1>2. CASE BackupStep
  BY <1>2, BackUpTxtType, BackUpNlpType, CommitType, EndType DEF BackupStep
<1>3. CASE BackupFails
  BY <1>3, EndType
<1>4. CASE [CurationNext]_curationVars /\ UNCHANGED <<bk, output, backups>>
  BY <1>4, CurationTypeStep DEF TypeInv, BackupTypeOK, BackupShape
<1> QED
  BY <1>1, <1>2, <1>3, <1>4 DEF BackupNext, backupVars

\* The state of Backup is well typed.
THEOREM BackupIsTyped == BackupSpec => []BackupTypeOK
<1>1. TypeInv => BackupTypeOK
  BY DEF TypeInv
<1>2. TypeInv /\ [BackupNext]_backupVars => TypeInv'
  BY BackupTypeStep
<1> QED
  BY BackupTypeInit, <1>1, <1>2, PTL DEF BackupSpec

-----------------------------------------------------------------------------
(* A backup is complete                                                    *)

\* Every step keeps what has been copied so far.
LEMMA ProgressStep ==
    ASSUME TypeInv, BackupProgress, [BackupNext]_backupVars
    PROVE  BackupProgress'
<1> USE DEF TypeInv, BackupProgress
<1>1. CASE StartBackup
  BY <1>1 DEF StartBackup, NoBackup, EmptyDb
<1>2. CASE \E d \in Docs : BackUpTxt(d)
  <2>1. PICK d \in Docs : BackUpTxt(d)
    BY <1>2
  <2>2. d \in DOMAIN bk.list /\ InCorpus(d) /\ bk.pc = "rows" /\ d \in bk.todo
    BY <2>1 DEF BackUpTxt, BackupTypeOK
  <2>3. DOMAIN Copied(d, NoNlp) = DOMAIN bk.batch \cup {d}
    BY <2>2, CopiedType
  <2>4. bk' = [bk EXCEPT !.reading = IF bk.with_nlp THEN {d} ELSE {},
                         !.batch = Copied(d, NoNlp), !.todo = @ \ {d}]
    BY <2>1 DEF BackUpTxt
  <2> QED
    BY <2>2, <2>3, <2>4 DEF BackupShape
<1>3. CASE \E d \in Docs : BackUpNlp(d)
  <2>1. PICK d \in Docs : BackUpNlp(d)
    BY <1>3
  <2>2. bk' = [bk EXCEPT !.reading = {}, !.batch = bk'.batch] /\ DOMAIN bk'.batch = DOMAIN bk.batch
    BY <2>1, BackUpNlpType
  <2>3. bk.pc = "rows"
    BY <2>1 DEF BackUpNlp
  <2> QED
    BY <2>2, <2>3 DEF BackupShape
<1>4. CASE RowGone \/ CompressFile \/ BackupFails
  BY <1>4 DEF RowGone, CompressFile, BackupFails, NoBackup
<1>5. CASE CommitRows
  BY <1>5 DEF CommitRows, InFile, BackupShape, BackupTypeOK
<1>6. CASE BackUpTopic
  BY <1>6 DEF BackUpTopic, InFile, BackupShape, BackupTypeOK
<1>7. CASE CommitTopics
  BY <1>7 DEF CommitTopics, BackupShape
<1>8. CASE CreateOutput
  BY <1>8 DEF CreateOutput, BackupShape
<1>9. CASE UNCHANGED <<bk, output, backups>>
  BY <1>9
<1> QED
  BY <1>1, <1>2, <1>3, <1>4, <1>5, <1>6, <1>7, <1>8, <1>9
  DEF BackupNext, BackupStep, backupVars

\* An earlier backup is given up only when everything has been copied to the temporary
\* database, and what is reported as written is all of it if that database has no log
\* beside its file.  Nothing is said of what is written when it has one.
THEOREM BackupsAreComplete == BackupSpec => BackupIsComplete
<1>1. BackupInit => TypeInv /\ BackupProgress
  BY BackupTypeInit DEF BackupInit, NoBackup, BackupProgress, EmptyDb
<1>2. TypeInv /\ BackupProgress /\ [BackupNext]_backupVars => (TypeInv /\ BackupProgress)'
  BY BackupTypeStep, ProgressStep
<1>3. TypeInv /\ BackupProgress /\ [BackupNext]_backupVars =>
        /\ output' # output =>
             DOMAIN bk.batch = DOMAIN bk.list /\ bk.topics = TopicNames
        /\ bk.pc = "copy" /\ bk'.pc = "ok" /\ bk.journal = "delete" =>
             output' = [kind |-> "whole", rows |-> bk.batch, topics |-> TopicNames,
                        with_nlp |-> bk.with_nlp]
  <2> SUFFICES ASSUME TypeInv, BackupProgress, [BackupNext]_backupVars
               PROVE  /\ output' # output =>
                           DOMAIN bk.batch = DOMAIN bk.list /\ bk.topics = TopicNames
                      /\ bk.pc = "copy" /\ bk'.pc = "ok" /\ bk.journal = "delete" =>
                           output' = [kind |-> "whole", rows |-> bk.batch,
                                      topics |-> TopicNames, with_nlp |-> bk.with_nlp]
    OBVIOUS
  <2>1. bk.pc \in {"create", "copy"} =>
            DOMAIN bk.batch = DOMAIN bk.list /\ bk.topics = TopicNames
    BY DEF BackupProgress
  <2>2. ASSUME bk.pc = "copy", bk.journal = "delete", output' = File(bk)
        PROVE  output' = [kind |-> "whole", rows |-> bk.batch, topics |-> TopicNames,
                          with_nlp |-> bk.with_nlp]
    <3>1. bk.file = [rows |-> bk.batch, topics |-> bk.topics]
      BY <2>2 DEF BackupProgress
    <3>2. bk.file.rows = bk.batch /\ bk.file.topics = TopicNames
      BY <2>1, <2>2, <3>1
    <3> QED
      BY <2>2, <3>2 DEF File
  <2>3. /\ output' # output => bk.pc \in {"create", "copy"}
        /\ bk.pc = "copy" /\ bk'.pc = "ok" => output' = File(bk)
    <3>1. CASE StartBackup
      BY <3>1 DEF StartBackup
    <3>2. CASE \E d \in Docs : BackUpTxt(d)
      BY <3>2 DEF BackUpTxt
    <3>3. CASE \E d \in Docs : BackUpNlp(d)
      <4>1. bk.pc = "rows"
        BY <3>3 DEF BackUpNlp, BackupProgress
      <4> QED
        BY <3>3, <4>1 DEF BackUpNlp
    <3>4. CASE RowGone \/ CommitRows \/ BackUpTopic \/ CommitTopics \/ CreateOutput
      BY <3>4 DEF RowGone, CommitRows, BackUpTopic, CommitTopics, CreateOutput
    <3>5. CASE CompressFile
      BY <3>5 DEF CompressFile
    <3>6. CASE BackupFails
      BY <3>6 DEF BackupFails, NoBackup
    <3>7. CASE UNCHANGED <<bk, output, backups>>
      BY <3>7
    <3> QED
      BY <3>1, <3>2, <3>3, <3>4, <3>5, <3>6, <3>7 DEF BackupNext, BackupStep, backupVars
  <2> QED
    BY <2>1, <2>2, <2>3
<1> QED
  BY <1>1, <1>2, <1>3, PTL DEF BackupSpec, BackupIsComplete

-----------------------------------------------------------------------------
(* The columns of a copied row belong together                             *)

\* What an earlier statement has read of a row is true of it still, or is excepted.
StillCreated(d) == (InCorpus(d) /\ HasNlp(d)) \/ Saw(d, "rm")

ListAgrees ==
    \A d \in DOMAIN bk.list :
        /\ ~Saw(d, "push-txt") => bk.list[d].hash = Extracted[d].txt
        /\ bk.list[d].nlp_created => StillCreated(d)

\* A row of the copy, whose payload is read a statement after its text.
CopyAgrees(d, row) ==
    /\ RowIsExtracted(d, row)
    /\ ~Saw(d, "push-txt") => row.hash = Extracted[d].txt

PayloadAgrees(d, row) ==
    row.nlp_created => row.nlp # NoNlp \/ Saw(d, "rm") \/ Saw(d, "move")

BatchAgrees ==
    /\ \A d, e \in bk.reading : d = e
    /\ \A d \in DOMAIN bk.batch :
        /\ CopyAgrees(d, bk.batch[d])
        /\ bk.with_nlp /\ d \in bk.reading /\ bk.batch[d].nlp_created => StillCreated(d)
        /\ bk.with_nlp /\ d \notin bk.reading => PayloadAgrees(d, bk.batch[d])

OutputAgrees ==
    output.kind = "whole" =>
        \A d \in DOMAIN output.rows :
            /\ CopyAgrees(d, output.rows[d])
            /\ output.with_nlp => PayloadAgrees(d, output.rows[d])

AgreeInv == TypeInv /\ BackupProgress /\ RowsInv /\ ListAgrees /\ BatchAgrees /\ OutputAgrees

\* The other commands do to the corpus what they do without a backup.
LEMMA CurationInBackup ==
    ASSUME [BackupNext]_backupVars
    PROVE  [CurationNext]_curationVars
  BY DEF BackupNext, BackupStep, backupVars, curationVars, StartBackup, BackUpTxt, BackUpNlp,
         RowGone, CommitRows, BackUpTopic, CommitTopics, CreateOutput, CompressFile,
         BackupFails

\* An exception, once met, is never forgotten.
LEMMA SawStays ==
    ASSUME [BackupNext]_backupVars
    PROVE  \A d, x : Saw(d, x) => Saw(d, x)'
  BY CurationInBackup, UsedGrows DEF Saw

\* nlp_created_at is reset with its row only.
LEMMA StillCreatedStays ==
    ASSUME RowsInv, [BackupNext]_backupVars, NEW e, StillCreated(e)
    PROVE  StillCreated(e)'
<1> USE DEF StillCreated, InCorpus, HasNlp, Saw
<1>1. [CurationNext]_curationVars
  BY CurationInBackup
<1>2. CASE Saw(e, "rm")
  BY <1>2, SawStays
<1>3. ASSUME InCorpus(e), HasNlp(e), NEW p \in Runners, StartIngestNlp(p) \/ IngestNlp(p)
      PROVE  StillCreated(e)'
  <2>1. CASE StoreNlp(p)
    BY <1>3, <2>1
    DEF StoreNlp, WriteNlp, SetRow, RowsInv, CurationTypeOK, CorpusTypeOK, CorpusRow
  <2>2. CASE ~StoreNlp(p)
    BY <1>3, <2>2 DEF StartIngestNlp, IngestNlp, CheckAck, ReadTxt, RunScript
  <2> QED
    BY <2>1, <2>2
<1>4. ASSUME InCorpus(e), HasNlp(e), NEW d \in Docs, Curator(d)
      PROVE  StillCreated(e)'
  <2>1. CASE IngestBook(d)
    BY <1>4, <2>1 DEF IngestBook, WriteStream
  <2>2. CASE Remove(d)
    BY <1>4, <2>2 DEF Remove, Delete, Use
  <2>3. CASE PushTxt(d)
    BY <1>4, <2>3 DEF PushTxt, UpdateTxt, SetRow, RowsInv, CurationTypeOK, CorpusTypeOK, CorpusRow
  <2>4. CASE AcknowledgeTxt(d) \/ AcknowledgeNlp(d)
    BY <1>4, <2>4 DEF AcknowledgeTxt, AcknowledgeNlp, AckTxt, AckNlp, SetRow, RowsInv,
                      CurationTypeOK, CorpusTypeOK, CorpusRow
  <2>5. CASE MoveNlp(d)
    BY <1>4, <2>5 DEF MoveNlp, ClearNlp, SetRow, RowsInv, CurationTypeOK, CorpusTypeOK, CorpusRow
  <2> QED
    BY <1>4, <2>1, <2>2, <2>3, <2>4, <2>5 DEF Curator
<1>5. CASE UNCHANGED curationVars
  BY <1>5 DEF curationVars
<1> QED
  BY <1>1, <1>2, <1>3, <1>4, <1>5 DEF CurationNext, Curator

\* The list goes on agreeing with the corpus, whatever changes there.
LEMMA ListStaysAgreed ==
    ASSUME AgreeInv, [BackupNext]_backupVars
    PROVE  ListAgrees'
<1>1. CASE StartBackup
  <2>1. UNCHANGED <<corpus, used>> /\ bk'.list = [d \in DOMAIN corpus |-> Meta(d)]
    BY <1>1 DEF StartBackup, NoBackup, curationVars
  <2>2. ASSUME NEW d \in DOMAIN bk'.list
        PROVE  /\ InCorpus(d)
               /\ bk'.list[d].hash = corpus[d].txt
               /\ bk'.list[d].nlp_created = corpus[d].nlp_created
    BY <2>1 DEF Meta, InCorpus
  <2> QED
    BY <2>1, <2>2
    DEF AgreeInv, RowsInv, RowsAreExtracted, RowAgrees, RowIsExtracted, ListAgrees,
        StillCreated, InCorpus, HasNlp, Saw
<1>2. CASE bk'.list = bk.list \/ bk'.list = <<>>
  BY <1>2, SawStays, StillCreatedStays DEF AgreeInv, ListAgrees
<1>3. StartBackup \/ bk'.list = bk.list \/ bk'.list = <<>>
  <2> USE DEF AgreeInv, TypeInv, BackupShape, NoBackup
  <2>1. CASE \E d \in Docs : BackUpTxt(d)
    BY <2>1 DEF BackUpTxt
  <2>2. CASE \E d \in Docs : BackUpNlp(d)
    <3>1. bk' = [bk EXCEPT !.reading = {}, !.batch = bk'.batch]
      BY <2>2, BackUpNlpType
    <3> QED
      BY <3>1
  <2>3. CASE CommitRows \/ BackUpTopic \/ CommitTopics \/ CreateOutput
    BY <2>3 DEF CommitRows, BackUpTopic, CommitTopics, CreateOutput
  <2>4. CASE RowGone \/ CompressFile \/ BackupFails
    BY <2>4 DEF RowGone, CompressFile, BackupFails
  <2> QED
    BY <2>1, <2>2, <2>3, <2>4 DEF BackupNext, BackupStep, backupVars
<1> QED
  BY <1>1, <1>2, <1>3

\* So do the rows that have been copied.
LEMMA BatchStaysAgreed ==
    ASSUME AgreeInv, [BackupNext]_backupVars
    PROVE  BatchAgrees'
<1> USE DEF AgreeInv
<1>1. CASE \E d \in Docs : BackUpTxt(d)
  <2>1. PICK d \in Docs : BackUpTxt(d)
    BY <1>1
  <2>2. d \in DOMAIN bk.list /\ InCorpus(d) /\ UNCHANGED <<corpus, used>> /\ bk.reading = {}
    BY <2>1 DEF BackUpTxt, TypeInv, BackupTypeOK, curationVars
  <2>3. /\ bk'.batch = Copied(d, NoNlp)
        /\ bk'.with_nlp = bk.with_nlp
        /\ bk'.reading = IF bk.with_nlp THEN {d} ELSE {}
    BY <2>1 DEF BackUpTxt, TypeInv, BackupShape
  <2>4. /\ DOMAIN bk'.batch = DOMAIN bk.batch \cup {d}
        /\ \A e \in DOMAIN bk.batch : e # d => bk'.batch[e] = bk.batch[e]
        /\ bk'.batch[d] = [hash |-> bk.list[d].hash, txt |-> corpus[d].txt, nlp |-> NoNlp,
                           nlp_created |-> bk.list[d].nlp_created]
    BY <2>2, <2>3, CopiedType
  <2>5. CopyAgrees(d, bk'.batch[d]) /\ (bk'.batch[d].nlp_created => StillCreated(d))
    BY <2>2, <2>4 DEF ListAgrees, CopyAgrees, RowsInv, RowsAreExtracted, RowAgrees,
                      RowIsExtracted, InCorpus
  <2> QED
    BY <2>2, <2>3, <2>4, <2>5
    DEF BatchAgrees, CopyAgrees, RowIsExtracted, PayloadAgrees, StillCreated, InCorpus,
        HasNlp, Saw
<1>2. CASE \E d \in Docs : BackUpNlp(d)
  <2>1. PICK d \in Docs : BackUpNlp(d)
    BY <1>2
  <2>2. /\ DOMAIN bk'.batch = DOMAIN bk.batch
        /\ \A e \in DOMAIN bk.batch : e # d => bk'.batch[e] = bk.batch[e]
        /\ bk'.batch[d] = [bk.batch[d] EXCEPT !.nlp = corpus[d].nlp]
        /\ bk' = [bk EXCEPT !.reading = {}, !.batch = bk'.batch]
    BY <2>1, BackUpNlpType
  <2>3. bk'.reading = {} /\ bk'.with_nlp = bk.with_nlp
    BY <2>2 DEF TypeInv, BackupShape
  <2>4. /\ d \in bk.reading /\ d \in DOMAIN bk.batch /\ InCorpus(d)
        /\ UNCHANGED <<corpus, used>> /\ bk.batch[d] \in CopiedRow
        /\ bk.reading = {d}
    BY <2>1 DEF BackUpNlp, TypeInv, BackupTypeOK, IsCopy, curationVars, BatchAgrees
  <2>5. CopyAgrees(d, bk'.batch[d])
    BY <2>2, <2>4 DEF BatchAgrees, CopyAgrees, CopiedRow, RowsInv, RowsAreExtracted,
                      RowAgrees, RowIsExtracted, InCorpus
  <2>6. bk.with_nlp => PayloadAgrees(d, bk'.batch[d])
    BY <2>2, <2>4 DEF BatchAgrees, PayloadAgrees, StillCreated, CopiedRow, RowsInv,
                      RowsAreExtracted, RowAgrees, InCorpus
  <2> QED
    BY <2>2, <2>3, <2>4, <2>5, <2>6
    DEF BatchAgrees, CopyAgrees, RowIsExtracted, PayloadAgrees, Saw
<1>3. CASE bk'.batch = <<>> /\ bk'.reading = {}
  BY <1>3 DEF BatchAgrees
<1>4. CASE UNCHANGED <<bk.batch, bk.with_nlp, bk.reading>>
  BY <1>4, SawStays, StillCreatedStays
  DEF BatchAgrees, CopyAgrees, RowIsExtracted, PayloadAgrees
<1>5. CASE StartBackup \/ RowGone \/ CompressFile \/ BackupFails
  <2>1. bk'.batch = <<>> /\ bk'.reading = {}
    <3>1. CASE StartBackup
      BY <3>1 DEF StartBackup, NoBackup
    <3>2. CASE RowGone \/ CompressFile \/ BackupFails
      BY <3>2 DEF RowGone, CompressFile, BackupFails, NoBackup
    <3> QED
      BY <1>5, <3>1, <3>2
  <2> QED
    BY <1>3, <2>1
<1>6. CASE CommitRows \/ BackUpTopic \/ CommitTopics \/ CreateOutput
  BY <1>4, <1>6
  DEF CommitRows, BackUpTopic, CommitTopics, CreateOutput, TypeInv, BackupShape
<1> QED
  BY <1>1, <1>2, <1>4, <1>5, <1>6 DEF BackupNext, BackupStep, backupVars

\* The output holds rows that agreed when they were copied.
LEMMA OutputStaysAgreed ==
    ASSUME AgreeInv, [BackupNext]_backupVars
    PROVE  OutputAgrees'
<1> USE DEF AgreeInv
<1>1. CASE CompressFile
  <2>1. /\ bk.reading = {} /\ UNCHANGED <<corpus, used>>
        /\ bk.file.rows = bk.batch \/ bk.file.rows = <<>>
    BY <1>1 DEF CompressFile, BackupProgress, curationVars, EmptyDb
  <2>2. output'.rows = bk.file.rows /\ output'.with_nlp = bk.with_nlp
    BY <1>1 DEF CompressFile, File
  <2>3. ASSUME NEW d \in DOMAIN output'.rows
        PROVE  /\ CopyAgrees(d, output'.rows[d])
               /\ output'.with_nlp => PayloadAgrees(d, output'.rows[d])
    BY <2>1, <2>2 DEF BatchAgrees
  <2> QED
    BY <2>1, <2>3 DEF OutputAgrees, CopyAgrees, RowIsExtracted, PayloadAgrees, Saw
<1>2. CASE output' = output
  BY <1>2, SawStays DEF OutputAgrees, CopyAgrees, RowIsExtracted, PayloadAgrees
<1>3. CASE output'.kind # "whole"
  BY <1>3 DEF OutputAgrees
<1>4. CompressFile \/ output' = output \/ output'.kind # "whole"
  <2>1. CASE StartBackup \/ UNCHANGED output
    BY <2>1 DEF StartBackup
  <2>2. CASE \E d \in Docs : BackUpTxt(d) \/ BackUpNlp(d)
    BY <2>2 DEF BackUpTxt, BackUpNlp
  <2>3. CASE RowGone \/ CommitRows \/ BackUpTopic \/ CommitTopics
    BY <2>3 DEF RowGone, CommitRows, BackUpTopic, CommitTopics
  <2>4. CASE BackupFails
    <3>1. output' = output \/ output' = NoFile
      BY <2>4 DEF BackupFails
    <3> QED
      BY <3>1 DEF NoFile
  <2>5. CASE CreateOutput
    BY <2>5 DEF CreateOutput, Partial
  <2> QED
    BY <2>1, <2>2, <2>3, <2>4, <2>5 DEF BackupNext, BackupStep, backupVars
<1> QED
  BY <1>1, <1>2, <1>3, <1>4

\* The columns of a copied row are about one text, though they were read in
\* different statements while other commands ran.
THEOREM CopiesAgree == BackupSpec => []BackupRowsAgree
<1>1. BackupInit => AgreeInv
  BY BackupTypeInit, RowsInvInit
  DEF BackupInit, NoBackup, BackupProgress, EmptyDb, AgreeInv, ListAgrees, BatchAgrees,
      OutputAgrees, NoFile, Earlier
<1>2. AgreeInv /\ [BackupNext]_backupVars => AgreeInv'
  BY BackupTypeStep, ProgressStep, CurationInBackup, RowsInvStep, ListStaysAgreed,
     BatchStaysAgreed, OutputStaysAgreed DEF AgreeInv
<1>3. AgreeInv => BackupRowsAgree
  BY DEF AgreeInv, OutputAgrees, CopyAgrees, RowIsExtracted, PayloadAgrees, BackupRowsAgree
<1> QED
  BY <1>1, <1>2, <1>3, PTL DEF BackupSpec
=============================================================================
