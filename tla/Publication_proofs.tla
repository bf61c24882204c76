------------------------- MODULE Publication_proofs -------------------------
(***************************************************************************)
(* Proofs about Publication, for any sets of documents, labels, payloads   *)
(* and processes, with foreign keys enforced or not, and with crashes:     *)
(* its types, the integrity of its tables and of the label index; then     *)
(* that documents are stored and indexed whole, that what publish reports  *)
(* as done is live, and that the three commands implement the catalog.     *)
(* The last part is about BatchPublish: a batch which ends with success    *)
(* has brought every document it listed live, though each was published    *)
(* on its own, earlier batches stopped half way, and the curator worked    *)
(* on between any two steps.                                               *)
(***************************************************************************)
EXTENDS BatchPublish, WellFoundedInduction, TLAPS

-----------------------------------------------------------------------------
(* Type correctness, one table or variable at a time                       *)

\* The transactions that write labels leave well-formed tables.
LEMMA LabelWritesType ==
    ASSUME LiveTypeOK, NEW d \in Docs, NEW ls \in SUBSET Labels,
           WriteMeta(d, ls) \/ UpdateLabels(d, ls) \/ WriteLabelsOptimization(d, ls)
    PROVE  LiveTypeOK'
<1> USE DEF LiveTypeOK
<1>1. CASE WriteMeta(d, ls)
  BY <1>1 DEF WriteMeta
<1>2. CASE UpdateLabels(d, ls)
  BY <1>2 DEF UpdateLabels
<1>3. CASE WriteLabelsOptimization(d, ls)
  BY <1>3 DEF WriteLabelsOptimization
<1> QED BY <1>1, <1>2, <1>3

\* So do the transactions that write a payload.
LEMMA PayloadWritesType ==
    ASSUME LiveTypeOK, NEW d \in Docs, NEW v \in Nlps,
           WriteNlpData(d, v) \/ WriteLemmaOptimization(d, v)
    PROVE  LiveTypeOK'
<1> USE DEF LiveTypeOK
<1>1. CASE WriteNlpData(d, v)
  <2>1. PICK top \in 0 .. MaxRowid :
          /\ IsTopRowid(top)
          /\ top + NumSentences[v] <= MaxRowid
          /\ sentences' =
              [r \in DOMAIN sentences \cup (top + 1 .. top + NumSentences[v]) |->
                  IF r \in DOMAIN sentences
                  THEN sentences[r]
                  ELSE [doc |-> d, sid |-> r - top - 1, nlp |-> v]]
    BY <1>1 DEF WriteNlpData
  <2>2. DOMAIN sentences' \subseteq Rowids
    BY <2>1, DocStoreAssumption DEF Rowids
  <2>3. ASSUME NEW r \in DOMAIN sentences' PROVE sentences'[r] \in Sentence
    BY <2>1, <2>3, DocStoreAssumption DEF Sentence, Rowids
  <2>4. sentences' \in [DOMAIN sentences' -> Sentence]
    BY <2>1, <2>3
  <2> QED BY <1>1, <2>2, <2>4 DEF WriteNlpData
<1>2. CASE WriteLemmaOptimization(d, v)
  BY <1>2 DEF WriteLemmaOptimization
<1> QED BY <1>1, <1>2

\* And so do the deletions.
LEMMA DeletionsType ==
    ASSUME LiveTypeOK, NEW d \in Docs,
           \/ DeleteLemmaOptimization(d) \/ DeleteLabelsOptimization(d)
           \/ DeleteNlpData(d) \/ DeleteMeta(d)
    PROVE  LiveTypeOK'
<1> USE DEF LiveTypeOK
<1>1. CASE DeleteLemmaOptimization(d)
  BY <1>1 DEF DeleteLemmaOptimization
<1>2. CASE DeleteLabelsOptimization(d)
  BY <1>2 DEF DeleteLabelsOptimization
<1>3. CASE DeleteNlpData(d)
  BY <1>3 DEF DeleteNlpData
<1>4. CASE DeleteMeta(d)
  BY <1>4 DEF DeleteMeta
<1> QED BY <1>1, <1>2, <1>3, <1>4

\* An UPDATE that writes a well-formed row leaves a well-formed corpus.
LEMMA SetRowType ==
    ASSUME CorpusTypeOK, NEW d,
           NEW row, d \in DOMAIN corpus => row \in CorpusRow, SetRow(d, row)
    PROVE  CorpusTypeOK'
BY DEF CorpusTypeOK, SetRow

\* A process that remembers a well-formed job keeps job well-formed.
LEMMA RememberType ==
    ASSUME job \in [Procs -> Job], NEW p \in Procs, NEW j \in Job, Remember(p, j)
    PROVE  job' \in [Procs -> Job]
BY DEF Remember

AllPCs == PublishPCs \cup UnpublishPCs \cup LabelPCs \cup Stopped

\* Moving a process to another line keeps pc well-formed.
LEMMA GotoType ==
    ASSUME pc \in [Procs -> AllPCs], NEW p \in Procs, NEW l \in AllPCs, Goto(p, l)
    PROVE  pc' \in [Procs -> AllPCs]
BY DEF Goto

\* A publish past its first step holds a payload: what makes TypeOK inductive.
PayloadRead ==
    \A p \in Procs : pc[p] \in PublishPCs \ {"pub_read_nlp"} => job[p].nlp \in Nlps

TypeInv == TypeOK /\ PayloadRead

\* Init starts in a well-formed state.
LEMMA InitType == Init => TypeInv
<1> SUFFICES ASSUME Init PROVE TypeInv
  OBVIOUS
<1>1. LiveTypeOK
  BY DEF Init, LiveInit, LiveTypeOK
<1>2. CorpusTypeOK
  BY PublicationAssumption DEF Init, CorpusTypeOK
<1>3. pc \in [Procs -> PublishPCs \cup UnpublishPCs \cup LabelPCs \cup Stopped]
  BY DEF Init, Stopped
<1>4. job \in [Procs -> Job]
  BY DEF Init
<1>5. PayloadRead
  BY DEF Init, PayloadRead, PublishPCs
<1> QED BY <1>1, <1>2, <1>3, <1>4, <1>5 DEF TypeInv, TypeOK

\* A command that starts keeps every variable well-formed.
LEMMA StartType ==
    ASSUME TypeInv, NEW p \in Procs,
           StartPublish(p) \/ StartUnpublish(p) \/ StartPublishLabel(p)
    PROVE  TypeInv'
<1> USE DEF TypeInv
<1>1. PICK cmd \in {"publish", "unpublish", "publish-label"}, d \in Docs,
           opts \in [force : BOOLEAN, move : BOOLEAN],
           first \in {"pub_read_nlp", "unp_exists", "lab_exists"} :
         Start(p, cmd, d, opts, first)
  BY PublicationAssumption DEF StartPublish, StartUnpublish, StartPublishLabel, NoOptions
<1>2. LiveTypeOK' /\ CorpusTypeOK'
  BY <1>1 DEF Start, TypeOK, liveVars, LiveTypeOK, CorpusTypeOK
<1>3. pc' \in [Procs -> AllPCs]
  BY <1>1, GotoType
     DEF Start, TypeOK, AllPCs, PublishPCs, UnpublishPCs, LabelPCs
<1>4. job' \in [Procs -> Job]
  BY <1>1 DEF Start, Remember, TypeOK, Job
<1>5. PayloadRead'
  BY <1>1 DEF Start, Remember, Goto, PayloadRead, PublishPCs, TypeOK
<1> QED BY <1>2, <1>3, <1>4, <1>5 DEF TypeOK, AllPCs

\* So does a step of a running command.
LEMMA ProceedType ==
    ASSUME TypeInv, NEW p \in Procs, Proceed(p)
    PROVE  TypeInv'
<1> USE DEF TypeInv
<1> DEFINE d == Doc(p)
<1>1. /\ d \in Docs
      /\ job[p] \in Job
      /\ job[p].labels \in SUBSET Labels
      /\ job[p].ids \in SUBSET Labels
  BY DEF TypeOK, Job, Doc
<1>2. pc' \in [Procs -> AllPCs]
  <2>1. \E from, to \in AllPCs : Step(p, from, to)
    BY DEF Proceed, PublishStep, UnpublishStep, PublishLabelStep, Branch,
           PubReadNlp, PubReadMeta, PubExists, PubWriteMeta, PubHasSentences,
           PubWriteSentences, PubHasLabels, PubWriteLabels, PubHasLemmas,
           PubWriteLemmas, PubClear, AfterLemmas,
           UnpExists, UnpHasLemmas, UnpDeleteLemmas, UnpHasLabels,
           UnpDeleteLabels, UnpHasSentences, UnpDeleteSentences,
           UnpExistsAgain, UnpDeleteMeta,
           LabExists, LabReadMeta, LabDelete, LabUpdate, LabWrite,
           AllPCs, PublishPCs, UnpublishPCs, LabelPCs, Stopped
  <2> QED BY <2>1, GotoType DEF Step, TypeOK, AllPCs
<1>3. LiveTypeOK'
  <2>1. CASE UNCHANGED liveVars
    BY <2>1 DEF TypeOK, LiveTypeOK, liveVars
  <2>2. CASE PubWriteSentences(p) \/ PubWriteLemmas(p)
    <3>1. job[p].nlp \in Nlps
      BY <2>2 DEF PubWriteSentences, PubWriteLemmas, Step, PayloadRead, PublishPCs
    <3> QED BY <1>1, <2>2, <3>1, PayloadWritesType
            DEF TypeOK, PubWriteSentences, PubWriteLemmas
  <2>3. CASE PubWriteMeta(p) \/ PubWriteLabels(p) \/ LabUpdate(p) \/ LabWrite(p)
    BY <1>1, <2>3, LabelWritesType
       DEF TypeOK, PubWriteMeta, PubWriteLabels, LabUpdate, LabWrite
  <2>4. CASE \/ UnpDeleteLemmas(p) \/ UnpDeleteLabels(p) \/ LabDelete(p)
             \/ UnpDeleteSentences(p) \/ UnpDeleteMeta(p)
    BY <1>1, <2>4, DeletionsType
       DEF TypeOK, UnpDeleteLemmas, UnpDeleteLabels, LabDelete,
           UnpDeleteSentences, UnpDeleteMeta
  <2> QED
    BY <2>1, <2>2, <2>3, <2>4
       DEF Proceed, PublishStep, UnpublishStep, PublishLabelStep,
           PubReadNlp, PubReadMeta, PubExists, PubHasSentences, PubHasLabels,
           PubHasLemmas, PubClear, UnpExists, UnpHasLemmas, UnpHasLabels,
           UnpHasSentences, UnpExistsAgain, LabExists, LabReadMeta
<1>4. CorpusTypeOK'
  <2>1. CASE UNCHANGED corpus
    BY <2>1 DEF TypeOK, CorpusTypeOK
  <2>2. CASE ClearNlp(d)
    <3>1. d \in DOMAIN corpus => [corpus[d] EXCEPT !.nlp = NoNlp] \in CorpusRow
      BY DEF TypeOK, CorpusTypeOK, CorpusRow
    <3> QED BY <2>2, <3>1, SetRowType DEF TypeOK, ClearNlp
  <2> QED
    BY <2>1, <2>2
       DEF Proceed, PublishStep, UnpublishStep, PublishLabelStep,
           PubReadNlp, PubReadMeta, PubExists, PubWriteMeta, PubHasSentences,
           PubWriteSentences, PubHasLabels, PubWriteLabels, PubHasLemmas,
           PubWriteLemmas, PubClear,
           UnpExists, UnpHasLemmas, UnpDeleteLemmas, UnpHasLabels,
           UnpDeleteLabels, UnpHasSentences, UnpDeleteSentences,
           UnpExistsAgain, UnpDeleteMeta,
           LabExists, LabReadMeta, LabDelete, LabUpdate, LabWrite
<1>5. job' \in [Procs -> Job]
  <2>1. CASE PubReadNlp(p)
    <3>1. corpus[d].nlp \in Nlps \cup {NoNlp}
      BY <2>1, <1>1 DEF PubReadNlp, InCorpus, TypeOK, CorpusTypeOK, CorpusRow
    <3>2. [job[p] EXCEPT !.nlp = corpus[d].nlp] \in Job
      BY <1>1, <3>1 DEF Job
    <3> QED BY <2>1, <3>2, RememberType DEF PubReadNlp, TypeOK
  <2>2. CASE PubReadMeta(p) \/ LabReadMeta(p)
    <3>1. corpus[d].labels \in SUBSET Labels
      BY <1>1, <2>2
         DEF PubReadMeta, LabReadMeta, InCorpus, TypeOK, CorpusTypeOK, CorpusRow
    <3>2. [job[p] EXCEPT !.labels = corpus[d].labels] \in Job
      BY <1>1, <3>1 DEF Job
    <3> QED BY <2>2, <3>2, RememberType DEF PubReadMeta, LabReadMeta, TypeOK
  <2>3. CASE PubWriteMeta(p) \/ LabUpdate(p)
    <3>1. [job[p] EXCEPT !.ids = job[p].labels] \in Job
      BY <1>1 DEF Job
    <3> QED BY <2>3, <3>1, RememberType DEF PubWriteMeta, LabUpdate, TypeOK
  <2>4. CASE UNCHANGED job
    BY <2>4 DEF TypeOK
  <2> QED
    BY <2>1, <2>2, <2>3, <2>4
       DEF Proceed, PublishStep, UnpublishStep, PublishLabelStep,
           PubExists, PubHasSentences, PubWriteSentences, PubHasLabels,
           PubWriteLabels, PubHasLemmas, PubWriteLemmas, PubClear,
           UnpExists, UnpHasLemmas, UnpDeleteLemmas, UnpHasLabels,
           UnpDeleteLabels, UnpHasSentences, UnpDeleteSentences,
           UnpExistsAgain, UnpDeleteMeta, LabExists, LabDelete, LabWrite
<1>6. PayloadRead'
  <2>1. \A q \in Procs \ {p} : pc'[q] = pc[q] /\ job'[q] = job[q]
    BY DEF Proceed, PublishStep, UnpublishStep, PublishLabelStep, Branch,
           PubReadNlp, PubReadMeta, PubExists, PubWriteMeta, PubHasSentences,
           PubWriteSentences, PubHasLabels, PubWriteLabels, PubHasLemmas,
           PubWriteLemmas, PubClear,
           UnpExists, UnpHasLemmas, UnpDeleteLemmas, UnpHasLabels,
           UnpDeleteLabels, UnpHasSentences, UnpDeleteSentences,
           UnpExistsAgain, UnpDeleteMeta,
           LabExists, LabReadMeta, LabDelete, LabUpdate, LabWrite,
           Step, Goto, Remember, TypeOK
  <2>2. CASE PubReadNlp(p)
    <3>1. job'[p].nlp \in Nlps
      BY <1>1, <2>2
         DEF PubReadNlp, InCorpus, Remember, Doc, TypeOK, Job, CorpusTypeOK, CorpusRow
    <3> QED BY <2>1, <3>1 DEF PayloadRead
  <2>3. CASE PublishStep(p) /\ ~PubReadNlp(p)
    <3>1. pc[p] \in PublishPCs \ {"pub_read_nlp"} /\ job'[p].nlp = job[p].nlp
      BY <1>1, <2>3
         DEF PublishStep, Branch, Step, PublishPCs, Remember, TypeOK, Job,
             PubReadMeta, PubExists, PubWriteMeta, PubHasSentences,
             PubWriteSentences, PubHasLabels, PubWriteLabels, PubHasLemmas,
             PubWriteLemmas, PubClear
    <3> QED BY <2>1, <3>1 DEF PayloadRead
  <2>4. CASE UnpublishStep(p) \/ PublishLabelStep(p)
    <3>1. pc'[p] \notin PublishPCs
      BY <2>4
         DEF UnpublishStep, PublishLabelStep, Branch, Step, Goto, PublishPCs, TypeOK,
             UnpExists, UnpHasLemmas, UnpDeleteLemmas, UnpHasLabels,
             UnpDeleteLabels, UnpHasSentences, UnpDeleteSentences,
             UnpExistsAgain, UnpDeleteMeta,
             LabExists, LabReadMeta, LabDelete, LabUpdate, LabWrite
    <3> QED BY <2>1, <3>1 DEF PayloadRead
  <2> QED BY <2>2, <2>3, <2>4 DEF Proceed
<1> QED BY <1>2, <1>3, <1>4, <1>5, <1>6 DEF TypeOK, AllPCs

\* A command that stops, and a change of the curator, keep the types too.
LEMMA OtherType ==
    ASSUME TypeInv, Curate \/ \E p \in Procs : Fail(p)
    PROVE  TypeInv'
<1> USE DEF TypeInv
<1>1. CASE Curate
  <2>1. CorpusTypeOK'
    <3>1. CASE CuratorSetLabel
      <4>1. PICK d \in Docs, l \in Labels : AddLabel(d, {l}) \/ DeleteLabel(d, {l})
        BY <3>1 DEF CuratorSetLabel
      <4>2. /\ [corpus[d] EXCEPT !.labels = @ \cup {l}] \in CorpusRow
            /\ [corpus[d] EXCEPT !.labels = @ \ {l}] \in CorpusRow
        BY <4>1 DEF AddLabel, DeleteLabel, InCorpus, TypeOK, CorpusTypeOK, CorpusRow
      <4> QED BY <4>1, <4>2, SetRowType DEF TypeOK, AddLabel, DeleteLabel
    <3>2. CASE CuratorIngestNlp
      <4>1. PICK d \in DOMAIN corpus, v \in Nlps : WriteNlp(d, v)
        BY <3>2 DEF CuratorIngestNlp
      <4>2. [corpus[d] EXCEPT !.nlp = v, !.nlp_created = TRUE] \in CorpusRow
        BY DEF TypeOK, CorpusTypeOK, CorpusRow
      <4> QED BY <4>1, <4>2, SetRowType DEF TypeOK, WriteNlp
    <3>3. CASE CuratorRemove
      BY <3>3 DEF CuratorRemove, Delete, TypeOK, CorpusTypeOK
    <3> QED BY <1>1, <3>1, <3>2, <3>3 DEF Curate
  <2>2. UNCHANGED <<liveVars, pc, job>>
    BY <1>1 DEF Curate, CuratorSetLabel, CuratorIngestNlp, CuratorRemove
  <2> QED BY <2>1, <2>2 DEF TypeOK, LiveTypeOK, liveVars, PayloadRead
<1>2. ASSUME NEW p \in Procs, Fail(p) PROVE TypeInv'
  BY <1>2 DEF Fail, Goto, TypeOK, LiveTypeOK, CorpusTypeOK, liveVars, PayloadRead,
              PublishPCs, Stopped
<1> QED BY <1>1, <1>2

\* Every step keeps the types.
LEMMA NextType == TypeInv /\ [Next]_vars => TypeInv'
<1> SUFFICES ASSUME TypeInv, [Next]_vars PROVE TypeInv'
  OBVIOUS
<1>1. CASE UNCHANGED vars
  BY <1>1 DEF vars, liveVars, TypeInv, TypeOK, LiveTypeOK, CorpusTypeOK, PayloadRead
<1>2. CASE Next
  BY <1>2, StartType, ProceedType, OtherType DEF Next, Run
<1> QED BY <1>1, <1>2

\* The variables of Publication, the tables of both databases among them, keep
\* their types in every behaviour: no transaction stores a malformed row.
THEOREM TypeCorrect == Spec => []TypeOK
<1>1. Init => TypeInv
  BY InitType
<1>2. TypeInv /\ [Next]_vars => TypeInv'
  BY NextType
<1>3. TypeInv => TypeOK
  BY DEF TypeInv
<1> QED BY <1>1, <1>2, <1>3, PTL DEF Spec

-----------------------------------------------------------------------------
(* Integrity and LabelIndexAgrees, when one command at a time works on a   *)
(* document                                                                *)

Unlabelled(d) == RowsOf(d) \cap LabelRows = {}
Unindexed(d) == RowsOf(d) \cap LemmaRows = {}

\* No two running commands work on the same document.
OnePerDocument ==
    \A p, q \in Procs : Active(p) /\ Active(q) /\ p # q => Doc(p) # Doc(q)

\* What the checks a command has made and the transactions it has committed
\* still say of its document when it runs its next transaction.
Progress(p) ==
    LET d == Doc(p) IN
    /\ pc[p] \in {"pub_read_nlp", "pub_read_meta", "pub_exists"} => job[p].ids = {}
    /\ pc[p] \in {"pub_has_sentences", "pub_write_sentences",
                  "pub_has_labels", "pub_write_labels"}
        => Exists(d) /\ job[p].ids \in {{}, docs[d]}
    /\ pc[p] \in {"pub_write_sentences", "unp_exists_again", "unp_delete_meta"}
        => RowsOf(d) = {}
    /\ pc[p] \in {"pub_write_labels", "unp_has_sentences",
                  "unp_delete_sentences", "lab_update", "lab_write"}
        => Unlabelled(d)
    /\ pc[p] \in {"unp_has_labels", "unp_delete_labels", "unp_has_sentences",
                  "unp_delete_sentences"}
        => Unindexed(d)
    /\ pc[p] \in {"unp_has_lemmas", "lab_read_meta", "lab_delete", "lab_update",
                  "lab_write"}
        => Exists(d)
    /\ pc[p] = "lab_write" => job[p].ids = docs[d] /\ job[p].labels = docs[d]

IInv ==
    /\ TypeInv
    /\ Integrity
    /\ LabelIndexAgrees
    /\ OnePerDocument
    /\ \A p \in Procs : Progress(p)

\* The transactions of a running command, with the line each is run from.
LEMMA LiveEffects ==
    ASSUME NEW p \in Procs, Proceed(p)
    PROVE  \/ UNCHANGED liveVars
           \/ pc[p] = "pub_write_meta" /\ WriteMeta(Doc(p), job[p].labels)
           \/ pc[p] = "lab_update" /\ UpdateLabels(Doc(p), job[p].labels)
           \/ pc[p] = "pub_write_sentences" /\ WriteNlpData(Doc(p), job[p].nlp)
           \/ /\ pc[p] \in {"pub_write_labels", "lab_write"}
              /\ WriteLabelsOptimization(Doc(p), job[p].ids)
           \/ pc[p] = "pub_write_lemmas" /\ WriteLemmaOptimization(Doc(p), job[p].nlp)
           \/ pc[p] = "unp_delete_lemmas" /\ DeleteLemmaOptimization(Doc(p))
           \/ /\ pc[p] \in {"unp_delete_labels", "lab_delete"}
              /\ DeleteLabelsOptimization(Doc(p))
           \/ pc[p] = "unp_delete_sentences" /\ DeleteNlpData(Doc(p))
           \/ pc[p] = "unp_delete_meta" /\ DeleteMeta(Doc(p))
<1>1. CASE PublishStep(p)
  BY <1>1 DEF PublishStep, Step, PubReadNlp, PubReadMeta, PubExists,
     PubWriteMeta, PubHasSentences, PubWriteSentences, PubHasLabels,
     PubWriteLabels, PubHasLemmas, PubWriteLemmas, PubClear
<1>2. CASE UnpublishStep(p)
  BY <1>2 DEF UnpublishStep, Step, UnpExists, UnpHasLemmas, UnpDeleteLemmas,
     UnpHasLabels, UnpDeleteLabels, UnpHasSentences, UnpDeleteSentences,
     UnpExistsAgain, UnpDeleteMeta
<1>3. CASE PublishLabelStep(p)
  BY <1>3 DEF PublishLabelStep, Step, LabExists, LabReadMeta, LabDelete,
     LabUpdate, LabWrite
<1> QED BY <1>1, <1>2, <1>3 DEF Proceed

\* A command is running when it takes a step, and its step moves only itself.
LEMMA OthersUnmoved ==
    ASSUME TypeInv, NEW p \in Procs, Proceed(p)
    PROVE  /\ Active(p)
           /\ Doc(p)' = Doc(p)
           /\ \A q \in Procs \ {p} : pc'[q] = pc[q] /\ job'[q] = job[q]
<1> USE DEF Active, Stopped, Doc, Step, Branch, Goto, Remember, TypeInv, TypeOK, Job
<1>1. CASE PublishStep(p)
  BY <1>1 DEF PublishStep, PubReadNlp, PubReadMeta, PubExists, PubWriteMeta,
     PubHasSentences, PubWriteSentences, PubHasLabels, PubWriteLabels,
     PubHasLemmas, PubWriteLemmas, PubClear
<1>2. CASE UnpublishStep(p)
  BY <1>2 DEF UnpublishStep, UnpExists, UnpHasLemmas, UnpDeleteLemmas,
     UnpHasLabels, UnpDeleteLabels, UnpHasSentences, UnpDeleteSentences,
     UnpExistsAgain, UnpDeleteMeta
<1>3. CASE PublishLabelStep(p)
  BY <1>3 DEF PublishLabelStep, LabExists, LabReadMeta, LabDelete, LabUpdate, LabWrite
<1> QED BY <1>1, <1>2, <1>3 DEF Proceed

\* No command touches the rows of a document it does not work on: new rowids
\* lie beyond those in use.
Untouched(e) ==
    /\ RowsOf(e)' = RowsOf(e)
    /\ \A r \in RowsOf(e) : /\ sentence_lemmas'[r] = sentence_lemmas[r]
                            /\ sentence_labels'[r] = sentence_labels[r]
    /\ Exists(e)' = Exists(e)
    /\ Exists(e) => docs'[e] = docs[e]

\* A transaction leaves the documents its command does not work on alone.
LEMMA OtherDocumentsUntouched ==
    ASSUME TypeInv, NEW p \in Procs, Proceed(p), NEW e \in Docs, e # Doc(p)
    PROVE  Untouched(e)
<1> DEFINE d == Doc(p)
<1> USE DEF Untouched, RowsOf, Exists, TypeInv, TypeOK, LiveTypeOK
<1>1. CASE UNCHANGED liveVars
  BY <1>1 DEF liveVars
<1>2. CASE WriteMeta(d, job[p].labels) \/ UpdateLabels(d, job[p].labels)
  BY <1>2 DEF WriteMeta, UpdateLabels
<1>3. CASE WriteNlpData(d, job[p].nlp)
  BY <1>3 DEF WriteNlpData
<1>4. CASE WriteLabelsOptimization(d, job[p].ids) \/ DeleteLabelsOptimization(d)
  BY <1>4 DEF WriteLabelsOptimization, DeleteLabelsOptimization
<1>5. CASE WriteLemmaOptimization(d, job[p].nlp) \/ DeleteLemmaOptimization(d)
  BY <1>5 DEF WriteLemmaOptimization, DeleteLemmaOptimization
<1>6. CASE DeleteNlpData(d) \/ DeleteMeta(d)
  BY <1>6 DEF DeleteNlpData, DeleteMeta
<1> QED BY <1>1, <1>2, <1>3, <1>4, <1>5, <1>6, LiveEffects

\* Every transaction keeps the three referential constraints, given what the
\* command knows of its document.
LEMMA ProceedIntegrity ==
    ASSUME IInv, NEW p \in Procs, Proceed(p)
    PROVE  Integrity'
<1> DEFINE d == Doc(p)
<1> USE DEF IInv, Integrity, RowsOf, Exists, LemmaRows, LabelRows, Rowids,
            TypeInv, TypeOK, LiveTypeOK, Progress
<1>1. CASE UNCHANGED liveVars
  BY <1>1 DEF liveVars
<1>2. CASE WriteMeta(d, job[p].labels) \/ UpdateLabels(d, job[p].labels)
  BY <1>2 DEF WriteMeta, UpdateLabels
<1>3. CASE pc[p] = "pub_write_sentences" /\ WriteNlpData(d, job[p].nlp)
  BY <1>3 DEF WriteNlpData
<1>4. CASE WriteLabelsOptimization(d, job[p].ids)
  BY <1>4 DEF WriteLabelsOptimization
<1>5. CASE WriteLemmaOptimization(d, job[p].nlp)
  BY <1>5 DEF WriteLemmaOptimization
<1>6. CASE DeleteLemmaOptimization(d)
  BY <1>6 DEF DeleteLemmaOptimization
<1>7. CASE DeleteLabelsOptimization(d)
  BY <1>7 DEF DeleteLabelsOptimization
<1>8. CASE pc[p] = "unp_delete_sentences" /\ DeleteNlpData(d)
  BY <1>8 DEF DeleteNlpData, Unlabelled, Unindexed
<1>9. CASE pc[p] = "unp_delete_meta" /\ DeleteMeta(d)
  BY <1>9 DEF DeleteMeta
<1> QED BY <1>1, <1>2, <1>3, <1>4, <1>5, <1>6, <1>7, <1>8, <1>9, LiveEffects

\* The label index of one document agrees with its docs row.
LabelsAgree(d) ==
    Exists(d) =>
        \/ Unlabelled(d)
        \/ \A r \in RowsOf(d), l \in Labels :
            sentence_labels[r][l] = IF l \in docs[d] THEN 1 ELSE 0

\* The invariant about the label index, document by document.
LEMMA LabelIndexAgreesPerDocument ==
    ASSUME TypeInv
    PROVE  LabelIndexAgrees <=> \A d \in Docs : LabelsAgree(d)
BY DEF LabelIndexAgrees, LabelsAgree, Unlabelled, Exists, TypeInv, TypeOK, LiveTypeOK

\* What is known of an untouched document stays true.
LEMMA UntouchedKept ==
    ASSUME NEW e \in Docs, Untouched(e), TypeInv
    PROVE  /\ LabelsAgree(e) => LabelsAgree(e)'
           /\ Unlabelled(e) => Unlabelled(e)'
           /\ Unindexed(e) => Unindexed(e)'
           /\ RowsOf(e)' = RowsOf(e)
           /\ Exists(e)' = Exists(e)
           /\ Exists(e) => docs'[e] = docs[e]
BY DEF Untouched, LabelsAgree, Unlabelled, Unindexed, LabelRows, LemmaRows

\* The transactions of a command keep the label index of its own document in
\* agreement with the docs row.
LEMMA OwnLabelsAgree ==
    ASSUME IInv, NEW p \in Procs, Proceed(p)
    PROVE  LabelsAgree(Doc(p))'
<1> DEFINE d == Doc(p)
<1>0. d \in Docs /\ LabelsAgree(d) /\ Doc(p)' = d
  BY LabelIndexAgreesPerDocument, OthersUnmoved DEF IInv, Doc, TypeInv, TypeOK, Job
<1> USE DEF IInv, LabelsAgree, Unlabelled, RowsOf, Exists, LabelRows, Rowids,
            TypeInv, TypeOK, LiveTypeOK, Progress
<1>1. CASE UNCHANGED liveVars
  BY <1>0, <1>1 DEF liveVars
<1>2. CASE pc[p] = "pub_write_meta" /\ WriteMeta(d, job[p].labels)
  <2>1. RowsOf(d) = {}
    BY <1>2 DEF WriteMeta, Integrity
  <2> QED BY <1>0, <1>2, <2>1 DEF WriteMeta
<1>3. CASE pc[p] = "lab_update" /\ UpdateLabels(d, job[p].labels)
  BY <1>0, <1>3 DEF UpdateLabels
<1>4. CASE pc[p] = "pub_write_sentences" /\ WriteNlpData(d, job[p].nlp)
  <2>1. RowsOf(d)' \cap DOMAIN sentences = {}
    BY <1>0, <1>4 DEF WriteNlpData
  <2>2. UNCHANGED sentence_labels
    BY <1>4 DEF WriteNlpData
  <2> QED BY <1>0, <2>1, <2>2 DEF Integrity
<1>5. CASE /\ pc[p] \in {"pub_write_labels", "lab_write"}
           /\ WriteLabelsOptimization(d, job[p].ids)
  <2>1. \A r \in RowsOf(d), l \in Labels : sentence_labels[r][l] = 0
    BY <1>5
  <2>2. Exists(d) => job[p].ids = docs[d] \/ job[p].ids = {}
    BY <1>5
  <2>3. UNCHANGED <<docs, sentences>>
    BY <1>5 DEF WriteLabelsOptimization
  <2>4. \A r \in RowsOf(d), l \in Labels :
          sentence_labels'[r][l] = IF l \in job[p].ids THEN 1 ELSE 0
    BY <1>5, <2>1 DEF WriteLabelsOptimization
  <2> QED BY <1>0, <2>2, <2>3, <2>4
<1>6. CASE WriteLemmaOptimization(d, job[p].nlp) \/ DeleteLemmaOptimization(d)
  <2>1. UNCHANGED <<docs, sentences, sentence_labels>>
    BY <1>6 DEF WriteLemmaOptimization, DeleteLemmaOptimization
  <2> QED BY <1>0, <2>1
<1>7. CASE DeleteLabelsOptimization(d)
  BY <1>0, <1>7 DEF DeleteLabelsOptimization
<1>8. CASE DeleteNlpData(d)
  BY <1>0, <1>8 DEF DeleteNlpData
<1>9. CASE DeleteMeta(d)
  BY <1>0, <1>9 DEF DeleteMeta
<1> QED BY <1>1, <1>2, <1>3, <1>4, <1>5, <1>6, <1>7, <1>8, <1>9, LiveEffects

\* What a command knows of its document stays true as it goes on.
LEMMA OwnProgress ==
    ASSUME IInv, NEW p \in Procs, Proceed(p)
    PROVE  Progress(p)'
<1> DEFINE d == Doc(p)
<1>0. /\ d \in Docs
      /\ Doc(p)' = d
      /\ p \in DOMAIN pc
      /\ p \in DOMAIN job
      /\ DOMAIN job[p] = {"cmd", "doc", "opts", "nlp", "labels", "ids"}
      /\ Progress(p)
  BY OthersUnmoved DEF IInv, Doc, TypeInv, TypeOK, Job
<1> USE DEF Progress, Step, Branch, Goto
<1>1. CASE \/ PubReadNlp(p) \/ PubReadMeta(p) \/ LabReadMeta(p)
           \/ LabExists(p) \/ UnpExists(p)
  BY <1>0, <1>1
     DEF PubReadNlp, PubReadMeta, LabReadMeta, LabExists, UnpExists, Remember,
         Exists, liveVars
<1>2. CASE PubExists(p)
  BY <1>0, <1>2 DEF PubExists, Exists, liveVars
<1>3. CASE PubWriteMeta(p)
  BY <1>0, <1>3 DEF PubWriteMeta, WriteMeta, Remember, Exists
<1>4. CASE PubHasSentences(p)
  BY <1>0, <1>4
     DEF PubHasSentences, HasSentences, RowsOf, Exists, liveVars
<1>5. CASE PubWriteSentences(p)
  BY <1>0, <1>5 DEF PubWriteSentences, WriteNlpData, Exists
<1>6. CASE PubHasLabels(p)
  BY <1>0, <1>6
     DEF PubHasLabels, HasLabelsOptimization, Unlabelled, RowsOf, LabelRows,
         Exists, liveVars
<1>7. CASE \/ PubWriteLabels(p) \/ PubHasLemmas(p) \/ PubWriteLemmas(p)
           \/ PubClear(p) \/ UnpDeleteMeta(p) \/ LabWrite(p)
  BY <1>0, <1>7
     DEF PubWriteLabels, PubHasLemmas, PubWriteLemmas, PubClear, UnpDeleteMeta,
         LabWrite, AfterLemmas
<1>8. CASE UnpHasLemmas(p)
  BY <1>0, <1>8
     DEF UnpHasLemmas, HasLemmaOptimization, Unindexed, RowsOf, LemmaRows, liveVars
<1>9. CASE UnpDeleteLemmas(p)
  BY <1>0, <1>9
     DEF UnpDeleteLemmas, DeleteLemmaOptimization, Unindexed, RowsOf, LemmaRows,
         Rowids, IInv, TypeInv, TypeOK, LiveTypeOK
<1>10. CASE UnpHasLabels(p)
  BY <1>0, <1>10
     DEF UnpHasLabels, HasLabelsOptimization, Unlabelled, Unindexed, RowsOf,
         LabelRows, LemmaRows, liveVars
<1>11. CASE UnpDeleteLabels(p)
  BY <1>0, <1>11
     DEF UnpDeleteLabels, DeleteLabelsOptimization, Unlabelled, Unindexed,
         RowsOf, LabelRows, LemmaRows, Rowids, IInv, TypeInv, TypeOK, LiveTypeOK
<1>12. CASE UnpHasSentences(p)
  BY <1>0, <1>12
     DEF UnpHasSentences, HasSentences, Unlabelled, Unindexed, RowsOf,
         LabelRows, LemmaRows, liveVars
<1>13. CASE UnpDeleteSentences(p)
  BY <1>0, <1>13 DEF UnpDeleteSentences, DeleteNlpData, RowsOf
<1>14. CASE UnpExistsAgain(p)
  BY <1>0, <1>14 DEF UnpExistsAgain, RowsOf, liveVars
<1>15. CASE LabDelete(p)
  BY <1>0, <1>15
     DEF LabDelete, DeleteLabelsOptimization, Unlabelled, RowsOf, LabelRows,
         Exists, Rowids, IInv, TypeInv, TypeOK, LiveTypeOK
<1>16. CASE LabUpdate(p)
  BY <1>0, <1>16
     DEF LabUpdate, UpdateLabels, Remember, Unlabelled, RowsOf, LabelRows, Exists
<1> QED
  BY <1>1, <1>2, <1>3, <1>4, <1>5, <1>6, <1>7, <1>8, <1>9, <1>10, <1>11, <1>12,
     <1>13, <1>14, <1>15, <1>16
     DEF Proceed, PublishStep, UnpublishStep, PublishLabelStep

\* A step of a running command keeps the invariant: what the other commands
\* know is about other documents.
LEMMA ProceedInv ==
    ASSUME IInv, NEW p \in Procs, Proceed(p)
    PROVE  IInv'
<1>1. TypeInv'
  BY ProceedType DEF IInv
<1>2. Integrity'
  BY ProceedIntegrity
<1>3. LabelIndexAgrees'
  <2>1. ASSUME NEW e \in Docs, e # Doc(p) PROVE LabelsAgree(e)'
    BY <2>1, OtherDocumentsUntouched, UntouchedKept, LabelIndexAgreesPerDocument
       DEF IInv
  <2>2. \A e \in Docs : LabelsAgree(e)'
    BY <2>1, OwnLabelsAgree, OthersUnmoved DEF IInv
  <2> QED BY <1>1, <2>2
          DEF LabelIndexAgrees, LabelsAgree, Unlabelled, Exists,
              TypeInv, TypeOK, LiveTypeOK
<1>4. OnePerDocument'
  BY OthersUnmoved DEF IInv, OnePerDocument, Active, Doc
<1>5. \A q \in Procs : Progress(q)'
  <2>1. ASSUME NEW q \in Procs, q # p PROVE Progress(q)'
    <3>1. CASE ~Active(q)
      BY <2>1, <3>1, OthersUnmoved DEF IInv, Active, Stopped, Progress
    <3>2. CASE Active(q)
      <4>1. Untouched(Doc(q)) /\ Doc(q) \in Docs
        BY <2>1, <3>2, OthersUnmoved, OtherDocumentsUntouched
           DEF IInv, OnePerDocument, Doc, TypeInv, TypeOK, Job
      <4>2. pc'[q] = pc[q] /\ job'[q] = job[q] /\ Doc(q)' = Doc(q)
        BY <2>1, OthersUnmoved DEF IInv, Doc
      <4> QED BY <4>1, <4>2, UntouchedKept DEF IInv, Progress
    <3> QED BY <3>1, <3>2
  <2> QED BY <2>1, OwnProgress
<1> QED BY <1>1, <1>2, <1>3, <1>4, <1>5 DEF IInv

\* So does any other step, when commands start only on free documents.
LEMMA OtherInv ==
    ASSUME IInv, Exclusive,
           \/ UNCHANGED vars
           \/ Curate
           \/ \E p \in Procs : \/ Fail(p) \/ StartPublish(p)
                               \/ StartUnpublish(p) \/ StartPublishLabel(p)
    PROVE  IInv'
<1>1. TypeInv'
  BY NextType DEF IInv, Next, Run
<1>2. UNCHANGED liveVars
  BY DEF vars, Curate, CuratorSetLabel, CuratorIngestNlp, CuratorRemove, Fail,
         StartPublish, StartUnpublish, StartPublishLabel, Start
<1>3. Integrity' /\ LabelIndexAgrees'
  BY <1>2 DEF IInv, Integrity, LabelIndexAgrees, liveVars, RowsOf, LemmaRows,
              LabelRows, Exists
<1>4. OnePerDocument' /\ \A p \in Procs : Progress(p)'
  <2>1. CASE UNCHANGED <<pc, job>>
    BY <1>2, <2>1
       DEF IInv, OnePerDocument, Progress, Active, Doc, liveVars, RowsOf,
           LemmaRows, LabelRows, Exists, Unlabelled, Unindexed
  <2>2. ASSUME NEW p \in Procs, Fail(p) PROVE OnePerDocument' /\ \A q \in Procs : Progress(q)'
    BY <1>2, <2>2
       DEF IInv, OnePerDocument, Progress, Active, Doc, liveVars, RowsOf,
           LemmaRows, LabelRows, Exists, Unlabelled, Unindexed, Fail, Goto,
           Stopped, TypeInv, TypeOK
  <2>3. ASSUME NEW p \in Procs,
               StartPublish(p) \/ StartUnpublish(p) \/ StartPublishLabel(p)
        PROVE  OnePerDocument' /\ \A q \in Procs : Progress(q)'
    <3>1. PICK cmd \in {"publish", "unpublish", "publish-label"}, d \in Docs,
               opts \in [force : BOOLEAN, move : BOOLEAN],
               first \in {"pub_read_nlp", "unp_exists", "lab_exists"} :
             Start(p, cmd, d, opts, first)
      BY <2>3, PublicationAssumption
         DEF StartPublish, StartUnpublish, StartPublishLabel, NoOptions
    <3>2. /\ pc' = [pc EXCEPT ![p] = first]
          /\ job'[p].doc = d /\ job'[p].ids = {}
          /\ \A q \in Procs \ {p} : job'[q] = job[q]
          /\ \A q \in Procs : Active(q) => Doc(q) # d
      BY <3>1 DEF Start, Goto, Remember, IInv, TypeInv, TypeOK
    <3>3. OnePerDocument'
      BY <3>2 DEF IInv, OnePerDocument, Active, Doc, TypeInv, TypeOK
    <3>4. \A q \in Procs : Progress(q)'
      BY <1>2, <3>2
         DEF IInv, Progress, Doc, liveVars, RowsOf, LemmaRows, LabelRows,
             Exists, Unlabelled, Unindexed, TypeInv, TypeOK
    <3> QED BY <3>3, <3>4
  <2> QED BY <2>1, <2>2, <2>3
          DEF vars, Curate, CuratorSetLabel, CuratorIngestNlp, CuratorRemove
<1> QED BY <1>1, <1>3, <1>4 DEF IInv

\* The invariant is inductive.
LEMMA InvInductive ==
    ASSUME Exclusive
    PROVE  /\ Init => IInv
           /\ IInv /\ [Next]_vars => IInv'
<1>1. Init => IInv
  <2> SUFFICES ASSUME Init PROVE IInv
    OBVIOUS
  <2>1. \A p \in Procs : pc[p] = "ready"
    BY DEF Init
  <2>2. OnePerDocument /\ \A p \in Procs : Progress(p)
    BY <2>1 DEF OnePerDocument, Active, Stopped, Progress
  <2>3. Integrity /\ LabelIndexAgrees
    BY DEF Init, LiveInit, Integrity, LabelIndexAgrees, LemmaRows, LabelRows
  <2> QED BY <2>2, <2>3, InitType DEF IInv
<1>2. IInv /\ [Next]_vars => IInv'
  BY ProceedInv, OtherInv DEF Next, Run
<1> QED BY <1>1, <1>2

\* No row of the live tables is ever orphaned, whatever crashes do and whether
\* SQLite enforces foreign keys or not, as long as one command at a time works
\* on a document.
THEOREM IntegrityHolds == Exclusive => (Spec => []Integrity)
<1> SUFFICES ASSUME Exclusive PROVE Spec => []Integrity
  OBVIOUS
<1>1. IInv => Integrity
  BY DEF IInv
<1> QED BY <1>1, InvInductive, PTL DEF Spec

\* Under the same condition the label index gives a document exactly the
\* labels of its docs row, or none, even when a publish is resumed or a
\* publish-label crashes between its three transactions.
THEOREM LabelIndexHolds == Exclusive => (Spec => []LabelIndexAgrees)
<1> SUFFICES ASSUME Exclusive PROVE Spec => []LabelIndexAgrees
  OBVIOUS
<1>1. IInv => LabelIndexAgrees
  BY DEF IInv
<1> QED BY <1>1, InvInductive, PTL DEF Spec

\* With foreign keys enforced the constraints hold without that condition:
\* SQLite refuses the transaction that would orphan a row.
THEOREM ForeignKeysSuffice == ForeignKeys => (Spec => []Integrity)
<1> SUFFICES ASSUME ForeignKeys PROVE Spec => []Integrity
  OBVIOUS
<1>1. Init => TypeInv /\ Integrity
  BY InitType DEF Init, LiveInit, Integrity, LemmaRows, LabelRows
<1>2. TypeInv /\ Integrity /\ [Next]_vars => (TypeInv /\ Integrity)'
  <2> SUFFICES ASSUME TypeInv, Integrity, [Next]_vars PROVE TypeInv' /\ Integrity'
    OBVIOUS
  <2>1. TypeInv'
    BY NextType
  <2> USE DEF Integrity, RowsOf, Exists, LemmaRows, LabelRows, Rowids,
              TypeInv, TypeOK, LiveTypeOK
  <2>2. CASE UNCHANGED liveVars
    BY <2>1, <2>2 DEF liveVars
  <2>3. ASSUME NEW p \in Procs, Proceed(p) PROVE Integrity'
    <3> DEFINE d == Doc(p)
    <3>1. CASE UNCHANGED liveVars
      BY <2>2, <3>1
    <3>2. CASE WriteMeta(d, job[p].labels) \/ UpdateLabels(d, job[p].labels)
      BY <3>2 DEF WriteMeta, UpdateLabels
    <3>3. CASE pc[p] = "pub_write_sentences" /\ WriteNlpData(d, job[p].nlp)
      <4>1. job[p].nlp \in Nlps
        BY <3>3 DEF PayloadRead, PublishPCs
      <4>2. PICK top \in 0 .. MaxRowid :
              sentences' =
                [r \in DOMAIN sentences \cup (top + 1 .. top + NumSentences[job[p].nlp]) |->
                  IF r \in DOMAIN sentences
                  THEN sentences[r]
                  ELSE [doc |-> d, sid |-> r - top - 1, nlp |-> job[p].nlp]]
        BY <3>3 DEF WriteNlpData
      <4>3. \A r \in DOMAIN sentences' \ DOMAIN sentences :
              sentences'[r].doc = d /\ Exists(d)
        BY <3>3, <4>1, <4>2, DocStoreAssumption DEF WriteNlpData
      <4> QED BY <3>3, <4>2, <4>3 DEF WriteNlpData
    <3>4. CASE WriteLabelsOptimization(d, job[p].ids)
      BY <3>4 DEF WriteLabelsOptimization
    <3>5. CASE WriteLemmaOptimization(d, job[p].nlp)
      BY <3>5 DEF WriteLemmaOptimization
    <3>6. CASE DeleteLemmaOptimization(d)
      BY <3>6 DEF DeleteLemmaOptimization
    <3>7. CASE DeleteLabelsOptimization(d)
      BY <3>7 DEF DeleteLabelsOptimization
    <3>8. CASE DeleteNlpData(d)
      BY <3>8 DEF DeleteNlpData
    <3>9. CASE DeleteMeta(d)
      BY <3>9 DEF DeleteMeta
    <3> QED
      BY <2>3, <3>1, <3>2, <3>3, <3>4, <3>5, <3>6, <3>7, <3>8, <3>9, LiveEffects
  <2> QED BY <2>1, <2>2, <2>3
          DEF vars, Next, Run, Curate, CuratorSetLabel, CuratorIngestNlp,
              CuratorRemove, Fail, StartPublish, StartUnpublish,
              StartPublishLabel, Start
<1>3. TypeInv /\ Integrity => Integrity
  OBVIOUS
<1> QED BY <1>1, <1>2, <1>3, PTL DEF Spec

\* The step that ends a command with success is a step of the command itself.
LEMMA OnlyProceedFinishes ==
    ASSUME TypeInv, Next, NEW p \in Procs, NEW cmd, Finishes(p, cmd)
    PROVE  Proceed(p)
<1>1. CASE Curate
  BY <1>1 DEF Curate, CuratorSetLabel, CuratorIngestNlp, CuratorRemove,
              Finishes, Active, Stopped
<1>2. ASSUME NEW q \in Procs,
             \/ StartPublish(q) \/ StartUnpublish(q)
             \/ StartPublishLabel(q) \/ Fail(q)
      PROVE  FALSE
  BY <1>2 DEF StartPublish, StartUnpublish, StartPublishLabel, Start, Fail, Goto,
              Finishes, Active, Stopped, TypeInv, TypeOK
<1>3. ASSUME NEW q \in Procs, Proceed(q), q # p PROVE FALSE
  BY <1>3, OthersUnmoved DEF Finishes, Active, Stopped
<1> QED BY <1>1, <1>2, <1>3 DEF Next, Run

-----------------------------------------------------------------------------
(* What a command has done when it reports success                         *)

\* A running command is at a line of its own handler.
AtOwnLine ==
    \A p \in Procs :
        /\ pc[p] \in PublishPCs => job[p].cmd = "publish"
        /\ pc[p] \in UnpublishPCs => job[p].cmd = "unpublish"
        /\ pc[p] \in LabelPCs => job[p].cmd = "publish-label"

\* Every command is at one of its own lines.
LEMMA AtOwnLineInductive ==
    /\ Init => AtOwnLine
    /\ TypeInv /\ AtOwnLine /\ [Next]_vars => AtOwnLine'
<1> USE DEF AtOwnLine, PublishPCs, UnpublishPCs, LabelPCs
<1>1. Init => AtOwnLine
  BY DEF Init
<1>2. ASSUME TypeInv, AtOwnLine, [Next]_vars PROVE AtOwnLine'
  <2>1. CASE UNCHANGED <<pc, job>>
    BY <1>2, <2>1
  <2>2. ASSUME NEW p \in Procs, Fail(p) PROVE AtOwnLine'
    BY <1>2, <2>2 DEF Fail, Goto, TypeInv, TypeOK
  <2>3. ASSUME NEW p \in Procs,
               StartPublish(p) \/ StartUnpublish(p) \/ StartPublishLabel(p)
        PROVE  AtOwnLine'
    BY <1>2, <2>3 DEF StartPublish, StartUnpublish, StartPublishLabel, Start, Goto,
                      Remember, TypeInv, TypeOK
  <2>4. ASSUME NEW p \in Procs, Proceed(p) PROVE AtOwnLine'
    <3> USE DEF Step, Branch, Goto, Remember, TypeInv, TypeOK, Job
    <3>1. CASE PublishStep(p)
      BY <1>2, <3>1 DEF PublishStep, PubReadNlp, PubReadMeta, PubExists,
         PubWriteMeta, PubHasSentences, PubWriteSentences, PubHasLabels,
         PubWriteLabels, PubHasLemmas, PubWriteLemmas, PubClear, AfterLemmas
    <3>2. CASE UnpublishStep(p)
      BY <1>2, <3>2 DEF UnpublishStep, UnpExists, UnpHasLemmas, UnpDeleteLemmas,
         UnpHasLabels, UnpDeleteLabels, UnpHasSentences, UnpDeleteSentences,
         UnpExistsAgain, UnpDeleteMeta
    <3>3. CASE PublishLabelStep(p)
      BY <1>2, <3>3 DEF PublishLabelStep, LabExists, LabReadMeta, LabDelete,
         LabUpdate, LabWrite
    <3> QED BY <2>4, <3>1, <3>2, <3>3 DEF Proceed
  <2> QED BY <1>2, <2>1, <2>2, <2>3, <2>4
          DEF vars, Next, Run, Curate, CuratorSetLabel, CuratorIngestNlp, CuratorRemove
<1> QED BY <1>1, <1>2

\* Where a command can end with success.
LEMMA LastLines ==
    ASSUME TypeInv, AtOwnLine, Next, NEW p \in Procs
    PROVE  /\ Finishes(p, "unpublish") =>
                UnpExists(p) \/ UnpExistsAgain(p) \/ UnpDeleteMeta(p)
           /\ Finishes(p, "publish-label") => LabExists(p) \/ LabWrite(p)
<1> USE DEF Finishes, AtOwnLine, Step, Branch, Goto, TypeInv, TypeOK,
            PublishPCs, UnpublishPCs, LabelPCs
<1>1. CASE PublishStep(p)
  BY <1>1 DEF PublishStep, PubReadNlp, PubReadMeta, PubExists,
     PubWriteMeta, PubHasSentences, PubWriteSentences, PubHasLabels,
     PubWriteLabels, PubHasLemmas, PubWriteLemmas, PubClear
<1>2. CASE UnpublishStep(p)
  BY <1>2 DEF UnpublishStep, UnpExists, UnpHasLemmas, UnpDeleteLemmas,
     UnpHasLabels, UnpDeleteLabels, UnpHasSentences, UnpDeleteSentences,
     UnpExistsAgain, UnpDeleteMeta
<1>3. CASE PublishLabelStep(p)
  BY <1>3 DEF PublishLabelStep, LabExists, LabReadMeta, LabDelete, LabUpdate, LabWrite
<1> QED BY <1>1, <1>2, <1>3, OnlyProceedFinishes DEF Proceed

\* An unpublish that reports success has removed the docs row and every
\* sentence; by Integrity no index row is left either.
THEOREM UnpublishRemovesAll == Exclusive => (Spec => UnpublishLeavesNothing)
<1> SUFFICES ASSUME Exclusive PROVE Spec => UnpublishLeavesNothing
  OBVIOUS
<1> DEFINE Gone == \A p \in Procs : Finishes(p, "unpublish") =>
                     (~Exists(Doc(p)) /\ ~HasSentences(Doc(p)))'
<1>1. ASSUME IInv, AtOwnLine, Next, NEW p \in Procs, Finishes(p, "unpublish")
      PROVE  (~Exists(Doc(p)) /\ ~HasSentences(Doc(p)))'
  <2>1. UnpExists(p) \/ UnpExistsAgain(p) \/ UnpDeleteMeta(p)
    BY <1>1, LastLines DEF IInv
  <2>2. Doc(p)' = Doc(p)
    BY <2>1 DEF UnpExists, UnpExistsAgain, UnpDeleteMeta, Doc
  <2> USE DEF Finishes, Branch, Step, Goto, Exists, HasSentences, RowsOf, liveVars,
              IInv, TypeInv, TypeOK
  <2>3. CASE UnpExists(p)
    BY <1>1, <2>2, <2>3 DEF UnpExists, Integrity
  <2>4. CASE UnpExistsAgain(p)
    BY <1>1, <2>2, <2>4 DEF UnpExistsAgain, Progress
  <2>5. CASE UnpDeleteMeta(p)
    BY <1>1, <2>2, <2>5 DEF UnpDeleteMeta, DeleteMeta, Progress
  <2> QED BY <2>1, <2>3, <2>4, <2>5
<1>2. IInv /\ AtOwnLine /\ [Next]_vars => [Gone]_vars
  BY <1>1
<1>3. IInv => TypeInv
  BY DEF IInv
<1> QED BY <1>2, <1>3, InvInductive, AtOwnLineInductive, PTL
        DEF Spec, UnpublishLeavesNothing

\* A publish-label that reports success on a stored document leaves its docs
\* row and the label index of every sentence at the labels it read.
THEOREM PublishLabelRestores == Exclusive => (Spec => PublishLabelHeals)
<1> SUFFICES ASSUME Exclusive PROVE Spec => PublishLabelHeals
  OBVIOUS
<1> DEFINE Healed == \A p \in Procs :
             Finishes(p, "publish-label") /\ pc[p] # "lab_exists" =>
              (/\ docs[Doc(p)] = job[p].labels
               /\ \A r \in RowsOf(Doc(p)), l \in Labels :
                    sentence_labels[r][l] = IF l \in docs[Doc(p)] THEN 1 ELSE 0)'
<1>1. ASSUME IInv, AtOwnLine, Next, NEW p \in Procs,
             Finishes(p, "publish-label"), pc[p] # "lab_exists"
      PROVE  (/\ docs[Doc(p)] = job[p].labels
              /\ \A r \in RowsOf(Doc(p)), l \in Labels :
                   sentence_labels[r][l] = IF l \in docs[Doc(p)] THEN 1 ELSE 0)'
  <2>1. pc[p] = "lab_write" /\ LabWrite(p)
    BY <1>1, LastLines DEF IInv, LabExists, LabWrite, Branch, Step
  <2>2. UNCHANGED <<docs, sentences, job>> /\ Doc(p)' = Doc(p)
    BY <2>1 DEF LabWrite, WriteLabelsOptimization, Doc
  <2>3. job[p].ids = docs[Doc(p)] /\ job[p].labels = docs[Doc(p)]
    BY <1>1, <2>1 DEF IInv, Progress
  <2>4. \A r \in RowsOf(Doc(p)), l \in Labels : sentence_labels[r][l] = 0
    BY <1>1, <2>1 DEF IInv, Progress, Unlabelled, RowsOf, LabelRows, Rowids,
                      TypeInv, TypeOK, LiveTypeOK
  <2>5. \A r \in RowsOf(Doc(p)), l \in Labels :
          sentence_labels'[r][l] = IF l \in docs[Doc(p)] THEN 1 ELSE 0
    BY <1>1, <2>1, <2>3, <2>4
       DEF LabWrite, WriteLabelsOptimization, RowsOf, IInv, TypeInv, TypeOK, LiveTypeOK
  <2> QED BY <2>2, <2>3, <2>5 DEF RowsOf
<1>2. IInv /\ AtOwnLine /\ [Next]_vars => [Healed]_vars
  BY <1>1
<1>3. IInv => TypeInv
  BY DEF IInv
<1> QED BY <1>2, <1>3, InvInductive, AtOwnLineInductive, PTL
        DEF Spec, PublishLabelHeals
-----------------------------------------------------------------------------
(* Wholeness: what it takes of the operator, and of the payloads           *)

\* The operating assumptions: the NLP of a document is not run again with another
\* result, and a payload has at least one sentence.
StablePayloads == "nlp" \notin Curation \/ \A v, w \in Nlps : v = w
AllHaveSentences == \A v \in Nlps : NumSentences[v] > 0

\* The rows of a document are the sentences of one payload, each once.
WholeRows(d, v) ==
    /\ \A r \in RowsOf(d) : sentences[r].nlp = v
    /\ {sentences[r].sid : r \in RowsOf(d)} = SentenceIds(v)
    /\ \A r, q \in RowsOf(d) : sentences[r].sid = sentences[q].sid => r = q
Stored(d) == RowsOf(d) = {} \/ \E v \in Nlps : WholeRows(d, v)

\* What a publish has reached when it runs its next transaction.
Reached(p) ==
    LET d == Doc(p) IN
    /\ pc[p] \in {"pub_has_labels", "pub_write_labels", "pub_has_lemmas",
                  "pub_write_lemmas", "pub_clear"}
        => Exists(d) /\ (AllHaveSentences => HasSentences(d))
    /\ pc[p] = "pub_write_lemmas" => Unindexed(d)
    /\ pc[p] = "pub_clear" => (AllHaveSentences => HasLemmaOptimization(d))

WInv ==
    /\ IInv
    /\ AtOwnLine
    /\ \A d \in Docs : Stored(d)
    /\ \A p \in Procs : Reached(p)

-----------------------------------------------------------------------------
(* Documents are stored whole                                              *)

\* No command touches a sentence of a document it does not work on.
LEMMA OtherSentencesKept ==
    ASSUME TypeInv, NEW p \in Procs, Proceed(p), NEW e \in Docs, e # Doc(p)
    PROVE  /\ RowsOf(e)' = RowsOf(e)
           /\ \A r \in RowsOf(e) : sentences'[r] = sentences[r]
<1>1. RowsOf(e)' = RowsOf(e)
  BY OtherDocumentsUntouched DEF Untouched
<1>2. CASE UNCHANGED sentences
  BY <1>1, <1>2
<1>3. CASE WriteNlpData(Doc(p), job[p].nlp)
  BY <1>1, <1>3 DEF WriteNlpData, RowsOf
<1>4. CASE DeleteNlpData(Doc(p))
  BY <1>1, <1>4 DEF DeleteNlpData, RowsOf
<1> QED
  BY <1>2, <1>3, <1>4, LiveEffects
  DEF liveVars, WriteMeta, UpdateLabels, WriteLabelsOptimization, WriteLemmaOptimization,
      DeleteLemmaOptimization, DeleteLabelsOptimization, DeleteMeta

\* Whether a document is stored whole depends on its sentences only.
LEMMA StoredDependsOnRows ==
    ASSUME NEW d \in Docs, Stored(d), RowsOf(d)' = RowsOf(d),
           \A r \in RowsOf(d) : sentences'[r] = sentences[r]
    PROVE  Stored(d)'
<1>1. CASE RowsOf(d) = {}
  BY <1>1 DEF Stored
<1>2. ASSUME NEW v \in Nlps, WholeRows(d, v)
      PROVE  WholeRows(d, v)'
  BY <1>2 DEF WholeRows, SentenceIds
<1> QED
  BY <1>1, <1>2 DEF Stored

\* The rows that WriteNlpData adds to a document without any are a whole payload.
LEMMA WrittenWhole ==
    ASSUME TypeInv, NEW d \in Docs, NEW v \in Nlps, RowsOf(d) = {}, WriteNlpData(d, v)
    PROVE  WholeRows(d, v)'
<1>1. PICK top \in 0 .. MaxRowid :
        /\ IsTopRowid(top)
        /\ sentences' =
            [r \in DOMAIN sentences \cup (top + 1 .. top + NumSentences[v]) |->
                IF r \in DOMAIN sentences THEN sentences[r]
                ELSE [doc |-> d, sid |-> r - top - 1, nlp |-> v]]
  BY DEF WriteNlpData
<1>2. top \in Nat /\ NumSentences[v] \in Nat /\ DOMAIN sentences \subseteq Nat
  BY DocStoreAssumption DEF TypeInv, TypeOK, LiveTypeOK, Rowids
<1>3. \A r \in top + 1 .. top + NumSentences[v] : r \notin DOMAIN sentences
  BY <1>1, <1>2 DEF IsTopRowid
<1>4. RowsOf(d)' = top + 1 .. top + NumSentences[v]
  BY <1>1, <1>2, <1>3 DEF RowsOf
<1>5. \A r \in top + 1 .. top + NumSentences[v] :
        sentences'[r].nlp = v /\ sentences'[r].sid = r - (top + 1)
  <2> SUFFICES ASSUME NEW r \in top + 1 .. top + NumSentences[v]
               PROVE  sentences'[r].nlp = v /\ sentences'[r].sid = r - (top + 1)
    BY Zenon
  <2>1. sentences'[r] = [doc |-> d, sid |-> r - top - 1, nlp |-> v]
    BY <1>1, <1>3
  <2>2. r - top - 1 = r - (top + 1)
    BY <1>2
  <2> QED
    BY <2>1, <2>2
<1>6. {sentences'[r].sid : r \in RowsOf(d)'} = SentenceIds(v)
  <2>1. ASSUME NEW i \in SentenceIds(v)
        PROVE  \E r \in RowsOf(d)' : sentences'[r].sid = i
    <3>1. i + (top + 1) \in top + 1 .. top + NumSentences[v] /\ i + (top + 1) - (top + 1) = i
      BY <1>2 DEF SentenceIds
    <3>2. PICK r \in top + 1 .. top + NumSentences[v] : r - (top + 1) = i
      BY <1>2, <3>1 DEF SentenceIds
    <3>3. sentences'[r].sid = r - (top + 1)
      BY <1>5, <3>2, Zenon
    <3> QED
      BY <1>4, <3>2, <3>3
  <2>2. ASSUME NEW r \in RowsOf(d)'
        PROVE  sentences'[r].sid \in SentenceIds(v)
    <3>1. r \in top + 1 .. top + NumSentences[v] /\ r - (top + 1) \in SentenceIds(v)
      BY <1>2, <1>4 DEF SentenceIds
    <3>2. sentences'[r].sid = r - (top + 1)
      BY <1>5, <3>1, Zenon
    <3> QED
      BY <3>1, <3>2
  <2> QED
    BY <2>1, <2>2
<1>7. \A r, q \in RowsOf(d)' : sentences'[r].sid = sentences'[q].sid => r = q
  <2>1. \A r, q \in top + 1 .. top + NumSentences[v] : r - (top + 1) = q - (top + 1) => r = q
    BY <1>2
  <2> QED
    BY <1>4, <1>5, <2>1
<1> QED
  BY <1>4, <1>5, <1>6, <1>7 DEF WholeRows, SentenceIds

\* A transaction leaves every document without sentences or with those of one payload.
LEMMA StoredStep ==
    ASSUME IInv, NEW p \in Procs, Proceed(p), NEW e \in Docs, Stored(e)
    PROVE  Stored(e)'
<1> DEFINE d == Doc(p)
<1>1. CASE e # d
  BY <1>1, OtherSentencesKept, StoredDependsOnRows DEF IInv
<1>2. CASE e = d
  <2>1. CASE UNCHANGED sentences
    BY <2>1, StoredDependsOnRows DEF RowsOf
  <2>2. CASE pc[p] = "pub_write_sentences" /\ WriteNlpData(d, job[p].nlp)
    <3>1. PICK v \in Nlps : WriteNlpData(e, v)
      BY <1>2, <2>2 DEF IInv, TypeInv, PayloadRead, PublishPCs
    <3>2. RowsOf(e) = {}
      BY <1>2, <2>2 DEF IInv, Progress
    <3>3. WholeRows(e, v)'
      BY <3>1, <3>2, WrittenWhole DEF IInv
    <3> QED
      BY <3>3 DEF Stored
  <2>3. CASE DeleteNlpData(d)
    <3>1. RowsOf(e)' = {}
      BY <1>2, <2>3 DEF DeleteNlpData, RowsOf
    <3> QED
      BY <3>1 DEF Stored
  <2> QED
    BY <2>1, <2>2, <2>3, LiveEffects
    DEF liveVars, WriteMeta, UpdateLabels, WriteLabelsOptimization, WriteLemmaOptimization,
        DeleteLemmaOptimization, DeleteLabelsOptimization, DeleteMeta
<1> QED
  BY <1>1, <1>2

\* A document with sentences has a first one, and so the lemmas of any payload are of
\* use to it.
LEMMA LemmasOfFirst ==
    ASSUME TypeInv, NEW d \in Docs, Stored(d), HasSentences(d), AllHaveSentences,
           NEW v \in Nlps, WriteLemmaOptimization(d, v)
    PROVE  HasLemmaOptimization(d)'
<1>1. PICK w \in Nlps : WholeRows(d, w)
  BY DEF Stored, HasSentences
<1>2. 0 \in SentenceIds(w) /\ 0 \in SentenceIds(v)
  BY DocStoreAssumption DEF AllHaveSentences, SentenceIds
<1>3. PICK r \in RowsOf(d) : sentences[r].sid = 0
  BY <1>1, <1>2 DEF WholeRows
<1>4. r \in Rowids /\ sentence_lemmas[r][v] \in Nat
  BY DEF RowsOf, TypeInv, TypeOK, LiveTypeOK
<1>5. sentence_lemmas'[r][v] = sentence_lemmas[r][v] + 1
  BY <1>2, <1>3, <1>4 DEF WriteLemmaOptimization
<1>6. r \in LemmaRows'
  BY <1>4, <1>5 DEF LemmaRows, Rowids
<1>7. r \in RowsOf(d)'
  BY <1>3 DEF WriteLemmaOptimization, RowsOf
<1> QED
  BY <1>6, <1>7 DEF HasLemmaOptimization

\* What a publish has reached stays true as it goes on.
LEMMA OwnReached ==
    ASSUME WInv, NEW p \in Procs, Proceed(p)
    PROVE  Reached(p)'
<1> DEFINE d == Doc(p)
<1>0. /\ d \in Docs /\ Doc(p)' = d
      /\ p \in DOMAIN pc
      /\ Progress(p) /\ Reached(p) /\ Stored(d) /\ TypeInv
  BY OthersUnmoved DEF WInv, IInv, Doc, TypeInv, TypeOK, Job
<1> USE DEF Step, Branch, Goto
<1>1. CASE PubHasSentences(p)
  BY <1>0, <1>1 DEF PubHasSentences, HasSentences, RowsOf, Exists, liveVars, Reached, Progress
<1>2. CASE PubWriteSentences(p)
  <2>1. PICK v \in Nlps, e \in Docs : e = d /\ WriteNlpData(e, v)
    BY <1>0, <1>2 DEF PubWriteSentences, TypeInv, PayloadRead, PublishPCs
  <2>2. RowsOf(e) = {} /\ Exists(e)
    BY <1>0, <1>2, <2>1 DEF PubWriteSentences, Progress
  <2>3. WholeRows(e, v)'
    BY <1>0, <2>1, <2>2, WrittenWhole
  <2>4. AllHaveSentences => 0 \in SentenceIds(v)
    BY DocStoreAssumption DEF AllHaveSentences, SentenceIds
  <2>5. AllHaveSentences => HasSentences(e)'
    BY <2>3, <2>4 DEF WholeRows, HasSentences, SentenceIds
  <2>6. Exists(e)' /\ pc'[p] = "pub_has_labels" /\ Doc(p)' = e
    BY <1>0, <1>2, <2>1, <2>2 DEF PubWriteSentences, WriteNlpData, Exists
  <2> QED
    BY <2>5, <2>6 DEF Reached, AllHaveSentences
<1>3. CASE PubHasLabels(p) \/ PubHasLemmas(p)
  BY <1>0, <1>3
  DEF PubHasLabels, PubHasLemmas, AfterLemmas, HasSentences, HasLemmaOptimization, Unindexed,
      RowsOf, LemmaRows, Exists, liveVars, Reached
<1>4. CASE PubWriteLabels(p)
  BY <1>0, <1>4
  DEF PubWriteLabels, WriteLabelsOptimization, HasSentences, RowsOf, Exists, Reached
<1>5. CASE PubWriteLemmas(p)
  <2>1. PICK v \in Nlps, e \in Docs : e = d /\ WriteLemmaOptimization(e, v)
    BY <1>0, <1>5 DEF PubWriteLemmas, TypeInv, PayloadRead, PublishPCs
  <2>2. Exists(e) /\ (AllHaveSentences => HasSentences(e))
    BY <1>0, <1>5, <2>1 DEF PubWriteLemmas, Reached
  <2>3. AllHaveSentences => HasLemmaOptimization(e)'
    BY <1>0, <2>1, <2>2, LemmasOfFirst
  <2>4. Exists(e)' /\ (AllHaveSentences => HasSentences(e)')
    BY <2>1, <2>2 DEF WriteLemmaOptimization, Exists, HasSentences, RowsOf
  <2>5. Doc(p)' = e /\ pc'[p] \in {"pub_clear", "ok"}
    BY <1>0, <1>5, <2>1 DEF PubWriteLemmas, AfterLemmas
  <2> QED
    BY <2>3, <2>4, <2>5 DEF Reached, AllHaveSentences
<1>6. CASE ~(\/ PubHasSentences(p) \/ PubWriteSentences(p) \/ PubHasLabels(p)
             \/ PubWriteLabels(p) \/ PubHasLemmas(p) \/ PubWriteLemmas(p))
  <2>1. pc'[p] \notin {"pub_has_labels", "pub_write_labels", "pub_has_lemmas",
                       "pub_write_lemmas", "pub_clear"}
    BY <1>0, <1>6
    DEF Proceed, PublishStep, UnpublishStep, PublishLabelStep, PubReadNlp, PubReadMeta,
        PubExists, PubWriteMeta, PubClear, UnpExists, UnpHasLemmas, UnpDeleteLemmas,
        UnpHasLabels, UnpDeleteLabels, UnpHasSentences, UnpDeleteSentences, UnpExistsAgain,
        UnpDeleteMeta, LabExists, LabReadMeta, LabDelete, LabUpdate, LabWrite
  <2> QED
    BY <2>1 DEF Reached
<1> QED
  BY <1>1, <1>2, <1>3, <1>4, <1>5, <1>6

\* So does what the other commands have reached.
LEMMA OthersReached ==
    ASSUME WInv, NEW p \in Procs, Proceed(p), NEW q \in Procs, q # p
    PROVE  Reached(q)'
<1>1. CASE ~Active(q)
  BY <1>1, OthersUnmoved DEF WInv, IInv, Active, Stopped, Reached
<1>2. CASE Active(q)
  <2>1. PICK e \in Docs : e = Doc(q)
    BY DEF WInv, IInv, Doc, TypeInv, TypeOK, Job
  <2>2. pc'[q] = pc[q] /\ Doc(q)' = Doc(q)
    BY OthersUnmoved DEF WInv, IInv, Doc
  <2>3. Untouched(e)
    BY <1>2, <2>1, OthersUnmoved, OtherDocumentsUntouched DEF WInv, IInv, OnePerDocument
  <2>4. /\ HasLemmaOptimization(e) => HasLemmaOptimization(e)'
        /\ HasSentences(e) => HasSentences(e)'
        /\ Unindexed(e) => Unindexed(e)'
        /\ Exists(e) => Exists(e)'
    BY <2>3 DEF Untouched, HasLemmaOptimization, HasSentences, Unindexed, LemmaRows
  <2>5. Doc(q)' = e
    BY <2>1, <2>2
  <2> QED
    BY <2>1, <2>2, <2>4, <2>5 DEF WInv, Reached, AllHaveSentences
<1> QED
  BY <1>1, <1>2

\* The other steps change no table.
LEMMA OtherStepsKeepTables ==
    ASSUME NEW p \in Procs,
           \/ UNCHANGED vars \/ Curate \/ Fail(p)
           \/ StartPublish(p) \/ StartUnpublish(p) \/ StartPublishLabel(p)
    PROVE  UNCHANGED liveVars
  BY DEF vars, Curate, CuratorSetLabel, CuratorIngestNlp, CuratorRemove, Fail,
         StartPublish, StartUnpublish, StartPublishLabel, Start

\* The invariant holds at first and is kept by every step.
LEMMA WholeInductive ==
    ASSUME Exclusive
    PROVE  /\ Init => WInv
           /\ WInv /\ [Next]_vars => WInv'
<1>1. Init => WInv
  <2> SUFFICES ASSUME Init PROVE WInv
    OBVIOUS
  <2>1. \A d \in Docs : Stored(d)
    BY DEF Init, LiveInit, Stored, RowsOf
  <2>2. \A p \in Procs : Reached(p)
    BY DEF Init, Reached
  <2> QED
    BY <2>1, <2>2, InvInductive, AtOwnLineInductive DEF WInv
<1>2. WInv /\ [Next]_vars => WInv'
  <2> SUFFICES ASSUME WInv, [Next]_vars PROVE WInv'
    OBVIOUS
  <2>1. IInv' /\ AtOwnLine'
    BY InvInductive, AtOwnLineInductive DEF WInv, IInv
  <2>2. ASSUME NEW p \in Procs, Proceed(p) PROVE WInv'
    BY <2>1, <2>2, StoredStep, OwnReached, OthersReached DEF WInv
  <2>3. CASE UNCHANGED liveVars /\ UNCHANGED <<pc, job>>
    <3>1. \A d \in Docs : RowsOf(d)' = RowsOf(d) /\ Stored(d)'
      BY <2>3, StoredDependsOnRows DEF WInv, liveVars, RowsOf
    <3>2. \A p \in Procs : Reached(p)'
      BY <2>3 DEF WInv, Reached, liveVars, Exists, HasSentences, HasLemmaOptimization,
                  Unindexed, LemmaRows, RowsOf, Doc, AllHaveSentences
    <3> QED
      BY <2>1, <3>1, <3>2 DEF WInv
  <2>4. ASSUME NEW p \in Procs,
               Fail(p) \/ StartPublish(p) \/ StartUnpublish(p) \/ StartPublishLabel(p)
        PROVE  WInv'
    <3>1. UNCHANGED liveVars
      BY <2>4, OtherStepsKeepTables
    <3>2. \A d \in Docs : RowsOf(d)' = RowsOf(d) /\ Stored(d)'
      BY <3>1, StoredDependsOnRows DEF WInv, liveVars, RowsOf
    <3>3. /\ pc'[p] \in {"failed", "pub_read_nlp", "unp_exists", "lab_exists"}
          /\ \A q \in Procs \ {p} : pc'[q] = pc[q] /\ job'[q] = job[q]
      BY <2>4 DEF Fail, StartPublish, StartUnpublish, StartPublishLabel, Start, Goto,
                  Remember, WInv, IInv, TypeInv, TypeOK
    <3>4. \A q \in Procs : Reached(q)'
      BY <3>1, <3>3
      DEF WInv, Reached, liveVars, Exists, HasSentences, HasLemmaOptimization,
          Unindexed, LemmaRows, RowsOf, Doc, AllHaveSentences
    <3> QED
      BY <2>1, <3>2, <3>4 DEF WInv
  <2> QED
    BY <2>2, <2>3, <2>4
    DEF Next, Run, vars, liveVars, Curate, CuratorSetLabel, CuratorIngestNlp, CuratorRemove
<1> QED
  BY <1>1, <1>2

\* Where a publish can end with success.
LEMMA LastLinesOfPublish ==
    ASSUME TypeInv, AtOwnLine, Next, NEW p \in Procs, Finishes(p, "publish")
    PROVE  PubHasLemmas(p) \/ PubWriteLemmas(p) \/ PubClear(p)
<1> USE DEF Finishes, AtOwnLine, Step, Branch, Goto, TypeInv, TypeOK,
            PublishPCs, UnpublishPCs, LabelPCs
<1>1. CASE PublishStep(p)
  BY <1>1 DEF PublishStep, PubReadNlp, PubReadMeta, PubExists, PubWriteMeta,
     PubHasSentences, PubWriteSentences, PubHasLabels, PubWriteLabels
<1>2. CASE UnpublishStep(p)
  BY <1>2 DEF UnpublishStep, UnpExists, UnpHasLemmas, UnpDeleteLemmas, UnpHasLabels,
     UnpDeleteLabels, UnpHasSentences, UnpDeleteSentences, UnpExistsAgain, UnpDeleteMeta
<1>3. CASE PublishLabelStep(p)
  BY <1>3 DEF PublishLabelStep, LabExists, LabReadMeta, LabDelete, LabUpdate, LabWrite
<1> QED
  BY <1>1, <1>2, <1>3, OnlyProceedFinishes DEF Proceed

\* A publish that reports success has its document live.
LEMMA FinishedIsLive ==
    ASSUME AllHaveSentences, WInv, Next, NEW p \in Procs, Finishes(p, "publish")
    PROVE  (Exists(Doc(p)) /\ HasLemmaOptimization(Doc(p)))'
<1>1. PubHasLemmas(p) \/ PubWriteLemmas(p) \/ PubClear(p)
  BY LastLinesOfPublish DEF WInv, IInv
<1>2. PICK e \in Docs : e = Doc(p)
  BY DEF WInv, IInv, TypeInv, TypeOK, Job, Doc
<1>3. Doc(p)' = e
  BY <1>1, <1>2 DEF PubHasLemmas, PubWriteLemmas, PubClear, Doc
<1>4. Reached(p) /\ Stored(e)
  BY DEF WInv
<1>5. Exists(e)
  BY <1>1, <1>2, <1>4 DEF Reached, PubHasLemmas, PubWriteLemmas, PubClear, Branch, Step
<1>6. CASE PubHasLemmas(p)
  BY <1>2, <1>3, <1>5, <1>6
  DEF PubHasLemmas, Branch, Step, Goto, Finishes, Exists, HasLemmaOptimization, LemmaRows,
      RowsOf, liveVars, WInv, IInv, TypeInv, TypeOK
<1>7. CASE PubClear(p)
  BY <1>2, <1>3, <1>4, <1>5, <1>7
  DEF PubClear, Step, Reached, Exists, HasLemmaOptimization, LemmaRows, RowsOf, liveVars
<1>8. CASE PubWriteLemmas(p)
  <2>1. PICK v \in Nlps : WriteLemmaOptimization(e, v)
    BY <1>2, <1>8
    DEF PubWriteLemmas, Step, WInv, IInv, TypeInv, PayloadRead, PublishPCs
  <2>2. HasSentences(e)
    BY <1>2, <1>4, <1>8 DEF PubWriteLemmas, Step, Reached
  <2>3. HasLemmaOptimization(e)'
    BY <1>4, <2>1, <2>2, LemmasOfFirst DEF WInv, IInv
  <2>4. Exists(e)'
    BY <1>5, <2>1 DEF WriteLemmaOptimization, Exists
  <2> QED
    BY <1>3, <2>3, <2>4
<1> QED
  BY <1>1, <1>6, <1>7, <1>8

\* With one command at a time on a document, a publish that reports success leaves
\* its document live, whatever an earlier one left behind and whatever payload that
\* one was of, as long as payloads have sentences.
THEOREM PublishMakesLive == Exclusive /\ AllHaveSentences => (Spec => PublishGoesLive)
<1> SUFFICES ASSUME Exclusive, AllHaveSentences PROVE Spec => PublishGoesLive
  OBVIOUS
<1> DEFINE Live == \A p \in Procs : Finishes(p, "publish") =>
                     (Exists(Doc(p)) /\ HasLemmaOptimization(Doc(p)))'
<1>1. WInv /\ [Next]_vars => [Live]_vars
  BY FinishedIsLive
<1> QED
  BY <1>1, WholeInductive, PTL DEF Spec, PublishGoesLive

-----------------------------------------------------------------------------
(* Documents are indexed whole, as long as their payloads are stable       *)

\* Whatever is about document d is about payload v: what the corpus has, what is
\* stored, and what the commands have read.
IsOf(d, v) ==
    /\ InCorpus(d) => corpus[d].nlp \in {v, NoNlp}
    /\ \A r \in RowsOf(d) : sentences[r].nlp = v
    /\ \A p \in Procs : Doc(p) = d => job[p].nlp \in {v, NoNlp}

\* Every sentence is indexed, once, or none is.
IndexedAs(d, v) == Unindexed(d) \/ \A r \in RowsOf(d) : sentence_lemmas[r][v] = 1

OnePayload == \A d \in Docs : \E v \in Nlps : IsOf(d, v) /\ IndexedAs(d, v)

\* Of the corpus, a transaction of the three commands changes a payload only, with --move.
LEMMA CorpusEffects ==
    ASSUME NEW p \in Procs, Proceed(p)
    PROVE  UNCHANGED corpus \/ (pc[p] = "pub_clear" /\ ClearNlp(Doc(p)))
  BY DEF Proceed, PublishStep, UnpublishStep, PublishLabelStep, Step, PubReadNlp, PubReadMeta,
     PubExists, PubWriteMeta, PubHasSentences, PubWriteSentences, PubHasLabels,
     PubWriteLabels, PubHasLemmas, PubWriteLemmas, PubClear, UnpExists, UnpHasLemmas,
     UnpDeleteLemmas, UnpHasLabels, UnpDeleteLabels, UnpHasSentences, UnpDeleteSentences,
     UnpExistsAgain, UnpDeleteMeta, LabExists, LabReadMeta, LabDelete, LabUpdate, LabWrite

\* The payload a command works with is the one it has read from the corpus.
LEMMA PayloadEffects ==
    ASSUME TypeInv, NEW p \in Procs, Proceed(p)
    PROVE  \/ job'[p].nlp = job[p].nlp
           \/ InCorpus(Doc(p)) /\ job'[p].nlp = corpus[Doc(p)].nlp
<1> USE DEF TypeInv, TypeOK, Job, Remember
<1>1. CASE PubReadNlp(p)
  BY <1>1 DEF PubReadNlp, InCorpus
<1>2. CASE PubReadMeta(p) \/ PubWriteMeta(p) \/ LabReadMeta(p) \/ LabUpdate(p)
  BY <1>2 DEF PubReadMeta, PubWriteMeta, LabReadMeta, LabUpdate
<1> QED
  BY <1>1, <1>2
  DEF Proceed, PublishStep, UnpublishStep, PublishLabelStep, PubExists, PubHasSentences,
      PubWriteSentences, PubHasLabels, PubWriteLabels, PubHasLemmas, PubWriteLemmas,
      PubClear, UnpExists, UnpHasLemmas, UnpDeleteLemmas, UnpHasLabels, UnpDeleteLabels,
      UnpHasSentences, UnpDeleteSentences, UnpExistsAgain, UnpDeleteMeta, LabExists,
      LabDelete, LabWrite

\* A document that everything is of one payload of stays so through a transaction.
LEMMA IsOfStep ==
    ASSUME WInv, NEW p \in Procs, Proceed(p), NEW d \in Docs, NEW v \in Nlps, IsOf(d, v)
    PROVE  IsOf(d, v)'
<1>0. TypeInv
  BY DEF WInv, IInv
<1>1. InCorpus(d)' => corpus'[d].nlp \in {v, NoNlp}
  <2>1. CASE UNCHANGED corpus
    BY <2>1 DEF IsOf, InCorpus
  <2>2. ASSUME NEW e \in Docs, ClearNlp(e)
        PROVE  InCorpus(d)' => corpus'[d].nlp \in {v, NoNlp}
    BY <1>0, <2>2
    DEF IsOf, ClearNlp, SetRow, InCorpus, TypeInv, TypeOK, CorpusTypeOK, CorpusRow
  <2> QED
    BY <1>0, <2>1, <2>2, CorpusEffects DEF TypeInv, TypeOK, Job, Doc
<1>2. \A q \in Procs : (Doc(q) = d)' => job'[q].nlp \in {v, NoNlp}
  BY <1>0, OthersUnmoved, PayloadEffects DEF IsOf, Doc
<1>3. \A r \in RowsOf(d)' : sentences'[r].nlp = v
  <2>1. CASE UNCHANGED sentences
    BY <2>1 DEF IsOf, RowsOf
  <2>2. CASE d # Doc(p)
    BY <1>0, <2>2, OtherSentencesKept DEF IsOf
  <2>3. CASE /\ d = Doc(p) /\ pc[p] = "pub_write_sentences"
             /\ WriteNlpData(Doc(p), job[p].nlp)
    <3>1. RowsOf(d) = {} /\ job[p].nlp \in Nlps
      BY <1>0, <2>3 DEF WInv, IInv, Progress, TypeInv, PayloadRead, PublishPCs
    <3>2. job[p].nlp = v
      BY <2>3, <3>1, CorpusStoreAssumption DEF IsOf
    <3>3. WriteNlpData(d, v)
      BY <2>3, <3>2
    <3>4. WholeRows(d, v)'
      BY <1>0, <3>1, <3>3, WrittenWhole
    <3> QED
      BY <3>4 DEF WholeRows
  <2>4. CASE d = Doc(p) /\ DeleteNlpData(Doc(p))
    BY <2>4 DEF DeleteNlpData, RowsOf
  <2> QED
    BY <2>1, <2>2, <2>3, <2>4, LiveEffects
    DEF liveVars, WriteMeta, UpdateLabels, WriteLabelsOptimization, WriteLemmaOptimization,
        DeleteLemmaOptimization, DeleteLabelsOptimization, DeleteMeta
<1> QED
  BY <1>1, <1>2, <1>3 DEF IsOf

\* The sentences of a document that is stored whole are those of its payload.
LEMMA StoredIsOf ==
    ASSUME NEW d \in Docs, NEW v \in Nlps, Stored(d), IsOf(d, v), RowsOf(d) # {}
    PROVE  WholeRows(d, v)
  BY DEF Stored, IsOf, WholeRows

\* So does the index of its sentences: none of them is indexed, or each once.
LEMMA IndexedStep ==
    ASSUME WInv, NEW p \in Procs, Proceed(p), NEW d \in Docs, NEW v \in Nlps,
           IsOf(d, v), IndexedAs(d, v)
    PROVE  IndexedAs(d, v)'
<1>0. TypeInv /\ Integrity
  BY DEF WInv, IInv
<1>1. CASE UNCHANGED <<sentences, sentence_lemmas>>
  BY <1>1 DEF IndexedAs, Unindexed, RowsOf, LemmaRows
<1>2. CASE d # Doc(p)
  <2>1. Untouched(d)
    BY <1>0, <1>2, OtherDocumentsUntouched
  <2> QED
    BY <2>1 DEF Untouched, IndexedAs, Unindexed, LemmaRows
<1>3. CASE /\ d = Doc(p) /\ pc[p] = "pub_write_sentences"
           /\ WriteNlpData(Doc(p), job[p].nlp)
  <2>1. RowsOf(d)' \cap DOMAIN sentences = {}
    BY <1>0, <1>3 DEF WriteNlpData, WInv, IInv, Progress, RowsOf
  <2>2. UNCHANGED sentence_lemmas
    BY <1>3 DEF WriteNlpData
  <2> QED
    BY <1>0, <2>1, <2>2 DEF Integrity, LemmaRows, IndexedAs, Unindexed
<1>4. CASE d = Doc(p) /\ pc[p] = "pub_write_lemmas" /\ WriteLemmaOptimization(Doc(p), job[p].nlp)
  <2>1. job[p].nlp \in Nlps /\ Unindexed(d)
    BY <1>0, <1>4 DEF WInv, Reached, TypeInv, PayloadRead, PublishPCs
  <2>2. job[p].nlp = v
    BY <1>4, <2>1, CorpusStoreAssumption DEF IsOf
  <2>3. WriteLemmaOptimization(d, v)
    BY <1>4, <2>2
  <2>4. RowsOf(d)' = RowsOf(d)
    BY <2>3 DEF WriteLemmaOptimization, RowsOf
  <2>5. ASSUME NEW r \in RowsOf(d)
        PROVE  sentence_lemmas'[r][v] = 1
    <3>1. sentences[r].sid \in SentenceIds(v)
      BY <2>5, StoredIsOf DEF WInv, WholeRows
    <3>2. r \in Rowids /\ sentence_lemmas[r][v] \in Nat /\ r \notin LemmaRows
      BY <1>0, <2>1, <2>5 DEF TypeInv, TypeOK, LiveTypeOK, RowsOf, Unindexed
    <3>3. sentence_lemmas[r][v] = 0
      BY <3>2 DEF LemmaRows
    <3> QED
      BY <2>3, <3>1, <3>2, <3>3 DEF WriteLemmaOptimization
  <2> QED
    BY <2>4, <2>5 DEF IndexedAs
<1>5. CASE d = Doc(p) /\ DeleteLemmaOptimization(Doc(p))
  BY <1>0, <1>5
  DEF DeleteLemmaOptimization, IndexedAs, Unindexed, RowsOf, LemmaRows, Rowids, TypeInv, TypeOK,
      LiveTypeOK
<1>6. CASE d = Doc(p) /\ DeleteNlpData(Doc(p))
  BY <1>6 DEF DeleteNlpData, IndexedAs, Unindexed, RowsOf
<1> QED
  BY <1>1, <1>2, <1>3, <1>4, <1>5, <1>6, LiveEffects
  DEF liveVars, WriteMeta, UpdateLabels, WriteLabelsOptimization, DeleteLabelsOptimization,
      DeleteMeta

\* At first nothing is live, and each document has the payload of its row.
LEMMA OnePayloadInit == Init => OnePayload
<1> SUFFICES ASSUME Init, NEW d \in Docs
             PROVE  \E v \in Nlps : IsOf(d, v) /\ IndexedAs(d, v)
  BY DEF OnePayload
<1>1. corpus[d].nlp \in Nlps
  BY PublicationAssumption DEF Init, CorpusRow
<1>2. RowsOf(d) = {} /\ \A p \in Procs : job[p].nlp = NoNlp
  BY DEF Init, LiveInit, RowsOf
<1>3. IsOf(d, corpus[d].nlp) /\ IndexedAs(d, corpus[d].nlp)
  BY <1>2 DEF IsOf, IndexedAs
<1> QED
  BY <1>1, <1>3

\* As long as payloads are stable, no step mixes two of them in a document.
LEMMA OnePayloadStep ==
    ASSUME StablePayloads, WInv, OnePayload, [Next]_vars
    PROVE  OnePayload'
<1> SUFFICES ASSUME NEW d \in Docs
             PROVE  \E v \in Nlps : IsOf(d, v)' /\ IndexedAs(d, v)'
  BY DEF OnePayload
<1>0. TypeInv
  BY DEF WInv, IInv
<1>1. PICK v \in Nlps : IsOf(d, v) /\ IndexedAs(d, v)
  BY DEF OnePayload
<1>2. ASSUME NEW p \in Procs, Proceed(p)
      PROVE  IsOf(d, v)' /\ IndexedAs(d, v)'
  BY <1>1, <1>2, IsOfStep, IndexedStep
<1>3. ASSUME UNCHANGED liveVars,
             InCorpus(d)' => corpus'[d].nlp \in {v, NoNlp},
             \A q \in Procs : (Doc(q) = d)' => job'[q].nlp \in {v, NoNlp}
      PROVE  IsOf(d, v)' /\ IndexedAs(d, v)'
  BY <1>1, <1>3 DEF IsOf, IndexedAs, Unindexed, RowsOf, LemmaRows, liveVars
<1>4. ASSUME NEW p \in Procs,
             Fail(p) \/ StartPublish(p) \/ StartUnpublish(p) \/ StartPublishLabel(p)
      PROVE  IsOf(d, v)' /\ IndexedAs(d, v)'
  <2>1. UNCHANGED liveVars
    BY <1>4, OtherStepsKeepTables
  <2>2. UNCHANGED corpus
    BY <1>4 DEF Fail, StartPublish, StartUnpublish, StartPublishLabel, Start
  <2>3. \A q \in Procs : (Doc(q) = d)' => job'[q].nlp \in {v, NoNlp}
    BY <1>0, <1>1, <1>4
    DEF Fail, StartPublish, StartUnpublish, StartPublishLabel, Start, Remember, IsOf, Doc,
        TypeInv, TypeOK
  <2> QED
    BY <1>1, <1>3, <2>1, <2>2, <2>3 DEF IsOf, InCorpus
<1>5. CASE Curate
  <2>1. UNCHANGED liveVars /\ UNCHANGED job
    BY <1>5 DEF Curate, CuratorSetLabel, CuratorIngestNlp, CuratorRemove
  <2>2. InCorpus(d)' => corpus'[d].nlp \in {v, NoNlp}
    <3>1. CASE CuratorSetLabel
      BY <1>0, <1>1, <3>1
      DEF CuratorSetLabel, AddLabel, DeleteLabel, SetRow, IsOf, InCorpus, TypeInv, TypeOK,
          CorpusTypeOK, CorpusRow
    <3>2. CASE CuratorIngestNlp
      BY <1>0, <1>1, <3>2
      DEF CuratorIngestNlp, WriteNlp, SetRow, IsOf, InCorpus, TypeInv, TypeOK, CorpusTypeOK,
          CorpusRow, StablePayloads
    <3>3. CASE CuratorRemove
      BY <1>1, <3>3 DEF CuratorRemove, Delete, IsOf, InCorpus
    <3> QED
      BY <1>5, <3>1, <3>2, <3>3 DEF Curate
  <2> QED
    BY <1>1, <1>3, <2>1, <2>2 DEF IsOf, Doc
<1>6. CASE UNCHANGED vars
  BY <1>1, <1>3, <1>6 DEF vars, IsOf, InCorpus, Doc
<1> QED
  BY <1>1, <1>2, <1>4, <1>5, <1>6 DEF Next, Run

\* A document whose sentences are of one payload and indexed is that payload, whole.
LEMMA WholeIfIndexed ==
    ASSUME WInv, NEW d \in Docs, NEW v \in Nlps, IsOf(d, v), IndexedAs(d, v),
           HasLemmaOptimization(d)
    PROVE  WholePayload(d, v)
<1>1. RowsOf(d) # {} /\ ~Unindexed(d)
  BY DEF HasLemmaOptimization, Unindexed
<1>2. WholeRows(d, v)
  BY <1>1, StoredIsOf DEF WInv
<1> QED
  BY <1>1, <1>2 DEF IndexedAs, WholeRows, WholePayload

\* What searches can reach of a document is one whole payload, each sentence stored
\* once and indexed once, through crashes and resumptions, as long as one command at
\* a time works on a document and its payload does not change.
THEOREM DocumentsAreWhole ==
    Exclusive /\ StablePayloads => (Spec => []WholeDocuments)
<1> SUFFICES ASSUME Exclusive, StablePayloads PROVE Spec => []WholeDocuments
  OBVIOUS
<1>1. WInv /\ OnePayload => WholeDocuments
  BY WholeIfIndexed DEF OnePayload, WholeDocuments
<1>2. WInv /\ OnePayload /\ [Next]_vars => OnePayload'
  BY OnePayloadStep
<1> QED
  BY <1>1, <1>2, OnePayloadInit, WholeInductive, PTL DEF Spec
\* publish --move clears a payload only when all of it is live: nothing is lost
\* on the way from the corpus to the live database.
THEOREM MovesLoseNothing ==
    Exclusive /\ StablePayloads /\ AllHaveSentences => (Spec => MoveLosesNothing)
<1> SUFFICES ASSUME Exclusive, StablePayloads, AllHaveSentences
             PROVE  Spec => MoveLosesNothing
  OBVIOUS
<1> DEFINE Kept == \A d \in DOMAIN corpus \cap DOMAIN corpus' :
                     corpus[d].nlp # NoNlp /\ corpus'[d].nlp = NoNlp =>
                         HasLemmaOptimization(d) /\ WholePayload(d, corpus[d].nlp)
<1>1. ASSUME WInv, OnePayload, Next, NEW d \in DOMAIN corpus \cap DOMAIN corpus',
             corpus[d].nlp # NoNlp, corpus'[d].nlp = NoNlp
      PROVE  HasLemmaOptimization(d) /\ WholePayload(d, corpus[d].nlp)
  <2>0. TypeInv
    BY <1>1 DEF WInv, IInv
  <2>1. PICK p \in Procs : pc[p] = "pub_clear" /\ ClearNlp(Doc(p))
    <3>1. ~Curate
      <4>1. ~CuratorSetLabel
        BY <1>1, <2>0 DEF CuratorSetLabel, AddLabel, DeleteLabel, SetRow, InCorpus, TypeInv,
                          TypeOK, CorpusTypeOK, CorpusRow
      <4>2. ~CuratorIngestNlp
        <5>1. corpus[d] \in CorpusRow
          BY <1>1, <2>0 DEF TypeInv, TypeOK, CorpusTypeOK
        <5>2. \A v \in Nlps : [corpus[d] EXCEPT !.nlp = v, !.nlp_created = TRUE].nlp = v
          BY <5>1 DEF CorpusRow
        <5>3. ASSUME NEW e \in DOMAIN corpus, NEW v \in Nlps, WriteNlp(e, v) PROVE FALSE
          <6>1. corpus'[d] = corpus[d] \/ corpus'[d].nlp = v
            BY <1>1, <5>2, <5>3 DEF WriteNlp, SetRow
          <6> QED
            BY <1>1, <6>1, CorpusStoreAssumption
        <5> QED
          BY <5>3 DEF CuratorIngestNlp
      <4>3. ~CuratorRemove
        BY <1>1 DEF CuratorRemove, Delete
      <4> QED
        BY <4>1, <4>2, <4>3 DEF Curate
    <3> QED
      BY <1>1, <3>1, CorpusEffects
      DEF Next, Run, Fail, StartPublish, StartUnpublish, StartPublishLabel, Start
  <2>2. d = Doc(p) /\ d \in Docs
    BY <1>1, <2>0, <2>1 DEF ClearNlp, SetRow, TypeInv, TypeOK, CorpusTypeOK
  <2>3. HasLemmaOptimization(d)
    BY <1>1, <2>1, <2>2 DEF WInv, Reached
  <2>4. PICK v \in Nlps : IsOf(d, v) /\ IndexedAs(d, v)
    BY <1>1, <2>2 DEF OnePayload
  <2>5. corpus[d].nlp = v
    BY <1>1, <2>4 DEF IsOf, InCorpus
  <2> QED
    BY <1>1, <2>2, <2>3, <2>4, <2>5, WholeIfIndexed
<1>2. WInv /\ OnePayload /\ [Next]_vars => [Kept]_vars
  BY <1>1
<1>3. WInv /\ OnePayload /\ [Next]_vars => OnePayload'
  BY OnePayloadStep
<1> QED
  BY <1>2, <1>3, OnePayloadInit, WholeInductive, PTL DEF Spec, MoveLosesNothing

-----------------------------------------------------------------------------
(* Publication implements LiveCatalog                                      *)

\* The tables in the terms of the catalog.
CatalogShows ==
    \A d \in Docs, v \in Nlps : IsOf(d, v) /\ IndexedAs(d, v) =>
        Shown[d] = IF Unindexed(d) THEN Hidden ELSE v
CatalogFiles ==
    \A d \in Docs : Filed[d] \in SUBSET Labels /\ (Unlabelled(d) => Filed[d] = {})

\* A document is shown as the payload it is of as soon as a lemma is indexed.
LEMMA ShownIs == WInv => CatalogShows
<1> SUFFICES ASSUME WInv, NEW d \in Docs, NEW v \in Nlps, IsOf(d, v), IndexedAs(d, v)
             PROVE  Shown[d] = IF Unindexed(d) THEN Hidden ELSE v
  BY DEF CatalogShows
<1>1. CASE Unindexed(d)
  BY <1>1 DEF Shown, Unindexed, HasLemmaOptimization
<1>2. CASE ~Unindexed(d)
  <2>1. HasLemmaOptimization(d) /\ RowsOf(d) # {}
    BY <1>2 DEF Unindexed, HasLemmaOptimization
  <2>2. WholePayload(d, v)
    BY <2>1, WholeIfIndexed
  <2>3. \A w \in Nlps : WholePayload(d, w) => w = v
    BY <2>1 DEF WholePayload, IsOf
  <2> QED
    BY <1>2, <2>1, <2>2, <2>3 DEF Shown
<1> QED
  BY <1>1, <1>2

\* A document without label rows is filed under no label.
LEMMA FiledIs == IInv => CatalogFiles
<1> SUFFICES ASSUME IInv, NEW d \in Docs
             PROVE  Filed[d] \in SUBSET Labels /\ (Unlabelled(d) => Filed[d] = {})
  BY DEF CatalogFiles
<1>1. \A r \in RowsOf(d) : r \in Rowids /\ d = sentences[r].doc /\ Exists(d)
  BY DEF RowsOf, IInv, TypeInv, TypeOK, LiveTypeOK, Integrity
<1>2. CASE Unlabelled(d)
  <2>1. \A r \in RowsOf(d) : LabelsOf(r) = {}
    BY <1>1, <1>2 DEF Unlabelled, LabelRows, LabelsOf
  <2> QED
    BY <2>1 DEF Filed
<1>3. CASE ~Unlabelled(d)
  <2>1. RowsOf(d) # {} /\ d \in DOMAIN docs
    BY <1>1, <1>3 DEF Unlabelled, Exists
  <2>2. docs[d] \subseteq Labels
    BY <2>1 DEF IInv, TypeInv, TypeOK, LiveTypeOK
  <2>3. \A r \in RowsOf(d), l \in Labels :
          sentence_labels[r][l] = IF l \in docs[d] THEN 1 ELSE 0
    BY <1>3, <2>1 DEF IInv, LabelIndexAgrees, Unlabelled
  <2>4. \A r \in RowsOf(d) : LabelsOf(r) = docs[d]
    BY <2>2, <2>3 DEF LabelsOf
  <2> QED
    BY <1>3, <2>1, <2>2, <2>4 DEF Filed
<1> QED
  BY <1>2, <1>3

\* Both hold in the next state as well.
LEMMA NextIs == WInv' => CatalogShows' /\ CatalogFiles'
<1>1. WInv => CatalogShows /\ CatalogFiles
  BY ShownIs, FiledIs DEF WInv
<1> QED
  BY <1>1, PTL

\* What depends on the rows of a document only.
LEMMA FiledDependsOnRows ==
    ASSUME NEW d \in Docs, RowsOf(d)' = RowsOf(d),
           \A r \in RowsOf(d) : sentence_labels'[r] = sentence_labels[r]
    PROVE  Filed'[d] = Filed[d]
<1>1. \A r \in RowsOf(d) : LabelsOf(r)' = LabelsOf(r)
  BY DEF LabelsOf
<1> QED
  BY <1>1 DEF Filed

\* A transaction shows, hides, files or unfiles its document, or does none of these.
LEMMA OwnCatalogStep ==
    ASSUME WInv, WInv', NEW p \in Procs, Proceed(p), NEW d \in Docs, d = Doc(p),
           NEW v \in Nlps, IsOf(d, v), IndexedAs(d, v), IsOf(d, v)', IndexedAs(d, v)'
    PROVE  \/ /\ Filed'[d] = Filed[d]
              /\ Shown[d] = Hidden \/ Shown'[d] = Hidden \/ Shown'[d] = Shown[d]
           \/ /\ Shown'[d] = Shown[d]
              /\ Filed[d] = {} \/ Filed'[d] = {}
<1>0. /\ TypeInv /\ Integrity /\ IInv /\ IInv'
      /\ Shown[d] = IF Unindexed(d) THEN Hidden ELSE v
      /\ Shown'[d] = IF Unindexed(d)' THEN Hidden ELSE v
      /\ Unlabelled(d) => Filed[d] = {}
      /\ Unlabelled(d)' => Filed'[d] = {}
  BY ShownIs, FiledIs, NextIs DEF WInv, IInv, CatalogShows, CatalogFiles
<1>1. CASE UNCHANGED <<sentences, sentence_labels>>
  <2>1. Filed'[d] = Filed[d]
    BY <1>1, FiledDependsOnRows DEF RowsOf
  <2> QED
    BY <1>0, <2>1
<1>2. CASE UNCHANGED <<sentences, sentence_lemmas>>
  <2>1. Unindexed(d)' = Unindexed(d)
    BY <1>2 DEF Unindexed, RowsOf, LemmaRows
  <2>2. CASE UNCHANGED sentence_labels
    BY <1>1, <1>2, <2>2
  <2>3. CASE pc[p] \in {"pub_write_labels", "lab_write"}
    BY <1>0, <2>1, <2>3 DEF IInv, Progress
  <2>4. CASE DeleteLabelsOptimization(d)
    <3>1. Unlabelled(d)'
      BY <1>0, <2>4 DEF DeleteLabelsOptimization, Unlabelled, RowsOf, LabelRows, Rowids,
                        TypeInv, TypeOK, LiveTypeOK
    <3> QED
      BY <1>0, <2>1, <3>1
  <2> QED
    BY <2>2, <2>3, <2>4, LiveEffects
    DEF liveVars, WriteMeta, UpdateLabels, WriteNlpData, WriteLemmaOptimization,
        DeleteLemmaOptimization, DeleteNlpData, DeleteMeta
<1>3. CASE /\ pc[p] \in {"pub_write_sentences", "unp_delete_sentences"}
           /\ UNCHANGED <<sentence_lemmas, sentence_labels>>
  <2>1. /\ RowsOf(d) \cap (LemmaRows \cup LabelRows) = {}
        /\ RowsOf(d)' \cap (LemmaRows \cup LabelRows) = {}
    <3>1. CASE pc[p] = "pub_write_sentences" /\ WriteNlpData(Doc(p), job[p].nlp)
      BY <1>0, <3>1 DEF WriteNlpData, IInv, Progress, Integrity, RowsOf
    <3>2. CASE pc[p] = "unp_delete_sentences" /\ DeleteNlpData(Doc(p))
      BY <1>0, <3>2 DEF DeleteNlpData, IInv, Progress, RowsOf, Unindexed, Unlabelled
    <3>3. CASE UNCHANGED liveVars
      BY <1>0, <1>3, <3>3 DEF liveVars, RowsOf, IInv, Progress, Unindexed, Unlabelled
    <3> QED
      BY <1>3, <3>1, <3>2, <3>3, LiveEffects
  <2>2. /\ Unindexed(d) /\ Unindexed(d)'
        /\ Unlabelled(d) /\ Unlabelled(d)'
    BY <1>3, <2>1 DEF Unindexed, Unlabelled, LemmaRows, LabelRows
  <2> QED
    BY <1>0, <2>2
<1> QED
  BY <1>1, <1>2, <1>3, LiveEffects
  DEF liveVars, WriteMeta, UpdateLabels, WriteNlpData, WriteLabelsOptimization,
      WriteLemmaOptimization, DeleteLemmaOptimization, DeleteLabelsOptimization,
      DeleteNlpData, DeleteMeta

\* The other documents stay as they are in the catalog.
LEMMA OtherCatalogStep ==
    ASSUME WInv, WInv', NEW p \in Procs, Proceed(p), NEW e \in Docs, e # Doc(p),
           OnePayload, OnePayload'
    PROVE  Shown'[e] = Shown[e] /\ Filed'[e] = Filed[e]
<1>0. TypeInv
  BY DEF WInv, IInv
<1>1. PICK v \in Nlps : IsOf(e, v) /\ IndexedAs(e, v)
  BY DEF OnePayload
<1>2. Untouched(e)
  BY <1>0, OtherDocumentsUntouched
<1>3. IsOf(e, v)' /\ IndexedAs(e, v)'
  BY <1>1, IsOfStep, IndexedStep
<1>4. Unindexed(e)' = Unindexed(e)
  BY <1>2 DEF Untouched, Unindexed, LemmaRows
<1>5. Shown'[e] = Shown[e]
  BY <1>1, <1>3, <1>4, ShownIs, NextIs DEF CatalogShows
<1>6. Filed'[e] = Filed[e]
  BY <1>2, FiledDependsOnRows DEF Untouched
<1> QED
  BY <1>5, <1>6

\* Every transaction is a step of the catalog, or none that the catalog sees.
LEMMA CatalogStep ==
    ASSUME WInv, WInv', OnePayload, OnePayload', NEW p \in Procs, Proceed(p)
    PROVE  [Catalog!Next]_(Catalog!vars)
<1> USE DEF Catalog!Next, Catalog!vars, Catalog!Appear, Catalog!Disappear, Catalog!File,
            Catalog!Unfile
<1>1. PICK d \in Docs : d = Doc(p)
  BY DEF WInv, IInv, TypeInv, TypeOK, Job, Doc
<1>2. PICK v \in Nlps : IsOf(d, v) /\ IndexedAs(d, v)
  BY DEF OnePayload
<1>3. IsOf(d, v)' /\ IndexedAs(d, v)'
  BY <1>2, IsOfStep, IndexedStep
<1>4. /\ Shown' = [Shown EXCEPT ![d] = Shown'[d]]
      /\ Filed' = [Filed EXCEPT ![d] = Filed'[d]]
  <2>1. \A e \in Docs \ {d} : Shown'[e] = Shown[e] /\ Filed'[e] = Filed[e]
    BY <1>1, OtherCatalogStep
  <2>2. /\ Shown = [e \in Docs |-> Shown[e]] /\ Shown' = [e \in Docs |-> Shown'[e]]
        /\ Filed = [e \in Docs |-> Filed[e]] /\ Filed' = [e \in Docs |-> Filed'[e]]
    BY DEF Shown, Filed
  <2> QED
    BY <2>1, <2>2
<1>5. /\ Shown[d] \in Nlps \cup {Hidden} /\ Shown'[d] \in Nlps \cup {Hidden}
      /\ Filed'[d] \in SUBSET Labels
      /\ Shown = [Shown EXCEPT ![d] = Shown[d]] /\ Filed = [Filed EXCEPT ![d] = Filed[d]]
  BY <1>2, <1>3, ShownIs, NextIs DEF CatalogShows, CatalogFiles, Shown, Filed
<1>6. CASE /\ Filed'[d] = Filed[d]
           /\ Shown[d] = Hidden \/ Shown'[d] = Hidden \/ Shown'[d] = Shown[d]
  <2>1. Filed' = Filed
    BY <1>4, <1>5, <1>6
  <2>2. CASE Shown'[d] = Shown[d]
    BY <1>4, <1>5, <2>1, <2>2
  <2>3. CASE Shown[d] = Hidden /\ Shown'[d] \in Nlps
    BY <1>4, <2>1, <2>3
  <2>4. CASE Shown[d] # Hidden /\ Shown'[d] = Hidden
    BY <1>4, <2>1, <2>4
  <2> QED
    BY <1>5, <1>6, <2>2, <2>3, <2>4
<1>7. CASE /\ Shown'[d] = Shown[d]
           /\ Filed[d] = {} \/ Filed'[d] = {}
  <2>1. Shown' = Shown
    BY <1>4, <1>5, <1>7
  <2> QED
    BY <1>4, <1>5, <1>7, <2>1
<1> QED
  BY <1>1, <1>2, <1>3, <1>6, <1>7, OwnCatalogStep

\* The three commands implement the catalog: whatever crashes and is resumed, a
\* document appears and disappears whole and in one step, and is filed under a whole
\* set of labels or under none, for those who search.
THEOREM CatalogIsImplemented ==
    Exclusive /\ StablePayloads => (Spec => ImplementsCatalog)
<1> SUFFICES ASSUME Exclusive, StablePayloads PROVE Spec => ImplementsCatalog
  OBVIOUS
<1>1. Init => Catalog!Init
  BY DEF Init, LiveInit, Catalog!Init, Shown, Filed, HasLemmaOptimization, RowsOf
<1>2. WInv /\ OnePayload /\ [Next]_vars => OnePayload'
  BY OnePayloadStep
<1>3. WInv /\ WInv' /\ OnePayload /\ OnePayload' /\ [Next]_vars
      => [Catalog!Next]_(Catalog!vars)
  <2> SUFFICES ASSUME WInv, WInv', OnePayload, OnePayload', [Next]_vars
               PROVE  [Catalog!Next]_(Catalog!vars)
    OBVIOUS
  <2>1. CASE UNCHANGED liveVars
    <3>1. \A d \in Docs : /\ RowsOf(d)' = RowsOf(d)
                          /\ HasLemmaOptimization(d)' = HasLemmaOptimization(d)
                          /\ \A v \in Nlps : WholePayload(d, v)' = WholePayload(d, v)
      BY <2>1 DEF liveVars, RowsOf, HasLemmaOptimization, LemmaRows, WholePayload
    <3>2. Shown' = Shown
      BY <3>1 DEF Shown
    <3>3. Filed' = Filed
      <4>1. \A d \in Docs : Filed'[d] = Filed[d]
        BY <2>1, <3>1, FiledDependsOnRows DEF liveVars
      <4> QED
        BY <4>1 DEF Filed
    <3> QED
      BY <3>2, <3>3 DEF Catalog!vars
  <2>2. ASSUME NEW p \in Procs, Proceed(p)
        PROVE  [Catalog!Next]_(Catalog!vars)
    BY <2>2, CatalogStep
  <2>3. CASE ~UNCHANGED liveVars
    <3>1. ~UNCHANGED vars /\ ~Curate
      BY <2>3 DEF vars, Curate, CuratorSetLabel, CuratorIngestNlp, CuratorRemove
    <3>2. PICK p \in Procs : Run(p)
      BY <3>1 DEF Next
    <3>3. Proceed(p)
      BY <2>3, <3>2, OtherStepsKeepTables DEF Run
    <3> QED
      BY <2>2, <3>3
  <2> QED
    BY <2>1, <2>3
<1> QED
  BY <1>1, <1>2, <1>3, OnePayloadInit, WholeInductive, PTL
  DEF Spec, ImplementsCatalog, Catalog!Spec

-----------------------------------------------------------------------------
(* A batch of publishes                                                   *)

\* What is left of the list, and the document of the publish that runs.
ListInv ==
    /\ phase \in {"idle", "next", "publishing"}
    /\ todo \subseteq Docs
    /\ listed \subseteq Docs
    /\ phase = "publishing" =>
        /\ todo # {} /\ Doc(Batcher) = Current
        /\ job[Batcher].cmd = "publish"
        /\ pc[Batcher] \in PublishPCs \cup {"ok", "failed"}

\* The documents that are no longer to do are live, and so is the current one when
\* its publish has reported success.
DoneAreLive ==
    /\ phase # "idle" => \A d \in listed \ todo : HasLemmaOptimization(d)
    /\ phase = "publishing" /\ pc[Batcher] = "ok" => HasLemmaOptimization(Current)

BatchInv == WInv /\ ListInv /\ DoneAreLive

-----------------------------------------------------------------------------
(* Lemmas                                                                  *)

\* A list that is not empty has a first document.
LEMMA CurrentIsToDo ==
    ASSUME todo \subseteq Docs, todo # {}
    PROVE  Current \in todo
<1> DEFINE Places == {DocOrder[d] : d \in todo}
<1>1. Places \subseteq Nat /\ Places # {}
  BY BatchAssumption
<1>2. ASSUME NEW S \in SUBSET Nat, S # {}
      PROVE  \E i \in S : \A j \in S : i <= j
  <2>1. PICK i \in S : \A j \in S : ~(<<j, i>> \in OpToRel(<, Nat))
    BY <1>2, NatLessThanWellFounded, WFMin
  <2>2. \A j \in S : ~(j < i)
    BY <2>1 DEF OpToRel
  <2> QED
    BY <2>2
<1>3. PICK i \in Places : \A j \in Places : i <= j
  BY <1>1, <1>2, Zenon
<1>4. PICK d \in todo : \A e \in todo : DocOrder[d] <= DocOrder[e]
  BY <1>3
<1> QED
  BY <1>4 DEF Current

\* The curator's changes of the corpus are nothing to the commands.
LEMMA CorpusIsNothing ==
    ASSUME WInv, UNCHANGED <<liveVars, pc, job>>, CorpusTypeOK'
    PROVE  WInv'
<1>1. TypeInv'
  BY DEF WInv, IInv, TypeInv, TypeOK, LiveTypeOK, liveVars, PayloadRead
<1>2. IInv'
  BY <1>1 DEF WInv, IInv, Integrity, LabelIndexAgrees, OnePerDocument, Progress, Active, Doc,
              liveVars, RowsOf, LemmaRows, LabelRows, Exists, Unlabelled, Unindexed
<1>3. AtOwnLine'
  BY DEF WInv, AtOwnLine
<1>4. \A d \in Docs : RowsOf(d)' = RowsOf(d) /\ Stored(d)'
  BY StoredDependsOnRows DEF WInv, liveVars, RowsOf
<1>5. \A p \in Procs : Reached(p)'
  BY DEF WInv, Reached, liveVars, Exists, HasSentences, HasLemmaOptimization, Unindexed,
         LemmaRows, RowsOf, Doc, AllHaveSentences
<1> QED
  BY <1>2, <1>3, <1>4, <1>5 DEF WInv

\* Acknowledging keeps the rows of the corpus well formed.
LEMMA AcknowledgeType ==
    ASSUME CorpusTypeOK, Acknowledge
    PROVE  CorpusTypeOK'
<1>1. PICK d \in DOMAIN corpus : AckTxt(d) \/ AckNlp(d)
  BY DEF Acknowledge
<1>2. /\ [corpus[d] EXCEPT !.txt_ack = TRUE] \in CorpusRow
      /\ [corpus[d] EXCEPT !.nlp_ack = TRUE] \in CorpusRow
  BY <1>1 DEF CorpusTypeOK, CorpusRow
<1> QED
  BY <1>1, <1>2, SetRowType DEF AckTxt, AckNlp

\* No transaction of a publish takes a document out of the searches.
LEMMA PublishKeepsLive ==
    ASSUME TypeInv, NEW p \in Procs, PublishStep(p), NEW d \in Docs, HasLemmaOptimization(d)
    PROVE  HasLemmaOptimization(d)'
<1> USE DEF HasLemmaOptimization, RowsOf, LemmaRows
<1>1. CASE PubWriteSentences(p)
  BY <1>1 DEF PubWriteSentences, WriteNlpData
<1>2. CASE PubWriteLemmas(p)
  <2>1. PICK r \in RowsOf(d), v \in Nlps : r \in Rowids /\ sentence_lemmas[r][v] > 0
    OBVIOUS
  <2>2. sentence_lemmas[r][v] \in Nat
    BY <2>1 DEF TypeInv, TypeOK, LiveTypeOK
  <2>3. sentence_lemmas'[r][v] > 0
    BY <1>2, <2>1, <2>2 DEF PubWriteLemmas, WriteLemmaOptimization
  <2> QED
    BY <1>2, <2>1, <2>3 DEF PubWriteLemmas, WriteLemmaOptimization, Rowids
<1>3. CASE PubWriteMeta(p) \/ PubWriteLabels(p)
  BY <1>3 DEF PubWriteMeta, PubWriteLabels, WriteMeta, WriteLabelsOptimization
<1> QED
  BY <1>1, <1>2, <1>3
  DEF PublishStep, PubReadNlp, PubReadMeta, PubExists, PubHasSentences, PubHasLabels,
      PubHasLemmas, PubClear, liveVars

\* A publish stays the publish of its document until it has ended.
LEMMA PublishGoesOn ==
    ASSUME TypeInv, NEW p \in Procs, PublishStep(p)
    PROVE  /\ pc[p] \in PublishPCs
           /\ pc'[p] \in PublishPCs \cup {"ok"}
           /\ job'[p].cmd = job[p].cmd
           /\ Doc(p)' = Doc(p)
  BY DEF PublishStep, PubReadNlp, PubReadMeta, PubExists, PubWriteMeta, PubHasSentences,
         PubWriteSentences, PubHasLabels, PubWriteLabels, PubHasLemmas, PubWriteLemmas,
         PubClear, AfterLemmas, Branch, Step, Goto, Remember, Doc, PublishPCs, TypeInv,
         TypeOK, Job

-----------------------------------------------------------------------------
(* The invariant is inductive                                              *)

\* Every step of the batch and of the curator is one of Publication's commands, or
\* nothing to them.
LEMMA BatchKeepsCommands ==
    ASSUME Exclusive, BatchInv, [BatchNext]_batchVars
    PROVE  WInv'
<1>1. CASE Next \/ UNCHANGED vars
  BY <1>1, WholeInductive DEF BatchInv
<1>2. CASE Acknowledge
  BY <1>2, AcknowledgeType, CorpusIsNothing
  DEF BatchInv, WInv, IInv, TypeInv, TypeOK, Acknowledge
<1>3. CASE PublishNext
  <2>1. Current \in Docs
    BY <1>3, CurrentIsToDo DEF BatchInv, ListInv, PublishNext
  <2>2. StartPublish(Batcher)
    BY <1>3, <2>1, BatchAssumption DEF PublishNext, StartPublish
  <2> QED
    BY <1>1, <2>2, BatchAssumption DEF Next, Run
<1>4. CASE PublishOneStep \/ PublishOneFails
  BY <1>1, <1>4, BatchAssumption DEF PublishOneStep, PublishOneFails, Next, Run, Proceed
<1> QED
  BY <1>1, <1>2, <1>3, <1>4
  DEF BatchNext, BatchStep, batchVars, ListCandidates, GoOn, GiveUpBatch, FinishBatch,
      IngestAgain, Relabel, RemoveListed, Next, Curate

\* What the batch knows of its list stays true.
LEMMA BatchKeepsList ==
    ASSUME Exclusive, AllHaveSentences, BatchInv, [BatchNext]_batchVars
    PROVE  ListInv' /\ DoneAreLive'
<1> USE DEF ListInv, DoneAreLive
<1>0. /\ TypeInv /\ ListInv /\ DoneAreLive
      /\ DOMAIN corpus \subseteq Docs /\ Batcher \in Procs
  BY BatchAssumption DEF BatchInv, WInv, IInv, TypeInv, TypeOK, CorpusTypeOK
<1>1. ASSUME UNCHANGED liveVars, NEW d \in Docs
      PROVE  HasLemmaOptimization(d)' = HasLemmaOptimization(d)
  BY <1>1 DEF liveVars, HasLemmaOptimization, RowsOf, LemmaRows
<1>2. todo # {} => Current \in Docs
  BY <1>0, CurrentIsToDo
<1>3. todo' = todo => Current' = Current
  BY DEF Current
<1>4. CASE UNCHANGED <<liveVars, pc, job, phase, listed, todo>>
  BY <1>0, <1>1, <1>2, <1>3, <1>4 DEF Doc
<1>5. CASE ListCandidates
  BY <1>0, <1>5 DEF ListCandidates
<1>6. CASE PublishNext
  <2>1. /\ pc'[Batcher] = "pub_read_nlp" /\ Doc(Batcher)' = Current
        /\ job'[Batcher].cmd = "publish"
    BY <1>0, <1>6 DEF PublishNext, Start, Goto, Remember, Doc, TypeInv, TypeOK
  <2>2. UNCHANGED <<liveVars, listed, todo>> /\ todo # {} /\ phase = "next"
        /\ phase' = "publishing"
    BY <1>6 DEF PublishNext, Start
  <2> QED
    BY <1>0, <1>1, <1>3, <2>1, <2>2 DEF PublishPCs
<1>7. CASE PublishOneStep
  <2>1. UNCHANGED <<phase, listed, todo>> /\ PublishStep(Batcher) /\ phase = "publishing"
    BY <1>7 DEF PublishOneStep
  <2>2. \A d \in Docs : HasLemmaOptimization(d) => HasLemmaOptimization(d)'
    BY <1>0, <2>1, PublishKeepsLive
  <2>3. /\ pc[Batcher] \in PublishPCs /\ pc'[Batcher] \in PublishPCs \cup {"ok"}
        /\ job'[Batcher].cmd = job[Batcher].cmd /\ Doc(Batcher)' = Doc(Batcher)
    BY <1>0, <2>1, PublishGoesOn
  <2>4. ASSUME pc'[Batcher] = "ok"
        PROVE  HasLemmaOptimization(Doc(Batcher))'
    <3>1. Finishes(Batcher, "publish")
      BY <1>0, <2>1, <2>3, <2>4 DEF Finishes, Active, Stopped, PublishPCs
    <3>2. Next
      BY <1>0, <2>1 DEF Next, Run, Proceed
    <3> QED
      BY <1>0, <3>1, <3>2, FinishedIsLive DEF BatchInv
  <2>5. Doc(Batcher)' = Current'
    BY <1>0, <1>3, <2>1, <2>3
  <2>6. pc'[Batcher] = "ok" => HasLemmaOptimization(Current)'
    BY <2>4, <2>5 DEF HasLemmaOptimization, RowsOf
  <2> QED
    BY <1>0, <2>1, <2>2, <2>3, <2>5, <2>6
<1>8. CASE PublishOneFails
  <2>1. /\ UNCHANGED <<liveVars, job, phase, listed, todo>>
        /\ pc'[Batcher] = "failed"
    BY <1>0, <1>8 DEF PublishOneFails, Fail, Goto, TypeInv, TypeOK
  <2> QED
    BY <1>0, <1>1, <1>3, <2>1 DEF Doc
<1>9. CASE GoOn
  BY <1>0, <1>1, <1>2, <1>9 DEF GoOn, vars
<1>10. CASE GiveUpBatch \/ FinishBatch
  BY <1>0, <1>10 DEF GiveUpBatch, FinishBatch
<1> QED
  BY <1>4, <1>5, <1>6, <1>7, <1>8, <1>9, <1>10
  DEF BatchNext, BatchStep, batchVars, vars, Acknowledge, IngestAgain, Relabel, RemoveListed,
      CuratorIngestNlp, CuratorSetLabel, CuratorRemove

\* A batch that ends with success has brought every document it listed live: as
\* long as no other command works on those documents and payloads have sentences,
\* whatever stops, labels, payloads and removals come between its transactions.
THEOREM BatchesAreComplete ==
    Exclusive /\ AllHaveSentences => (BatchSpec => []BatchIsComplete)
<1> SUFFICES ASSUME Exclusive, AllHaveSentences PROVE BatchSpec => []BatchIsComplete
  OBVIOUS
<1>1. BatchInit => BatchInv
  BY WholeInductive DEF BatchInit, BatchInv, ListInv, DoneAreLive
<1>2. BatchInv /\ [BatchNext]_batchVars => BatchInv'
  BY BatchKeepsCommands, BatchKeepsList DEF BatchInv
<1>3. BatchInv => BatchIsComplete
  BY DEF BatchInv, ListInv, DoneAreLive, BatchIsComplete
<1> QED
  BY <1>1, <1>2, <1>3, PTL DEF BatchSpec
=============================================================================
