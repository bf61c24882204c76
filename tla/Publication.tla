----------------------------- MODULE Publication -----------------------------
(***************************************************************************)
(* The commands that move documents between the corpus and the live        *)
(* tables, as processes over the two stores:                               *)
(*                                                                         *)
(*   publish        publishOne (cmd/segrob/corpus_publish.go)              *)
(*   unpublish      liveUnpublishCommand (cmd/segrob/live_unpublish.go)    *)
(*   publish-label  corpusPublishLabelCommand                              *)
(*                    (cmd/segrob/corpus_publish_label.go)                 *)
(*                                                                         *)
(* Each command checks and writes in separate transactions, so there is    *)
(* one step per transaction, and other commands and the curator run        *)
(* between any two of them.  A command may stop between two transactions:  *)
(* a crash, a failed write to the terminal and a database error all leave  *)
(* the stores as the last commit left them.                                *)
(***************************************************************************)
EXTENDS DocStore, CorpusStore

CONSTANTS
    Procs,           \* command-line processes
    Commands,        \* the commands they run
    PublishOptions,  \* --force and --move of a publish
    Curation,        \* what the curator changes: "labels", "nlp", "rm"
    InitialRows,     \* what the corpus may hold of a document at first
    Exclusive,       \* TRUE: at most one command at a time works on a document
    Crashes          \* TRUE: a command may stop between two transactions

ASSUME PublicationAssumption ==
    /\ Commands \subseteq {"publish", "unpublish", "publish-label"}
    /\ PublishOptions \subseteq [force : BOOLEAN, move : BOOLEAN]
    /\ InitialRows \subseteq
        {row \in CorpusRow : row.nlp # NoNlp /\ row.nlp_created}
    /\ Exclusive \in BOOLEAN
    /\ Crashes \in BOOLEAN

VARIABLES
    pc,   \* pc[p]: the next transaction of process p
    job   \* job[p]: its command, its arguments and what it has read

vars == <<liveVars, corpus, pc, job>>

PublishPCs == {"pub_read_nlp", "pub_read_meta", "pub_exists", "pub_write_meta",
    "pub_has_sentences", "pub_write_sentences", "pub_has_labels",
    "pub_write_labels", "pub_has_lemmas", "pub_write_lemmas", "pub_clear"}
UnpublishPCs == {"unp_exists", "unp_has_lemmas", "unp_delete_lemmas",
    "unp_has_labels", "unp_delete_labels", "unp_has_sentences",
    "unp_delete_sentences", "unp_exists_again", "unp_delete_meta"}
LabelPCs == {"lab_exists", "lab_read_meta", "lab_delete", "lab_update",
    "lab_write"}
Stopped == {"ready", "ok", "failed"}

Job == [cmd : {"none", "publish", "unpublish", "publish-label"},
        doc : Docs, opts : [force : BOOLEAN, move : BOOLEAN],
        nlp : Nlps \cup {NoNlp}, labels : SUBSET Labels, ids : SUBSET Labels]

TypeOK ==
    /\ LiveTypeOK
    /\ CorpusTypeOK
    /\ pc \in [Procs -> PublishPCs \cup UnpublishPCs \cup LabelPCs \cup Stopped]
    /\ job \in [Procs -> Job]

\* The curator has ingested the documents and run the NLP on them.
Init ==
    /\ LiveInit
    /\ corpus \in [Docs -> InitialRows]
    /\ pc = [p \in Procs |-> "ready"]
    /\ job \in [Procs -> {j \in Job : /\ j.cmd = "none" /\ j.nlp = NoNlp
                                      /\ j.labels = {} /\ j.ids = {}
                                      /\ ~j.opts.force /\ ~j.opts.move}]

Doc(p) == job[p].doc
Active(p) == pc[p] \notin Stopped

Goto(p, l) == pc' = [pc EXCEPT ![p] = l]
Step(p, from, to) == pc[p] = from /\ Goto(p, to)
Branch(p, from, cond, yes, no) == Step(p, from, IF cond THEN yes ELSE no)
Remember(p, j) == job' = [job EXCEPT ![p] = j]

-----------------------------------------------------------------------------
(* Starting and stopping                                                   *)

Start(p, cmd, d, opts, first) ==
    /\ cmd \in Commands
    /\ ~Active(p)
    /\ Exclusive => \A q \in Procs : Active(q) => Doc(q) # d
    /\ Goto(p, first)
    /\ Remember(p, [cmd |-> cmd, doc |-> d, opts |-> opts, nlp |-> NoNlp,
                    labels |-> {}, ids |-> {}])
    /\ UNCHANGED <<liveVars, corpus>>

NoOptions == [force |-> FALSE, move |-> FALSE]

StartPublish(p) == \E d \in Docs, opts \in PublishOptions :
                      Start(p, "publish", d, opts, "pub_read_nlp")
StartUnpublish(p) == \E d \in Docs :
                      Start(p, "unpublish", d, NoOptions, "unp_exists")
StartPublishLabel(p) == \E d \in Docs :
                      Start(p, "publish-label", d, NoOptions, "lab_exists")

\* The early returns with an error, and the transactions SQLite refuses.
Refused(p) ==
    \/ /\ pc[p] = "pub_read_nlp"
       /\ InCorpus(Doc(p)) => corpus[Doc(p)].nlp = NoNlp
    \/ /\ pc[p] = "pub_read_meta"
       /\ InCorpus(Doc(p)) => ~job[p].opts.force /\ ~HasAck(Doc(p))
    \/ pc[p] = "pub_write_meta" /\ Exists(Doc(p))
    \/ /\ pc[p] = "pub_write_sentences"
       /\ \/ ForeignKeys /\ ~Exists(Doc(p))
          \/ \A top \in 0 .. MaxRowid : IsTopRowid(top) =>
                top + NumSentences[job[p].nlp] > MaxRowid
    \/ pc[p] = "lab_read_meta" /\ ~InCorpus(Doc(p))
    \/ /\ pc[p] = "unp_delete_sentences"
       /\ ForeignKeys /\ RowsOf(Doc(p)) \cap (LemmaRows \cup LabelRows) # {}
    \/ pc[p] = "unp_delete_meta" /\ ForeignKeys /\ HasSentences(Doc(p))

Fail(p) ==
    /\ Active(p)
    /\ Crashes \/ Refused(p)
    /\ Goto(p, "failed")
    /\ UNCHANGED <<liveVars, corpus, job>>

-----------------------------------------------------------------------------
(* publishOne                                                              *)

PubReadNlp(p) ==
    /\ Step(p, "pub_read_nlp", "pub_read_meta")
    /\ InCorpus(Doc(p))
    /\ corpus[Doc(p)].nlp # NoNlp
    /\ Remember(p, [job[p] EXCEPT !.nlp = corpus[Doc(p)].nlp])
    /\ UNCHANGED <<liveVars, corpus>>

\* A wrong variant, for mutation: --move clears the payload at once.
PubReadMetaMoving(p) ==
    /\ Step(p, "pub_read_meta", "pub_exists")
    /\ InCorpus(Doc(p))
    /\ job[p].opts.force \/ HasAck(Doc(p))
    /\ Remember(p, [job[p] EXCEPT !.labels = corpus[Doc(p)].labels])
    /\ IF job[p].opts.move THEN ClearNlp(Doc(p)) ELSE UNCHANGED corpus
    /\ UNCHANGED liveVars

PubReadMeta(p) ==
    /\ Step(p, "pub_read_meta", "pub_exists")
    /\ InCorpus(Doc(p))
    /\ job[p].opts.force \/ HasAck(Doc(p))
    /\ Remember(p, [job[p] EXCEPT !.labels = corpus[Doc(p)].labels])
    /\ UNCHANGED <<liveVars, corpus>>

\* When the row is there, labelIDs stays empty.
PubExists(p) ==
    /\ Branch(p, "pub_exists", Exists(Doc(p)), "pub_has_sentences", "pub_write_meta")
    /\ UNCHANGED <<liveVars, corpus, job>>

PubWriteMeta(p) ==
    /\ Step(p, "pub_write_meta", "pub_has_sentences")
    /\ WriteMeta(Doc(p), job[p].labels)
    /\ Remember(p, [job[p] EXCEPT !.ids = job[p].labels])
    /\ UNCHANGED corpus

\* A wrong variant, for mutation: sentences are written in any case.
PubHasSentencesUnchecked(p) ==
    /\ Step(p, "pub_has_sentences", "pub_write_sentences")
    /\ UNCHANGED <<liveVars, corpus, job>>

PubHasSentences(p) ==
    /\ Branch(p, "pub_has_sentences", HasSentences(Doc(p)),
              "pub_has_labels", "pub_write_sentences")
    /\ UNCHANGED <<liveVars, corpus, job>>

PubWriteSentences(p) ==
    /\ Step(p, "pub_write_sentences", "pub_has_labels")
    /\ WriteNlpData(Doc(p), job[p].nlp)
    /\ UNCHANGED <<corpus, job>>

\* A wrong variant, for mutation: an index of labels passes for the live switch.
PubHasLabelsAsLive(p) ==
    /\ Branch(p, "pub_has_labels", HasLabelsOptimization(Doc(p)),
              "ok", "pub_write_labels")
    /\ UNCHANGED <<liveVars, corpus, job>>

PubHasLabels(p) ==
    /\ Branch(p, "pub_has_labels", HasLabelsOptimization(Doc(p)),
              "pub_has_lemmas", "pub_write_labels")
    /\ UNCHANGED <<liveVars, corpus, job>>

PubWriteLabels(p) ==
    /\ Step(p, "pub_write_labels", "pub_has_lemmas")
    /\ WriteLabelsOptimization(Doc(p), job[p].ids)
    /\ UNCHANGED <<corpus, job>>

AfterLemmas(p) == IF job[p].opts.move THEN "pub_clear" ELSE "ok"

PubHasLemmas(p) ==
    /\ Branch(p, "pub_has_lemmas", HasLemmaOptimization(Doc(p)),
              AfterLemmas(p), "pub_write_lemmas")
    /\ UNCHANGED <<liveVars, corpus, job>>

PubWriteLemmas(p) ==
    /\ Step(p, "pub_write_lemmas", AfterLemmas(p))
    /\ WriteLemmaOptimization(Doc(p), job[p].nlp)
    /\ UNCHANGED <<corpus, job>>

\* A failure to clear the payload is only a warning.
PubClear(p) ==
    /\ Step(p, "pub_clear", "ok")
    /\ ClearNlp(Doc(p)) \/ (Crashes /\ UNCHANGED corpus)
    /\ UNCHANGED <<liveVars, job>>

PublishStep(p) ==
    \/ PubReadNlp(p) \/ PubReadMeta(p) \/ PubExists(p) \/ PubWriteMeta(p)
    \/ PubHasSentences(p) \/ PubWriteSentences(p)
    \/ PubHasLabels(p) \/ PubWriteLabels(p)
    \/ PubHasLemmas(p) \/ PubWriteLemmas(p) \/ PubClear(p)

-----------------------------------------------------------------------------
(* liveUnpublishCommand                                                    *)

UnpExists(p) ==
    /\ Branch(p, "unp_exists", Exists(Doc(p)), "unp_has_lemmas", "ok")
    /\ UNCHANGED <<liveVars, corpus, job>>

UnpHasLemmas(p) ==
    /\ Branch(p, "unp_has_lemmas", HasLemmaOptimization(Doc(p)),
              "unp_delete_lemmas", "unp_has_labels")
    /\ UNCHANGED <<liveVars, corpus, job>>

UnpDeleteLemmas(p) ==
    /\ Step(p, "unp_delete_lemmas", "unp_has_labels")
    /\ DeleteLemmaOptimization(Doc(p))
    /\ UNCHANGED <<corpus, job>>

\* A wrong variant, for mutation: the label index is left behind.
UnpHasLabelsSkipped(p) ==
    /\ Step(p, "unp_has_labels", "unp_has_sentences")
    /\ UNCHANGED <<liveVars, corpus, job>>

UnpHasLabels(p) ==
    /\ Branch(p, "unp_has_labels", HasLabelsOptimization(Doc(p)),
              "unp_delete_labels", "unp_has_sentences")
    /\ UNCHANGED <<liveVars, corpus, job>>

UnpDeleteLabels(p) ==
    /\ Step(p, "unp_delete_labels", "unp_has_sentences")
    /\ DeleteLabelsOptimization(Doc(p))
    /\ UNCHANGED <<corpus, job>>

UnpHasSentences(p) ==
    /\ Branch(p, "unp_has_sentences", HasSentences(Doc(p)),
              "unp_delete_sentences", "unp_exists_again")
    /\ UNCHANGED <<liveVars, corpus, job>>

UnpDeleteSentences(p) ==
    /\ Step(p, "unp_delete_sentences", "unp_exists_again")
    /\ DeleteNlpData(Doc(p))
    /\ UNCHANGED <<corpus, job>>

\* A wrong variant, for mutation: the docs row is left behind.
UnpExistsAgainForgets(p) ==
    /\ Step(p, "unp_exists_again", "ok")
    /\ UNCHANGED <<liveVars, corpus, job>>

UnpExistsAgain(p) ==
    /\ Branch(p, "unp_exists_again", Exists(Doc(p)), "unp_delete_meta", "ok")
    /\ UNCHANGED <<liveVars, corpus, job>>

UnpDeleteMeta(p) ==
    /\ Step(p, "unp_delete_meta", "ok")
    /\ DeleteMeta(Doc(p))
    /\ UNCHANGED <<corpus, job>>

UnpublishStep(p) ==
    \/ UnpExists(p) \/ UnpHasLemmas(p) \/ UnpDeleteLemmas(p)
    \/ UnpHasLabels(p) \/ UnpDeleteLabels(p)
    \/ UnpHasSentences(p) \/ UnpDeleteSentences(p)
    \/ UnpExistsAgain(p) \/ UnpDeleteMeta(p)

-----------------------------------------------------------------------------
(* corpusPublishLabelCommand                                               *)

LabExists(p) ==
    /\ Branch(p, "lab_exists", Exists(Doc(p)), "lab_read_meta", "ok")
    /\ UNCHANGED <<liveVars, corpus, job>>

LabReadMeta(p) ==
    /\ Step(p, "lab_read_meta", "lab_delete")
    /\ InCorpus(Doc(p))
    /\ Remember(p, [job[p] EXCEPT !.labels = corpus[Doc(p)].labels])
    /\ UNCHANGED <<liveVars, corpus>>

\* A wrong variant, for mutation: the old index is not cut first.
LabDeleteSkipped(p) ==
    /\ Step(p, "lab_delete", "lab_update")
    /\ UNCHANGED <<liveVars, corpus, job>>

LabDelete(p) ==
    /\ Step(p, "lab_delete", "lab_update")
    /\ DeleteLabelsOptimization(Doc(p))
    /\ UNCHANGED <<corpus, job>>

\* A wrong variant, for mutation: the label ids are not kept.
LabUpdateForgetsIds(p) ==
    /\ Step(p, "lab_update", "lab_write")
    /\ UpdateLabels(Doc(p), job[p].labels)
    /\ UNCHANGED <<corpus, job>>

LabUpdate(p) ==
    /\ Step(p, "lab_update", "lab_write")
    /\ UpdateLabels(Doc(p), job[p].labels)
    /\ Remember(p, [job[p] EXCEPT !.ids = job[p].labels])
    /\ UNCHANGED corpus

LabWrite(p) ==
    /\ Step(p, "lab_write", "ok")
    /\ WriteLabelsOptimization(Doc(p), job[p].ids)
    /\ UNCHANGED <<corpus, job>>

PublishLabelStep(p) ==
    LabExists(p) \/ LabReadMeta(p) \/ LabDelete(p) \/ LabUpdate(p) \/ LabWrite(p)

-----------------------------------------------------------------------------
(* The curator, who works on the corpus while commands run                 *)

CuratorSetLabel ==
    /\ "labels" \in Curation
    /\ \E d \in Docs, l \in Labels : AddLabel(d, {l}) \/ DeleteLabel(d, {l})
    /\ UNCHANGED <<liveVars, pc, job>>

CuratorIngestNlp ==
    /\ "nlp" \in Curation
    /\ \E d \in DOMAIN corpus, v \in Nlps : WriteNlp(d, v)
    /\ UNCHANGED <<liveVars, pc, job>>

CuratorRemove ==
    /\ "rm" \in Curation
    /\ \E d \in DOMAIN corpus : Delete(d)
    /\ UNCHANGED <<liveVars, pc, job>>

Curate == CuratorSetLabel \/ CuratorIngestNlp \/ CuratorRemove

-----------------------------------------------------------------------------
Proceed(p) == PublishStep(p) \/ UnpublishStep(p) \/ PublishLabelStep(p)

Run(p) == \/ StartPublish(p) \/ StartUnpublish(p) \/ StartPublishLabel(p)
          \/ Fail(p) \/ Proceed(p)

Next == Curate \/ \E p \in Procs : Run(p)

Spec == Init /\ [][Next]_vars

-----------------------------------------------------------------------------
(* Properties                                                              *)

\* No row is orphaned: every index row is about a stored sentence and every
\* sentence about a stored document.  The phases of publish go from parent to
\* child and those of unpublish from child to parent so that this holds after
\* any crash, even where SQLite does not enforce the FOREIGN KEY clauses; an
\* orphan would be adopted by the next sentence that gets its rowid.
Integrity ==
    /\ LemmaRows \subseteq DOMAIN sentences
    /\ LabelRows \subseteq DOMAIN sentences
    /\ \A r \in DOMAIN sentences : Exists(sentences[r].doc)

\* The label index never lies about a document: each of its sentences is
\* indexed under all the label_ids of the docs row, once each, or none of its
\* sentences is indexed at all (publish-label cuts the index before it changes
\* docs; publish writes what WriteMeta returned, or nothing).
LabelIndexAgrees ==
    \A d \in DOMAIN docs :
        \/ RowsOf(d) \cap LabelRows = {}
        \/ \A r \in RowsOf(d), l \in Labels :
            sentence_labels[r][l] = IF l \in docs[d] THEN 1 ELSE 0

\* The rows of a document that searches can reach are a whole payload, each
\* sentence stored once and indexed once, or none of them: the lemma index is
\* the live switch.
WholePayload(d, v) ==
    /\ \A r \in RowsOf(d) : sentences[r].nlp = v /\ sentence_lemmas[r][v] = 1
    /\ {sentences[r].sid : r \in RowsOf(d)} = SentenceIds(v)
    /\ \A r, q \in RowsOf(d) : sentences[r].sid = sentences[q].sid => r = q
WholeDocuments ==
    \A d \in Docs : HasLemmaOptimization(d) => \E v \in Nlps : WholePayload(d, v)

\* The document as searches find it, and the labels it is found under; neither
\* value is in the catalog when only part of the rows are indexed.
Hidden == "hidden"
Partial == "partial"
Shown == [d \in Docs |->
    IF ~HasLemmaOptimization(d) THEN Hidden
    ELSE IF \E v \in Nlps : WholePayload(d, v)
         THEN CHOOSE v \in Nlps : WholePayload(d, v)
         ELSE Partial]
LabelsOf(r) == {l \in Labels : sentence_labels[r][l] > 0}
Filed == [d \in Docs |->
    IF \A r, q \in RowsOf(d) : LabelsOf(r) = LabelsOf(q)
    THEN UNION {LabelsOf(r) : r \in RowsOf(d)}
    ELSE Partial]

\* Publication implements the catalog of the live database: documents appear
\* and disappear whole, whatever crashes and curators do in between.
Catalog == INSTANCE LiveCatalog WITH shown <- Shown, filed <- Filed
ImplementsCatalog == Catalog!Spec

Finishes(p, cmd) == job[p].cmd = cmd /\ Active(p) /\ pc'[p] = "ok"

\* An unpublish that reports success has removed every trace of the document.
UnpublishLeavesNothing ==
    [][\A p \in Procs : Finishes(p, "unpublish") =>
        (~Exists(Doc(p)) /\ ~HasSentences(Doc(p)))']_vars

\* A publish that reports success leaves the document live: stored, and
\* indexed by the lemmas of a whole payload.
PublishGoesLive ==
    [][\A p \in Procs : Finishes(p, "publish") =>
        (Exists(Doc(p)) /\ HasLemmaOptimization(Doc(p)))']_vars

\* A publish-label that reports success on a stored document leaves the docs
\* row and the label index of every sentence at the labels it read, whatever
\* crashes came before.
PublishLabelHeals ==
    [][\A p \in Procs : Finishes(p, "publish-label") /\ pc[p] # "lab_exists" =>
        (/\ docs[Doc(p)] = job[p].labels
         /\ \A r \in RowsOf(Doc(p)), l \in Labels :
              sentence_labels[r][l] = IF l \in docs[Doc(p)] THEN 1 ELSE 0)']_vars

\* publish --move deletes a payload from the corpus only once it is live as a
\* whole (parse_corpus.go:83, "Delete NLP data from corpus after successful
\* publish"): no payload is lost on its way between the two databases.
MoveLosesNothing ==
    [][\A d \in DOMAIN corpus \cap DOMAIN corpus' :
        corpus[d].nlp # NoNlp /\ corpus'[d].nlp = NoNlp =>
            HasLemmaOptimization(d) /\ WholePayload(d, corpus[d].nlp)]_vars

\* corpus_publish.go:60 calls the phases of publishOne idempotent: a publish
\* that succeeds, a resumed one included, leaves the sentences indexed under
\* the labels of the docs row.
PublishIndexesLabels ==
    [][\A p \in Procs : Finishes(p, "publish") =>
        (\A r \in RowsOf(Doc(p)), l \in docs[Doc(p)] :
            sentence_labels[r][l] > 0)']_vars
=============================================================================
