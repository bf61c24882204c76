------------------------------- MODULE Curation -------------------------------
(***************************************************************************)
(* The curation of the corpus: ingest-nlp, push-txt, ack, rm and the       *)
(* ingest of a book (cmd/segrob/corpus_ingest_nlp.go, corpus_push_txt.go,  *)
(* corpus_ack.go, corpus_rm.go).  ingest-nlp reads the acknowledgement,    *)
(* reads the text, runs a script for minutes, and writes its output, and   *)
(* the other commands run in between; each of them is one statement.       *)
(*                                                                         *)
(* An UPDATE of a row that is not there succeeds, so a command may report  *)
(* a success that changed nothing.  The acknowledgements of a row survive  *)
(* a new text and a new payload.                                           *)
(***************************************************************************)
EXTENDS FiniteSets, Naturals, CorpusStore

CONSTANTS
    Runners,   \* processes that run ingest-nlp
    NlpOf,     \* NlpOf[t]: what the script makes of text t
    Extracted, \* what an epub holds: its labels and its text
    ForceFlags, \* --force flags of ingest-nlp in use
    Curators,  \* what the curator does: "push-txt", "ack", "rm", "move"
    MaxUses    \* bound: size of the history used

ASSUME CurationAssumption ==
    /\ NlpOf \in [Txts -> Nlps]
    /\ Extracted \in [Docs -> [labels : SUBSET Labels, txt : Txts]]
    /\ ForceFlags \subseteq BOOLEAN
    /\ Curators \subseteq {"push-txt", "ack", "rm", "move"}
    /\ MaxUses \in Nat

VARIABLES
    run,  \* run[p]: the ingest-nlp of process p
    used  \* history: <<d, x>> if document d has seen exception x

curationVars == <<corpus, run, used>>

\* What the properties make exceptions for.
Exceptions == {"push-txt", "rm", "force", "move"}

Idle == [pc |-> "idle"]
Run == {Idle} \cup [pc : {"check", "read"}, doc : Docs]
              \cup [pc : {"script", "write"}, doc : Docs, txt : Txts]

CurationTypeOK ==
    /\ CorpusTypeOK
    /\ run \in [Runners -> Run]
    /\ used \subseteq Docs \X Exceptions

CurationInit ==
    /\ corpus = [d \in {} |-> {}]
    /\ run = [p \in Runners |-> Idle]
    /\ used = {}

-----------------------------------------------------------------------------
(* corpusIngestNlpCommand                                                  *)

Use(d, x) ==
    /\ used' = used \cup {<<d, x>>}
    /\ Cardinality(used') <= MaxUses

To(p, r) == run' = [run EXCEPT ![p] = r]

StartIngestNlp(p) ==
    /\ run[p] = Idle
    /\ \E d \in Docs :
        \/ /\ FALSE \in ForceFlags
           /\ To(p, [pc |-> "check", doc |-> d])
           /\ UNCHANGED used
        \/ /\ TRUE \in ForceFlags
           /\ To(p, [pc |-> "read", doc |-> d])
           /\ Use(d, "force")
    /\ UNCHANGED corpus

\* A wrong variant, for mutation: the acknowledgement is not looked at.
CheckAckUnchecked(p) ==
    /\ run[p].pc = "check"
    /\ To(p, IF InCorpus(run[p].doc) THEN [run[p] EXCEPT !.pc = "read"] ELSE Idle)
    /\ UNCHANGED <<corpus, used>>

CheckAck(p) ==
    /\ run[p].pc = "check"
    /\ To(p, IF InCorpus(run[p].doc) /\ corpus[run[p].doc].txt_ack
             THEN [run[p] EXCEPT !.pc = "read"] ELSE Idle)
    /\ UNCHANGED <<corpus, used>>

ReadTxt(p) ==
    /\ run[p].pc = "read"
    /\ LET d == run[p].doc IN
       To(p, IF InCorpus(d) THEN [pc |-> "script", doc |-> d, txt |-> corpus[d].txt]
             ELSE Idle)
    /\ UNCHANGED <<corpus, used>>

\* The script may fail, or print something that is no JSON.
RunScript(p) ==
    /\ run[p].pc = "script"
    /\ To(p, [run[p] EXCEPT !.pc = "write"]) \/ To(p, Idle)
    /\ UNCHANGED <<corpus, used>>

StoreNlp(p) ==
    /\ run[p].pc = "write"
    /\ To(p, Idle)
    /\ IF InCorpus(run[p].doc) THEN WriteNlp(run[p].doc, NlpOf[run[p].txt])
       ELSE UNCHANGED corpus
    /\ UNCHANGED used

IngestNlp(p) == CheckAck(p) \/ ReadTxt(p) \/ RunScript(p) \/ StoreNlp(p)

-----------------------------------------------------------------------------
(* The other commands, and the epub that is ingested again after rm        *)

IngestBook(d) ==
    /\ ~InCorpus(d)
    /\ WriteStream([x \in {d} |-> NewRow(Extracted[d].labels, Extracted[d].txt)])
    /\ UNCHANGED <<run, used>>

PushTxt(d) ==
    /\ "push-txt" \in Curators /\ InCorpus(d)
    /\ \E t \in Txts : UpdateTxt(d, t)
    /\ Use(d, "push-txt")
    /\ UNCHANGED run

\* corpusAckCommand
AcknowledgeTxt(d) ==
    /\ "ack" \in Curators /\ InCorpus(d)
    /\ AckTxt(d)
    /\ UNCHANGED <<run, used>>

AcknowledgeNlp(d) ==
    /\ "ack" \in Curators /\ InCorpus(d)
    /\ AckNlp(d)
    /\ UNCHANGED <<run, used>>

Remove(d) ==
    /\ "rm" \in Curators /\ InCorpus(d)
    /\ Delete(d)
    /\ Use(d, "rm")
    /\ UNCHANGED run

\* The last transaction of publish --move (Publication has the others).
MoveNlp(d) ==
    /\ "move" \in Curators /\ InCorpus(d) /\ corpus[d].nlp # NoNlp
    /\ ClearNlp(d)
    /\ Use(d, "move")
    /\ UNCHANGED run

CurationNext ==
    \/ \E p \in Runners : StartIngestNlp(p) \/ IngestNlp(p)
    \/ \E d \in Docs : \/ IngestBook(d) \/ PushTxt(d) \/ AcknowledgeTxt(d)
                       \/ AcknowledgeNlp(d) \/ Remove(d) \/ MoveNlp(d)

CurationSpec == CurationInit /\ [][CurationNext]_curationVars

-----------------------------------------------------------------------------
(* Properties                                                              *)

Saw(d, x) == <<d, x>> \in used

\* doc/workflow.md:93, "TxtAck = true is required before running NLP
\* processing": a document that was never forced nor removed has a payload only
\* if its text is acknowledged, whatever happened while the script ran.  A row
\* that is removed and ingested again while the script runs is the exception.
NlpNeedsTxtAck ==
    \A d \in DOMAIN corpus :
        HasNlp(d) => corpus[d].txt_ack \/ Saw(d, "rm") \/ Saw(d, "force")
=============================================================================
