----------------------------- MODULE CorpusStore -----------------------------
(***************************************************************************)
(* The corpus (staging) table and the transactions of CorpusStore          *)
(* (storage/sqlite/zombiezen/corpus_store.go).                             *)
(*                                                                         *)
(* A row keeps the fields some command decides on: the labels, the text    *)
(* (its hash changes with it), the NLP payload, whether nlp_created_at is  *)
(* set, and the two acknowledgements.  An UPDATE or DELETE whose WHERE     *)
(* clause matches no row succeeds and changes nothing.                     *)
(***************************************************************************)
EXTENDS Documents

CONSTANTS
    Txts,  \* plain texts
    NoNlp  \* the empty nlp field: '' or NULL

ASSUME CorpusStoreAssumption == NoNlp \notin Nlps

VARIABLE corpus  \* corpus[d]: the row of document d

CorpusRow == [labels : SUBSET Labels, txt : Txts, nlp : Nlps \cup {NoNlp},
              nlp_created : BOOLEAN, txt_ack : BOOLEAN, nlp_ack : BOOLEAN]

CorpusTypeOK ==
    /\ DOMAIN corpus \subseteq Docs
    /\ corpus \in [DOMAIN corpus -> CorpusRow]

-----------------------------------------------------------------------------
(* Reads                                                                   *)

InCorpus(d) == d \in DOMAIN corpus
HasNlp(d) == corpus[d].nlp_created
HasAck(d) == corpus[d].txt_ack /\ corpus[d].nlp_ack

-----------------------------------------------------------------------------
(* Transactions                                                            *)

\* UPDATE corpus SET ... WHERE id = d
SetRow(d, row) ==
    corpus' = [x \in DOMAIN corpus |-> IF x = d THEN row ELSE corpus[x]]

\* A record as ingest-meta yields it: labels and text from the epub, no NLP,
\* nothing acknowledged.
NewRow(ls, t) == [labels |-> ls, txt |-> t, nlp |-> NoNlp, nlp_created |-> FALSE,
                  txt_ack |-> FALSE, nlp_ack |-> FALSE]

\* The commit of WriteStream, whose INSERTs have made these rows.
WriteStream(rows) ==
    corpus' = [x \in DOMAIN corpus \cup DOMAIN rows |->
                IF x \in DOMAIN rows THEN rows[x] ELSE corpus[x]]

\* A new payload and its time; nlp_ack keeps its value.
WriteNlp(d, v) ==
    SetRow(d, [corpus[d] EXCEPT !.nlp = v, !.nlp_created = TRUE])

\* nlp = '' ; nlp_created_at and nlp_ack keep their values.
ClearNlp(d) == SetRow(d, [corpus[d] EXCEPT !.nlp = NoNlp])

\* txt, txt_hash and txt_edit*; txt_ack, nlp and nlp_ack keep their values.
UpdateTxt(d, t) == SetRow(d, [corpus[d] EXCEPT !.txt = t])

AckTxt(d) == SetRow(d, [corpus[d] EXCEPT !.txt_ack = TRUE])
AckNlp(d) == SetRow(d, [corpus[d] EXCEPT !.nlp_ack = TRUE])

\* Read-modify-write of the labels column inside one savepoint; a missing
\* document is an error.
AddLabel(d, ls) ==
    /\ InCorpus(d)
    /\ SetRow(d, [corpus[d] EXCEPT !.labels = @ \cup ls])

DeleteLabel(d, ls) ==
    /\ InCorpus(d)
    /\ SetRow(d, [corpus[d] EXCEPT !.labels = @ \ ls])

Delete(d) == corpus' = [x \in DOMAIN corpus \ {d} |-> corpus[x]]
=============================================================================
