------------------------------ MODULE DocStore ------------------------------
(***************************************************************************)
(* The live (production) tables of segrob and the transactions of DocStore *)
(* (storage/sqlite/zombiezen/doc_store.go) that read and write them.       *)
(*                                                                         *)
(* Every writer method is one savepoint transaction or one statement, so   *)
(* it is one operator here, and SQLite runs it atomically.  A conjunct     *)
(* that mentions no primed variable is the condition under which the       *)
(* transaction commits; when it is false SQLite rolls back and the method  *)
(* returns an error.                                                       *)
(*                                                                         *)
(* Abstractions: a label row and its integer id are one label; the tokens  *)
(* of a sentence are the NLP version and the sentence index they come      *)
(* from; the lemma rows of one sentence, always written in one             *)
(* transaction, are counted together.                                      *)
(***************************************************************************)
EXTENDS Integers, Documents

CONSTANTS
    NumSentences,  \* number of sentences of each payload
    ForeignKeys,   \* TRUE if SQLite enforces the FOREIGN KEY clauses
    MaxRowid       \* bound: the largest rowid the sentences table can use

ASSUME DocStoreAssumption ==
    /\ NumSentences \in [Nlps -> Nat]
    /\ ForeignKeys \in BOOLEAN
    /\ MaxRowid \in Nat

VARIABLES
    docs,             \* docs[d]: the label_ids of document d's row
    labels,           \* the label dictionary, whose rows are never deleted
    sentences,        \* sentences[r]: the row with rowid r
    sentence_lemmas,  \* sentence_lemmas[r][v]: times the lemmas of payload v
                      \*   have been inserted for rowid r
    sentence_labels   \* sentence_labels[r][l]: rows that give rowid r label l

liveVars == <<docs, labels, sentences, sentence_lemmas, sentence_labels>>

Rowids == 1 .. MaxRowid
SentenceIds(v) == 0 .. NumSentences[v] - 1
Sentence == [doc : Docs, sid : Nat, nlp : Nlps]

LiveTypeOK ==
    /\ DOMAIN docs \subseteq Docs
    /\ docs \in [DOMAIN docs -> SUBSET Labels]
    /\ labels \in SUBSET Labels
    /\ DOMAIN sentences \subseteq Rowids
    /\ sentences \in [DOMAIN sentences -> Sentence]
    /\ sentence_lemmas \in [Rowids -> [Nlps -> Nat]]
    /\ sentence_labels \in [Rowids -> [Labels -> Nat]]

LiveInit ==
    /\ docs = [d \in {} |-> {}]
    /\ labels = {}
    /\ sentences = [r \in {} |-> {}]
    /\ sentence_lemmas = [r \in Rowids |-> [v \in Nlps |-> 0]]
    /\ sentence_labels = [r \in Rowids |-> [l \in Labels |-> 0]]

-----------------------------------------------------------------------------
(* Reads                                                                   *)

\* SELECT rowid FROM sentences WHERE doc_id = d
RowsOf(d) == {r \in DOMAIN sentences : sentences[r].doc = d}

LemmaRows == {r \in Rowids : \E v \in Nlps : sentence_lemmas[r][v] > 0}
LabelRows == {r \in Rowids : \E l \in Labels : sentence_labels[r][l] > 0}

Exists(d) == d \in DOMAIN docs
HasSentences(d) == RowsOf(d) # {}
HasLabelsOptimization(d) == RowsOf(d) \cap LabelRows # {}
HasLemmaOptimization(d) == RowsOf(d) \cap LemmaRows # {}

-----------------------------------------------------------------------------
(* Transactions                                                            *)

\* upsertLabel for each label, then a plain INSERT: the primary key refuses
\* a second row, and with it the labels of the same savepoint.
WriteMeta(d, ls) ==
    /\ ~Exists(d)
    /\ docs' = [x \in DOMAIN docs \cup {d} |-> IF x = d THEN ls ELSE docs[x]]
    /\ labels' = labels \cup ls
    /\ UNCHANGED <<sentences, sentence_lemmas, sentence_labels>>

\* The UPDATE of a missing row changes nothing; the labels stay upserted.
UpdateLabels(d, ls) ==
    /\ docs' = [x \in DOMAIN docs |-> IF x = d THEN ls ELSE docs[x]]
    /\ labels' = labels \cup ls
    /\ UNCHANGED <<sentences, sentence_lemmas, sentence_labels>>

\* rowid is an INTEGER PRIMARY KEY without AUTOINCREMENT: SQLite numbers new
\* rows from the largest rowid in use, so a deleted tail is used again.
IsTopRowid(top) ==
    /\ \A r \in DOMAIN sentences : r <= top
    /\ top = 0 \/ top \in DOMAIN sentences

\* Plain INSERTs: nothing makes (doc_id, sentence_id) unique.
WriteNlpData(d, v) ==
    /\ ForeignKeys /\ NumSentences[v] > 0 => Exists(d)
    /\ \E top \in 0 .. MaxRowid :
        /\ IsTopRowid(top)
        /\ top + NumSentences[v] <= MaxRowid
        /\ sentences' =
            [r \in DOMAIN sentences \cup (top + 1 .. top + NumSentences[v]) |->
                IF r \in DOMAIN sentences
                THEN sentences[r]
                ELSE [doc |-> d, sid |-> r - top - 1, nlp |-> v]]
    /\ UNCHANGED <<docs, labels, sentence_lemmas, sentence_labels>>

\* One INSERT ... SELECT per label id, whatever the index already holds.
WriteLabelsOptimization(d, ids) ==
    /\ ForeignKeys => ids \subseteq labels
    /\ sentence_labels' =
        [r \in Rowids |-> [l \in Labels |->
            IF r \in RowsOf(d) /\ l \in ids
            THEN sentence_labels[r][l] + 1
            ELSE sentence_labels[r][l]]]
    /\ UNCHANGED <<docs, labels, sentences, sentence_lemmas>>

\* A wrong variant, for mutation: the last sentence is left out.
WriteLemmaOptimizationButLast(d, v) ==
    /\ sentence_lemmas' =
        [r \in Rowids |-> [w \in Nlps |->
            IF r \in RowsOf(d) /\ sentences[r].sid < NumSentences[v] - 1 /\ w = v
            THEN sentence_lemmas[r][w] + 1
            ELSE sentence_lemmas[r][w]]]
    /\ UNCHANGED <<docs, labels, sentences, sentence_labels>>

\* The lemmas of payload v, joined to the stored rows by sentence_id.
WriteLemmaOptimization(d, v) ==
    /\ sentence_lemmas' =
        [r \in Rowids |-> [w \in Nlps |->
            IF r \in RowsOf(d) /\ sentences[r].sid \in SentenceIds(v) /\ w = v
            THEN sentence_lemmas[r][w] + 1
            ELSE sentence_lemmas[r][w]]]
    /\ UNCHANGED <<docs, labels, sentences, sentence_labels>>

DeleteLemmaOptimization(d) ==
    /\ sentence_lemmas' =
        [r \in Rowids |-> [v \in Nlps |->
            IF r \in RowsOf(d) THEN 0 ELSE sentence_lemmas[r][v]]]
    /\ UNCHANGED <<docs, labels, sentences, sentence_labels>>

DeleteLabelsOptimization(d) ==
    /\ sentence_labels' =
        [r \in Rowids |-> [l \in Labels |->
            IF r \in RowsOf(d) THEN 0 ELSE sentence_labels[r][l]]]
    /\ UNCHANGED <<docs, labels, sentences, sentence_lemmas>>

DeleteNlpData(d) ==
    /\ ForeignKeys => RowsOf(d) \cap (LemmaRows \cup LabelRows) = {}
    /\ sentences' = [r \in DOMAIN sentences \ RowsOf(d) |-> sentences[r]]
    /\ UNCHANGED <<docs, labels, sentence_lemmas, sentence_labels>>

DeleteMeta(d) ==
    /\ ForeignKeys => RowsOf(d) = {}
    /\ docs' = [x \in DOMAIN docs \ {d} |-> docs[x]]
    /\ UNCHANGED <<labels, sentences, sentence_lemmas, sentence_labels>>
=============================================================================
