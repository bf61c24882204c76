-------------------------------- MODULE Backup --------------------------------
(***************************************************************************)
(* corpusBackupCommand (cmd/segrob/corpus_backup.go): the rows of the      *)
(* corpus and then its topics are copied into a temporary database, whose  *)
(* file is compressed to the output.  The rows are listed without text and *)
(* payload, which are read row by row in statements of their own, while    *)
(* the commands of Curation run.                                           *)
(*                                                                         *)
(* The temporary database is open while its file is compressed.  The       *)
(* command asks for _journal_mode=DELETE, with which a commit is in the    *)
(* file; but pools are opened with OpenWAL (db.go:33), and if the driver   *)
(* passes over the parameter, as it does with those of another driver, a   *)
(* commit is in the write-ahead log, a file beside it, until a checkpoint. *)
(*                                                                         *)
(* Abstraction: the topics do not change meanwhile.                        *)
(***************************************************************************)
EXTENDS Curation

CONSTANTS
    TopicNames,  \* the topics of the corpus
    WithNlp,     \* --with-nlp flags in use
    Journals,    \* journal modes of the temporary database: "delete", "wal"
    MaxBackups   \* bound: backups to the same output

ASSUME BackupAssumption ==
    /\ WithNlp \subseteq BOOLEAN
    /\ Journals \subseteq {"delete", "wal"}
    /\ MaxBackups \in Nat

VARIABLES
    bk,      \* the backup: its progress and what it has copied
    output,  \* the .gz file
    backups  \* backups so far

backupVars == <<curationVars, bk, output, backups>>

\* The columns of the list that are about the text and the payload: txt_hash
\* (as the text itself) and nlp_created_at.
Meta(d) == [hash |-> corpus[d].txt, nlp_created |-> corpus[d].nlp_created]

\* A row of the copy: the columns the list gave, and a text and a payload.
CopiedRow == [hash : Txts, nlp_created : BOOLEAN, txt : Txts,
              nlp : Nlps \cup {NoNlp}]
NoFile == [kind |-> "none"]
Earlier == [kind |-> "earlier"]
Partial == [kind |-> "partial"]
File(b) == [kind |-> "whole", rows |-> b.file.rows, topics |-> b.file.topics,
            with_nlp |-> b.with_nlp]
EmptyDb == [rows |-> <<>>, topics |-> {}]

IsCopy(rows, topics) ==
    /\ DOMAIN rows \subseteq Docs
    /\ \A d \in DOMAIN rows : rows[d] \in CopiedRow
    /\ topics \subseteq TopicNames

BackupTypeOK ==
    /\ CurationTypeOK
    /\ bk.pc \in {"idle", "rows", "topics", "create", "copy", "ok",
                  "failed"}
    /\ bk.with_nlp \in BOOLEAN
    /\ bk.todo \subseteq DOMAIN bk.list
    /\ bk.reading \subseteq DOMAIN bk.batch
    /\ bk.journal \in {"delete", "wal"}
    /\ IsCopy(bk.batch, bk.topics) /\ IsCopy(bk.file.rows, bk.file.topics)
    /\ output.kind = "whole" => IsCopy(output.rows, output.topics)
    /\ backups \in 0 .. MaxBackups

NoBackup(pc) == [pc |-> pc, with_nlp |-> FALSE, list |-> <<>>, todo |-> {},
                 reading |-> {}, batch |-> <<>>, topics |-> {},
                 journal |-> "delete", file |-> EmptyDb]

BackupInit ==
    /\ CurationInit
    /\ bk = NoBackup("idle")
    /\ output \in {NoFile, Earlier}
    /\ backups = 0

-----------------------------------------------------------------------------
\* The schema is created, then List.
StartBackup ==
    /\ bk.pc \in {"idle", "ok", "failed"}
    /\ backups < MaxBackups /\ backups' = backups + 1
    /\ \E with_nlp \in WithNlp, journal \in Journals :
        bk' = [NoBackup("rows") EXCEPT !.with_nlp = with_nlp, !.journal = journal,
            !.list = [d \in DOMAIN corpus |-> Meta(d)], !.todo = DOMAIN corpus]
    /\ UNCHANGED <<curationVars, output>>

Copied(d, v) == [e \in DOMAIN bk.batch \cup {d} |->
    IF e = d THEN [hash |-> bk.list[d].hash, nlp_created |-> bk.list[d].nlp_created,
                   txt |-> corpus[d].txt, nlp |-> v]
    ELSE bk.batch[e]]

\* A wrong variant, for mutation: --with-nlp is forgotten.
BackUpTxtOnly(d) ==
    /\ bk.pc = "rows" /\ bk.reading = {} /\ d \in bk.todo /\ InCorpus(d)
    /\ bk' = [bk EXCEPT !.batch = Copied(d, NoNlp), !.todo = @ \ {d}]
    /\ UNCHANGED <<curationVars, output, backups>>

\* The iterator reads the text of a row and, with --with-nlp, goes on to read
\* its payload.
BackUpTxt(d) ==
    /\ bk.pc = "rows" /\ bk.reading = {} /\ d \in bk.todo /\ InCorpus(d)
    /\ bk' = [bk EXCEPT !.reading = IF bk.with_nlp THEN {d} ELSE {},
                        !.batch = Copied(d, NoNlp), !.todo = @ \ {d}]
    /\ UNCHANGED <<curationVars, output, backups>>

\* A payload that was never stored, or was cleared, is copied as it is.
BackUpNlp(d) ==
    /\ d \in bk.reading /\ InCorpus(d)
    /\ bk' = [bk EXCEPT !.reading = {}, !.batch[d].nlp = corpus[d].nlp]
    /\ UNCHANGED <<curationVars, output, backups>>

\* A wrong variant, for mutation: a row that is gone is left out.
RowSkipped ==
    /\ bk.pc = "rows"
    /\ \E d \in bk.todo \ DOMAIN corpus :
        bk' = [bk EXCEPT !.todo = @ \ {d}]
    /\ UNCHANGED <<curationVars, output, backups>>

\* A row that is gone ends the iterator with an error, and WriteStream rolls
\* its one transaction back.
RowGone ==
    /\ bk.pc = "rows"
    /\ (IF bk.reading = {} THEN bk.todo ELSE bk.reading) \ DOMAIN corpus # {}
    /\ bk' = NoBackup("failed")
    /\ UNCHANGED <<curationVars, output, backups>>

\* What the file of the temporary database may hold after a commit: a commit
\* that makes the log long (1000 pages) carries all of it into the file.
InFile(topics) ==
    LET all == [rows |-> bk.batch, topics |-> topics]
    IN IF bk.journal = "delete" THEN {all} ELSE {bk.file, all}

\* WriteStream commits.
CommitRows ==
    /\ bk.pc = "rows" /\ bk.todo = {} /\ bk.reading = {}
    /\ \E file \in InFile({}) : bk' = [bk EXCEPT !.pc = "topics", !.file = file]
    /\ UNCHANGED <<curationVars, output, backups>>

BackUpTopic ==
    /\ bk.pc = "topics"
    /\ \E n \in TopicNames \ bk.topics :
        \E file \in InFile(bk.topics \cup {n}) :
            bk' = [bk EXCEPT !.topics = @ \cup {n}, !.file = file]
    /\ UNCHANGED <<curationVars, output, backups>>

CommitTopics ==
    /\ bk.pc = "topics" /\ bk.topics = TopicNames
    /\ bk' = [bk EXCEPT !.pc = "create"]
    /\ UNCHANGED <<curationVars, output, backups>>

\* compressFile truncates what an earlier backup left there.
CreateOutput ==
    /\ bk.pc = "create"
    /\ bk' = [bk EXCEPT !.pc = "copy"]
    /\ output' = Partial
    /\ UNCHANGED <<curationVars, backups>>

CompressFile ==
    /\ bk.pc = "copy"
    /\ bk' = NoBackup("ok")
    /\ output' = File(bk)
    /\ UNCHANGED <<curationVars, backups>>

\* An error ends the command, and one in compressFile removes the output, an
\* earlier backup included; a crash leaves what is there.
BackupFails ==
    /\ bk.pc \in {"rows", "topics", "create", "copy"}
    /\ bk' = NoBackup("failed")
    /\ output' \in {output} \cup (IF bk.pc \in {"create", "copy"} THEN {NoFile} ELSE {})
    /\ UNCHANGED <<curationVars, backups>>

BackupStep == \/ \E d \in Docs : BackUpTxt(d) \/ BackUpNlp(d)
              \/ RowGone \/ CommitRows \/ BackUpTopic \/ CommitTopics
              \/ CreateOutput \/ CompressFile

BackupNext ==
    \/ StartBackup \/ BackupStep \/ BackupFails
    \/ CurationNext /\ UNCHANGED <<bk, output, backups>>

BackupSpec == BackupInit /\ [][BackupNext]_backupVars

-----------------------------------------------------------------------------
(* Properties                                                              *)

\* An earlier backup is given up only when every row that was listed and every
\* topic is in the temporary database: a row that disappears on the way makes the
\* backup fail, never incomplete.  With the journal the command asks for, what is
\* reported as written is all of it.  With a write-ahead log it need not be: of
\* that journal nothing is promised here, though doc/workflow.md:216 does.
BackupIsComplete ==
    [][/\ output' # output =>
            DOMAIN bk.batch = DOMAIN bk.list /\ bk.topics = TopicNames
       /\ bk.pc = "copy" /\ bk'.pc = "ok" /\ bk.journal = "delete" =>
            output' = [kind |-> "whole", rows |-> bk.batch, topics |-> TopicNames,
                       with_nlp |-> bk.with_nlp]]_backupVars

\* The columns of a copied row belong together, though they are read at
\* different times while other commands run: its text is the one its other
\* columns (hash, acknowledgement) are about, unless a text was pushed; with
\* --with-nlp its payload is made from that text, and is there if nlp_created_at
\* says so, unless the row was removed or its payload moved.
BackupRowsAgree ==
    output.kind = "whole" =>
        \A d \in DOMAIN output.rows :
            LET row == output.rows[d] IN
            /\ ~Saw(d, "push-txt") =>
                /\ row.txt = row.hash
                /\ row.nlp # NoNlp => row.nlp = NlpOf[row.txt]
            /\ output.with_nlp /\ row.nlp_created =>
                row.nlp # NoNlp \/ Saw(d, "rm") \/ Saw(d, "move")
=============================================================================
