-------------------------------- MODULE Ingest --------------------------------
(***************************************************************************)
(* corpusIngestMetaCommand (cmd/segrob/corpus_ingest_meta.go): a directory *)
(* of epubs is streamed into the corpus by CorpusStore.WriteStream.  One   *)
(* transaction, on one connection of the pool, lasts for the whole         *)
(* directory; the iterator it draws the records from asks Exists on        *)
(* another connection, which sees committed rows only.                     *)
(*                                                                         *)
(* SQLite has one writer: the first INSERT of a transaction waits for it.  *)
(* Other ingests and a curator work on the same corpus meanwhile.          *)
(***************************************************************************)
EXTENDS CorpusStore, Naturals, SequencesExt

CONSTANTS
    Ingesters,  \* processes that run ingest-meta
    Dirs,       \* directories: sequences of files; each has a repaired one
    Extracted,  \* what an epub holds: its labels and its text
    PoolSize,   \* connections of a process: runtime.NumCPU()
    Curators,   \* what the curator does: "push-txt", "ack"
    MaxCrashes  \* bound: times an ingest stops for no reason of its own

\* The id of a file is the hash of its bytes; a broken epub can be read but
\* not parsed.
File == [id : Docs, state : {"good", "unreadable", "broken"}]

ASSUME IngestAssumption ==
    /\ Dirs \subseteq Seq(File)
    /\ Extracted \in [Docs -> [labels : SUBSET Labels, txt : Txts]]
    /\ PoolSize \in Nat \ {0}
    /\ Curators \subseteq {"push-txt", "ack"}
    /\ MaxCrashes \in Nat

VARIABLES
    ing,     \* ing[p]: the progress of process p
    writer,  \* the processes in a write transaction: at most one
    crashes  \* stops so far

ingestVars == <<corpus, ing, writer, crashes>>

Ingestion == [pc : {"ready", "scan", "insert", "ok", "failed"}, dir : Seq(File),
              rest : Seq(File), seen : SUBSET Docs, batch : SUBSET Docs]

IngestTypeOK ==
    /\ CorpusTypeOK
    /\ ing \in [Ingesters -> Ingestion]
    /\ writer \subseteq Ingesters
    /\ crashes \in 0 .. MaxCrashes

Fresh(dir, pc) == [pc |-> pc, dir |-> dir, rest |-> dir, seen |-> {}, batch |-> {}]
Working(p) == ing[p].pc \in {"scan", "insert"}
File1(p) == Head(ing[p].rest)

IngestInit ==
    /\ corpus = <<>>
    /\ ing = [p \in Ingesters |-> Fresh(<<>>, "ready")]
    /\ writer = {}
    /\ crashes = 0

-----------------------------------------------------------------------------
StartIngest(p) ==
    /\ ing[p].pc = "ready"
    /\ \E dir \in Dirs : ing' = [ing EXCEPT ![p] = Fresh(dir, "scan")]
    /\ UNCHANGED <<corpus, writer, crashes>>

Good(dir) == {f \in Range(dir) : f.state = "good"}

\* The command is run again when it has failed, on the files that can be read.
RunAgain(p) ==
    /\ ing[p].pc = "failed"
    /\ \E dir \in Dirs :
        /\ Range(dir) = Good(ing[p].dir)
        /\ ing' = [ing EXCEPT ![p] = Fresh(dir, "scan")]
    /\ UNCHANGED <<corpus, writer, crashes>>

\* An error, and a process that dies: the savepoint is rolled back.
RollBack(p) ==
    /\ ing' = [ing EXCEPT ![p] = Fresh(@.dir, "failed")]
    /\ writer' = writer \ {p}
    /\ UNCHANGED corpus

Skip(p) ==
    /\ ing' = [ing EXCEPT ![p].rest = Tail(@)]
    /\ UNCHANGED <<corpus, writer, crashes>>

\* "duplicate in batch"
SkipSeen(p) ==
    /\ ing[p].pc = "scan" /\ ing[p].rest # <<>>
    /\ File1(p).state # "unreadable" /\ File1(p).id \in ing[p].seen
    /\ Skip(p)

\* A wrong variant, for mutation: copies in the batch are not looked for.
NotSeenForgets(p) ==
    /\ ing[p].pc = "scan" /\ ing[p].rest # <<>>
    /\ File1(p).state # "unreadable"

NotSeen(p) ==
    /\ ing[p].pc = "scan" /\ ing[p].rest # <<>>
    /\ File1(p).state # "unreadable" /\ File1(p).id \notin ing[p].seen

\* Exists takes a connection beside the one the transaction holds.
CanTake == PoolSize > 1

\* "already in corpus"
SkipIngested(p) ==
    /\ NotSeen(p) /\ CanTake /\ InCorpus(File1(p).id)
    /\ Skip(p)

Extract(p) ==
    /\ NotSeen(p) /\ CanTake /\ ~InCorpus(File1(p).id)
    /\ File1(p).state = "good"
    /\ ing' = [ing EXCEPT ![p].seen = @ \cup {File1(p).id}, ![p].pc = "insert"]
    /\ UNCHANGED <<corpus, writer, crashes>>

\* A wrong variant, for mutation: a bad file is passed over.
BadFileSkipped(p) ==
    /\ ing[p].pc = "scan" /\ ing[p].rest # <<>>
    /\ File1(p).state # "good"
    /\ Skip(p)

\* One file that cannot be read or parsed ends the ingest of the directory.
BadFile(p) ==
    /\ ing[p].pc = "scan" /\ ing[p].rest # <<>>
    /\ \/ File1(p).state = "unreadable"
       \/ /\ File1(p).state = "broken"
          /\ NotSeen(p) /\ CanTake /\ ~InCorpus(File1(p).id)
    /\ RollBack(p)
    /\ UNCHANGED crashes

\* A wrong variant, for mutation: INSERT OR REPLACE.
InsertOrReplace(p) ==
    /\ ing[p].pc = "insert" /\ writer \subseteq {p}
    /\ writer' = {p}
    /\ ing' = [ing EXCEPT ![p].batch = @ \cup {File1(p).id},
                          ![p].rest = Tail(@), ![p].pc = "scan"]
    /\ UNCHANGED <<corpus, crashes>>

\* The primary key refuses a row that is there by now.
Insert(p) ==
    /\ ing[p].pc = "insert" /\ writer \subseteq {p}
    /\ IF InCorpus(File1(p).id) \/ File1(p).id \in ing[p].batch THEN RollBack(p)
       ELSE /\ writer' = {p}
            /\ ing' = [ing EXCEPT ![p].batch = @ \cup {File1(p).id},
                                  ![p].rest = Tail(@), ![p].pc = "scan"]
            /\ UNCHANGED corpus
    /\ UNCHANGED crashes

Commit(p) ==
    /\ ing[p].pc = "scan" /\ ing[p].rest = <<>>
    /\ WriteStream([d \in ing[p].batch |->
                        NewRow(Extracted[d].labels, Extracted[d].txt)])
    /\ ing' = [ing EXCEPT ![p] = Fresh(@.dir, "ok")]
    /\ writer' = writer \ {p}
    /\ UNCHANGED crashes

Fail(p) ==
    /\ Working(p) /\ crashes < MaxCrashes
    /\ crashes' = crashes + 1
    /\ RollBack(p)

IngestStep(p) == SkipSeen(p) \/ SkipIngested(p) \/ Extract(p) \/ BadFile(p)
                 \/ Insert(p) \/ Commit(p)

-----------------------------------------------------------------------------
(* The curator: each command is one statement, and waits for the writer     *)

Curate ==
    /\ writer = {}
    /\ \E d \in DOMAIN corpus :
        \/ "push-txt" \in Curators /\ \E t \in Txts : UpdateTxt(d, t)
        \/ "ack" \in Curators /\ (AckTxt(d) \/ AckNlp(d))
    /\ UNCHANGED <<ing, writer, crashes>>

IngestNext ==
    \/ \E p \in Ingesters : \/ StartIngest(p) \/ RunAgain(p)
                            \/ IngestStep(p) \/ Fail(p)
    \/ Curate

\* An ingest runs on, and its user repairs the directory and runs it again when
\* it has failed.
IngestSpec ==
    /\ IngestInit /\ [][IngestNext]_ingestVars
    /\ \A p \in Ingesters : /\ WF_ingestVars(IngestStep(p))
                            /\ WF_ingestVars(RunAgain(p))

-----------------------------------------------------------------------------
(* Properties                                                              *)

Books(dir) == {f.id : f \in Range(dir)}
GoodBooks(dir) == {f.id : f \in Good(dir)}

\* A directory is ingested as a whole or not at all: whenever rows are added,
\* all the books of the directory they come from are in the corpus, whatever
\* other ingests and crashes do.
IngestAllOrNothing ==
    [][DOMAIN corpus' \ DOMAIN corpus # {} =>
        \E p \in Ingesters : /\ ing[p].pc = "scan" /\ ing'[p].pc = "ok"
                             /\ Books(ing[p].dir) \subseteq DOMAIN corpus']_ingestVars

\* Running ingest-meta again never touches a row that is there: the text and
\* the acknowledgements the curator has worked on are safe, also when the row
\* appeared after the ingest had looked for it.
IngestKeepsCuration ==
    [][(\E p \in Ingesters : ing'[p] # ing[p]) =>
        \A d \in DOMAIN corpus : InCorpus(d)' /\ corpus'[d] = corpus[d]]_ingestVars

\* doc/workflow.md:72-73: the books of a directory are stored.  Run again as
\* often as it fails, an ingest has every book it can read in the corpus at
\* last: copies in the directory, books that are there already and a second
\* ingest of the same books do not keep it from it.
IngestedAtLast ==
    \A p \in Ingesters, dir \in Dirs :
        Working(p) /\ ing[p].dir = dir ~> GoodBooks(dir) \subseteq DOMAIN corpus
=============================================================================
