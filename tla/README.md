# segrob in TLA+

segrob is a command-line program that turns epubs into a searchable database of
tokenised sentences. It keeps two SQLite databases: the *corpus* (staging: text,
NLP payload, acknowledgements, topics) and the *live* database (production:
documents, sentences, and the lemma and label indexes that searches use). This
directory models the commands that change these databases, the searches that
read them while they change, the algorithms that decide what a search returns and
prints, and the command line that starts all of it; TLC checks the models on small
instances, and TLAPS proves the safety of the commands that write, of searches, of the
matcher, of the sampler and of the command line for every instance.

Paths below are relative to `src/`.

## 1. The system

| Component | Source | State | Operations |
|---|---|---|---|
| Live document store | `storage/sqlite/zombiezen/doc_store.go`, `sql/live_*.sql` | `docs`, `labels`, `sentences`, `sentence_lemmas`, `sentence_labels` | WriteMeta, UpdateLabels, WriteNlpData, Write/Delete…Optimization, DeleteNlpData, DeleteMeta, FindCandidates |
| Corpus store | `…/corpus_store.go`, `sql/corpus.sql` | `corpus` | WriteStream, WriteNlp, ClearNlp, UpdateTxt, AckTxt, AckNlp, AddLabel, DeleteLabel, Delete |
| Publication | `cmd/segrob/corpus_publish.go`, `live_unpublish.go`, `corpus_publish_label.go` | what a command has read | publish, unpublish, publish-label |
| Batch publish | `corpus_publish.go` | the list of the batch | publish without an id |
| Live search | `expr.go`, `query/query.go` | cursor, page, results | find, query |
| Ingestion | `corpus_ingest_meta.go`, `db.go` | one long transaction | ingest-meta |
| Curation | `corpus_ingest_nlp.go`, `corpus_push_txt.go`, `corpus_ack.go`, `corpus_set_label.go`, `corpus_rm.go` | what ingest-nlp has read | ingest-nlp, push-txt, ack, set-label, rm |
| Backup | `corpus_backup.go` | the copy, the output file | backup |
| Topic store | `…/topic_store.go`, `topic/topic.go` | the topic tables of both databases | Upsert, Rename, CopyDefault, Delete |
| Topic commands | `edit/edit.go`, `corpus_edit.go`, `corpus_ingest_topic.go`, `corpus_publish_topic.go`, `live_unpublish_topic.go` | the library an editor holds, what a bulk command still has to write | edit, ingest-topic, publish-topic, unpublish-topic |
| Matcher | `match/match.go` | chains of tokens | matchExpr |
| Sampler | `sample/topic/topic.go` | two scans, matches per string of an expression | Sample |
| Rendering | `render/render.go` | the text printed so far | Render, in formats all and part |
| Epub extraction | `epub/`, `storage/label.go` | text so far, depth of ignored tags | metadata, text, labels column |
| Command line | `cmd/segrob/main.go`, `corpus_command.go`, `live_command.go`, `parse*.go`, `setup.go` | options and arguments read so far | dispatch, help, the arguments of all 33 subcommands, the databases they open |
| Statistics, listing and dump commands, NLP scripts | `stat/`, `cmd/segrob/*_ls.go`, `*_show.go`, `*_dump_*.go`, `scripts/` | none that outlives a call | see section 9 |

How they interact. Every command is a process of its own; nothing but the two
database files is shared. A writer method of a store is one savepoint or one
statement, so SQLite runs it atomically; a command is several of them, with
checks in between that are transactions of their own. Documents go

    epub -> ingest-meta -> (push-txt, ack txt) -> ingest-nlp -> (ack nlp)
         -> publish -> live -> unpublish

and searches read the live tables all the time.

What is hard:

* *Crashes and other commands between two transactions.* `publish` is four
  transactions with a check before each, `unpublish` four in the opposite order,
  `publish-label` three. A document must never be half visible, and each command
  must be able to complete what another one left.
* *Foreign keys.* The DSN asks for them with `_foreign_keys=on`
  (`storage/sqlite/zombiezen/db.go:23`), a parameter of another driver (mattn's), which the one in use does
  not interpret; `Publication` therefore has the constant `ForeignKeys` and the
  runs take FALSE, the harder case. The order of the transactions has to keep
  the tables consistent by itself, and rowids are used again after a deletion.
* *State read and used later.* `ingest-nlp` reads the acknowledgement and the
  text and writes minutes later; a backup reads each column of a row at another
  time; the editor writes whole topics from what it read at its start;
  `FindCandidates` runs two statements with nothing around them.
* *Paging.* Searches follow a rowid cursor through a table that changes; the
  sampler scans a range from a random row and wraps round.
* *Long transactions.* `ingest-meta` holds one for a whole directory and asks
  another connection meanwhile what is committed.
* *What is in which file.* `backup` compresses the file of a database that is
  open. It asks for `_journal_mode=DELETE`, again a parameter of mattn's driver; if
  that is not interpreted, what was committed may be in the write-ahead log beside the file.
* *Where options end.* The flag package stops at the first argument; some commands
  reject what follows, others take it for arguments or do not look at it.

## 2. Modules

| Module | Models | Composes |
|---|---|---|
| `Documents` | ids, labels, payloads | |
| `DocStore` | the live tables and their transactions | `Documents` |
| `CorpusStore` | the corpus table and its transactions | `Documents` |
| `LiveCatalog` | *abstract*: documents that are hidden or shown whole, filed under a set of labels or under none | |
| `Publication` | publish, unpublish, publish-label, the curator | `DocStore`, `CorpusStore`; implements `LiveCatalog` |
| `BatchPublish` | publish without an id, its user | `Publication` |
| `Publication_proofs` | theorems, the refinement among them, and one about the batch | `BatchPublish` |
| `Search` | find and query while publication goes on | `Publication` |
| `Search_proofs` | theorems | `Search`, `Publication_proofs` |
| `Ingest` | ingest-meta, concurrent ones, a curator | `CorpusStore` |
| `Ingest_proofs` | theorems | `Ingest` |
| `Curation` | ingest-nlp, push-txt, ack, rm, the last step of `--move` | `CorpusStore` |
| `Backup` | backup while the curation goes on | `Curation` |
| `Backup_proofs` | theorems about the curation and the backup | `Backup` |
| `TopicStore` | the topic tables and their transactions | |
| `Topics` | editors, bulk commands, clients of the library | `TopicStore` |
| `Matcher` | Parse, matchExpr token by token, and which sentences are candidates | |
| `Render` | what is printed of a match | `Matcher` |
| `Matcher_proofs` | theorems about the matcher and what is printed | `Render`, `SequenceLemmas` |
| `Sampler` | Sample, scanRange, selectDistributed | |
| `Topics_proofs` | theorems about the topics and the sampler | `Topics`, `Sampler` |
| `LabelColumn` | the labels column: normalization, join and split | |
| `Epub` | from an epub to its text and its labels column | `LabelColumn` |
| `CommandLine` | the dispatch of a line and the arguments of every subcommand | |
| `Session` | a user who types lines: databases opened, set-label to its end in the column | `Epub`, `CommandLine` |
| `Session_proofs` | theorems about lines, the labels column and the text of an epub | `Session`, `SequenceLemmas` |
| `SequenceLemmas` | lemmas: induction up to a number and along a sequence, FlattenSeq | |
| `MC*` | instances for TLC | |

How code becomes steps. A transaction of a store is an operator of `DocStore`,
`CorpusStore` or `TopicStore`; a command is a process with a program counter
named after the next transaction, its action evaluates the check or runs the
transaction, and its locals are a record (`job`, `run`, `bk`, `find`, `ing`).
`pub_has_labels`, say, is `HasLabelsOptimization` in `publishOne`, and
`PubHasLabels` branches on it. An error return is `Refused`, and a stop for any
other reason (a crash, a database error, a closed terminal) is `Fail` when
`Crashes` is TRUE: all of them leave the stores as the last commit left them. An
UPDATE or DELETE whose WHERE clause matches nothing succeeds, as in SQLite.

Abstractions. Characters matter in `LabelColumn`, `Epub`, `Session` and `Render` and
nowhere else; letters stand for themselves, and other characters have names ("comma",
"newline"). In the other modules a text, a payload, a label, an expression is a model
value. A line of `CommandLine` is a sequence of words, and an option the set of its
names. The sentences of a payload are numbered; the lemma rows of a sentence, always written
in one transaction, are counted together; a label row and its integer id are one
label. In `Search` an expression is the set of sentences that have its lemmas,
in `Sampler` the candidates of an expression are any set of rows, and its string, by
which matches are grouped, is given by a function (`key`) under which two expressions
may have one; what makes a sentence match is the subject of `Matcher`. An int is a number
up to `MaxInt` in `Matcher`, where a sum of two may overflow, and a number elsewhere. Operators marked "A wrong variant,
for mutation" are not part of the model: each is a plausible bug, and replacing
the definition that follows it by the variant makes TLC find one of the
properties violated.

Lists and sorting. A loop over a list is modelled by what is left of it: a set whose next
member is `Current` where the order of the list is that of the table (`BatchPublish`),
a sequence where it is part of the state (`Topics`, `Sampler`). `ORDER BY` is an operator
that counts how many rows come before each (`InOrder`), the deduplication of a topic a
recursive function (`Deduplicate`), and so are the reading of a line (`ParseFlags`) and the
writing of a sentence (`SentenceText`). A loop that writes a piece for each character or token
is FlattenSeq of the pieces (`NormalizeLabel`, `CollapseLines`, `CleanForNLP`), and a label
column is joined by FoldSet. All of these can be reasoned about for every length, which the
library's SortSeq and SelectSeq do not allow in a proof. The topics that publish-topic reads
come in any order, which includes that of their names.

Operating assumption. `Exclusive` is TRUE when at most one of publish, unpublish
and publish-label works on a document at a time (the program has no lock
that ensures it; its user does). Commands on different documents, the curator
and the searches are not restricted. Section 7 says what happens without it.

## 3. Plan

Done, in this order: the two stores and publication, with its abstract
specification; its theorems; batch publish; search; ingest; curation and backup;
topics; matcher with Parse; sampler; the epub and the labels column; the command
line; rendering; theorems about curation, backup, ingest, topics and the sampler;
whole documents and the refinement of the catalog as theorems; theorems about search;
the batch, the matcher, the topics, the sampler and the rest of search as theorems;
theorems about the command line, the labels column, the text of an epub and what is printed.

What is left:

1. The library of the query REPL, the prefix lookup of topics in the editor
   (`edit/edit.go:174`) and find-topics, composed with `Topics`.

## 4. Runs

Each `MC*.cfg` gives the constants of one run; all of them check for deadlock but
readers, epub and set_label, whose behaviours end, and batch, whose corpus may become empty.

| Run | Configuration | Question |
|---|---|---|
| exclusive | `MCExclusive` | Do publish, unpublish and publish-label keep the live tables consistent, through crashes and resumptions, and do they do what they report? |
| catalog | `MCCatalog` | Do they implement the abstract catalog, with `--force`, `--move`, new NLP runs and removals? |
| search | `MCSearch` | What may a paged search rely on while documents come and go? |
| batch | `MCBatch` | Does the batch, run again after failures, bring everything live? |
| ingest | `MCIngest` | Is a directory ingested as a whole and without touching curated rows? |
| backup | `MCBackup` | Is an earlier backup given up only when all has been copied, and are the rows coherent; does NLP need an acknowledged text? |
| topics | `MCTopics` | Are the topics of the commands free of duplicates, are mutations kept, does live follow the corpus? |
| readers | `MCReaders` | Does matchExpr find exactly the occurrences, among the candidates, and is what is printed of them the text of the book? Do the two scans of the sampler lose nothing, do they keep the budget in what they count, and is the sample fair? |
| epub | `MCEpub` | Is the text of a row the text of the book, its labels column the labels it was given, and does a line do what it says and no more? |
| resume_labels | `MCResumeLabels` | *Violated*, section 6. |
| batch_move | `MCBatchMove` | *Violated*, section 6. |
| set_label | `MCSetLabel` | *Violated*, section 6. |

`MCReaders` puts two components into one run that share no state: a behaviour of it is
one of the matcher and the printer, with the sampler at rest, or the other way round.

Bounds, and why they are enough.

* *Publication*: two documents and two processes in `exclusive`, so that commands
  overlap on different documents and reuse each other's rowids, with one payload of
  two sentences (a document can be half written and half indexed) and one label;
  `MaxRowid` = 4 is what two documents need. There is no bound on the number of
  commands, crashes or changes of labels: any sequence of resumptions is there.
  `catalog` has one document and one process, two labels (sets that are neither
  equal nor disjoint) and all options.
* *Batch*: two documents with all initial acknowledgements, two payloads of two
  and one sentences, removals, one crash and one new payload. Crashes have to
  be bounded for a liveness property, or the batch may crash for ever.
* *Search*: pages of one candidate and a budget of three, so that each search has
  several pages and every boundary; one command of another process starts during a
  search (`MaxStarted` = 1, counted in `started`), which may go on and off between
  any two statements; three requests (a find with a limit, a find for an expression
  without lemmas, a query with two expressions and a label: the lemmas of both
  sentences, and of the first one only). The other process publishes and unpublishes;
  publish-label is left out, as `FindsWholeDocuments` does not hold with it (section 7).
* *Ingest*: two processes, two books, six directories: with a copy, in the
  opposite order, with a file that cannot be parsed, with one that cannot be
  read, and what is left of the last two when the file has been taken out; one crash.
  `PoolSize` = 2; with 1 TLC reports the deadlock of section 7.
* *Backup*: two books whose texts an edit can interchange, one ingest-nlp, one
  backup, in both journal modes; `MaxUses` bounds the history of exceptional events
  (push-txt, --force, rm, --move) to one, so that each of them is met alone.
* *Topics*: two names, two keys, one editor, two bulk commands, two clients, three
  edits and one crash: two overlapping writers and what a third one left.
* *Matcher* (readers): all sentences of up to four tokens over three tokens, all
  inputs of up to three arguments over four words and the numbers -1 to 3, some of
  five, and the expressions with a lemma and a tag or with a part of speech that
  only topics have. `MaxInt` = 4 (2^63 - 1 in the code), so that a distance of 3 overflows
  behind the third of four tokens and does not behind the others.
* *Rendering*, in the same run: four layouts, with words that touch, words apart, a
  line break, words of two and of three tokens, and a sentence at the beginning of a
  book. `PartialOffset` = 1 (6 in the code), so that a sentence of four tokens is cut on
  either side, on both, or on none.
* *Sampler* (readers): all sets of candidates and of accepted rows among three rows for two
  expressions, with one string or two (`MCKeyings`), every random row, every order and five
  options; `MaxBatch` = 2 makes batches smaller than the candidates.
* *Epub*: all chapters of up to five tokens over six tags and two texts, which nest and
  mismatch ignored elements, blocks and breaks in every way; all spines of up to three
  itemrefs over a manifest with a doubled id, a file found in either place, one
  that is missing, one that is malformed, one with an entity escaped twice, one with an entity
  of HTML and a bare ampersand, and an id nobody knows; four sets of metadata.
* *Command line*, in the same run: every subcommand with up to three words out of those
  that mean something to it (each of its options, an argument, `--`, --help), alone and
  after `help`; all lines of up to three words over group names, unknown words, `--` and
  --help; two environments, one without databases. Then two more lines (`MaxLines` = 3) of
  set-label, with labels full of commas and labels that look like options, so that one
  book is given and loses labels. `Vocabulary` is the words of all these lines.
* *set_label*: the same books without tokens (`MaxTokens` = 0) and three lines of set-label:
  a label added, and a label deleted with the option in front and behind the id.

## 5. Properties and fairness

Type invariants are proved (section 8), and so no run repeats them, but that of
`Topics`, whose run shows what a crash must not leave behind. The others:

* *Publication* — `Integrity`: no row without its parent. `LabelIndexAgrees`: each
  sentence is indexed under exactly the labels of its docs row, or no sentence is.
  `WholeDocuments`: what searches can reach of a document is one whole payload,
  once. `UnpublishLeavesNothing`, `PublishGoesLive`, `PublishLabelHeals`: what a
  command that reports success has done, whatever had crashed before.
  `ImplementsCatalog`: refinement, with `Shown` and `Filed` as the mapping; a
  document indexed in part maps to a value the catalog does not have.
  `MoveLosesNothing`: `--move` clears only payloads that are live.
* *Batch* — `BatchIsComplete`, `AcknowledgedGoLive` (liveness).
* *Search* — `FindsEachOnce`, `FindMissesNothing`, `FindsWholeDocuments`,
  `FindsOnlyLive`, `FindNearsLimit`, `FindEnds` (liveness). `FindNearsLimit` says where a
  search stops, from both sides: not before its limit, and less than a page behind it, which is
  not what the help of `--limit` says (section 6). The variables `steady`,
  `wasLive`, `removed` and `started` are histories of one search.
  A query goes through its expressions one after the other, each from the
  first row, so that `FindsWholeDocuments` is about each of them: a document that goes
  live between two is whole in the second and absent from the first.
  `removed` names the two exceptions the code really makes: rows of a live document
  taken down during the search, and rows deleted between the two statements for
  a page (the page then comes back empty, the cursor does not move, and the loop
  ends early).
* *Ingest* — `IngestAllOrNothing`, `IngestKeepsCuration`, `IngestedAtLast` (liveness).
* *Curation, Backup* — `NlpNeedsTxtAck`, `BackupIsComplete` (an earlier backup is given
  up only when all rows and topics are in the temporary database, and, with the journal the
  command asks for, for a file that has all of them; nothing is said of a file that is
  written while there is a write-ahead log, see section 6), `BackupRowsAgree`. The
  history `used` names the documents that have seen a push-txt, an rm, a
  --force or a --move, which is where the properties make exceptions.
* *Topics* — `NoDuplicates` (in the topics of the commands, those of the global user: a
  client of the library may append to the topic of its user what is there, as the example in
  the comment of `Upsert` does, and Upsert does not look), `MutationsKept`, `OwnTopicsKept`, `TopicsSyncAtLast`
  (liveness).
* *Matcher* — `ChainsAreOccurrences` against a definition without an algorithm,
  `MatchesAreCandidates`.
* *Rendering* — `PrintedIsText`: what is printed is the text of the book between two
  words, against a definition by offsets; `MatchesAreBright`: each matched word, in whichever
  part of the sentence is shown, is there and in colour, and no other.
* *Sampler* — `BudgetIsKept`: what the two scans count keeps to one budget, and how many
  rows they are handed without counting them; `ScansFindAll`; `SampleIsFair`: the part that is
  reserved for each string, and so for each expression but for those written the same;
  `StopsLate`, `SampleEnds` (liveness).
* *Epub* — `TextIsReading` against a definition that counts no depth of what is outside the
  ignored elements: entities are decoded once, and lines end at br and at the code's own list of
  block tags, so that the property does not say whether that list is the right one (cells of a
  table run together);
  `LabelColumnIsSet`: the set operations of `CorpusStore` (`AddLabel`, `DeleteLabel`)
  are what the code does to the column; this is why the other modules have sets.
* *Command line* — `HelpOnlyPrints`: a line that asks for help opens no database;
  `LineIsHeeded`: a command that runs heeds every option of its line. Both read the line
  as a person does, without the state machine of the flag package, and both make an
  exception of the commands that pass over what follows their first argument (section 6 has
  `DeleteDeletes` for one of them). After a
  `--` there are no options, and a `--` that ends a help line makes its --help an argument.

Fairness is weak and on the steps of the process the property is about: a running
command is scheduled, and its transactions wait for a lock for a bounded time
only. Two properties need a user as well, and say so: the batch and
an ingest are run again when they have failed (`BatchStep` contains
`ListCandidates`; `RunAgain`), since their messages and the workflow tell the
user to, and `publish-topic` is run again (`BulkStep`). No fairness is assumed of
the curator, the editor, a crash, or any other command.

## 6. Where code and documents disagree

* **resume_labels** (`corpus_publish.go:92`). `labelIDs` is set only when WriteMeta
  runs. A publish that stopped after WriteMeta and is run again finds the docs row,
  keeps `labelIDs` empty, writes a label index without rows, and succeeds: the
  document is live and no label filter finds it. The comment at
  `corpus_publish.go:60` calls the phases idempotent. publish-label repairs it
  (`PublishLabelHeals`); until then the document is what the second case of
  `LabelIndexAgrees`, no label rows at all, describes.
* **batch_move** (`corpus_publish.go:67`). `--move` empties the payload and leaves the
  acknowledgements, so the next batch lists the document again, fails at it, and
  stops, each time; documents behind it do not go live
  (`doc/workflow.md:120`, "Batch publish all acknowledged documents").
* **set_label** (`parse_corpus.go:724`). `doc/workflow.md:138` has
  `segrob corpus set-label <doc_id> --delete "old:label"`. The flag package stops at the id, so
  `--delete` is an argument: the command adds the label that it was to remove and one named
  `--delete`, and succeeds. The usage text has the options first (`parse_corpus.go:700`), where
  they are read.

The others have no run of their own. The properties are about what the code does keep, and
their comments name what it does not:

* `--limit` is the "Maximum number of results to return" in the help of find
  (`cmd/segrob/parse_live.go:328`). `expr.go:56-84` looks at it between two pages only, and
  reports up to a page more (`FindNearsLimit`).
* `doc/workflow.md:216`: "The backup command produces a gzipped SQLite file containing the
  two staging tables: `corpus` and `corpus_topics`." The backup compresses the file of a
  database that it has not closed (`corpus_backup.go:82`). It asks for `_journal_mode=DELETE`,
  which the driver, opened with `OpenWAL` (`db.go:31`), does not interpret as far as this
  repository tells. With a write-ahead log the file lacks what is still in it: the topics, or
  in a small backup everything, tables included. `Backup` has both journals (`InFile`), and
  `BackupIsComplete` claims what is written for the other one only.
* `CandidateBudget` "limits the total number of candidates fetched from storage per
  expression" (`sample/topic/topic.go:39`). Only rows inside the range of a scan are counted:
  `ErrStopScan` does not stop the wrap scan, which goes on behind the random row and reads
  each candidate there once more (`BudgetIsKept`).
* `MinSizePerExpression` reserves matches "for every distinct expression found"
  (`sample/topic/topic.go:33-35`). The matches are grouped by `expr.String()` (line 108), which
  leaves out the tag beside a lemma, the part of speech, the dependency and a distance that is
  not positive (`topic/topic.go:28-43`): expressions that differ in these share one part
  (`SampleIsFair`).
* html.UnescapeString is to be "a perfect "catch-all"" that "safely and accurately decodes all
  named and numeric entities" (`epub/epub.go:287-289`). RawToken has decoded those of XML
  before: `&amp;lt;`, which a reader sees as `&lt;`, becomes `<` (`Unescape`;
  `TextIsReading` leaves chapters with such text out, and TLC finds it violated if they are
  not).
* "Items 1..n: must have Near > 0" (`match/match.go:84`): `Parse` accepts a negative distance,
  and one next to the largest int, and matchExpr panics (`ChainsAreOccurrences`).

## 7. Known deviations without a run

Met while modelling. The runs exclude them by a named parameter, or a property says that it
leaves them out; we know of no document that promises the contrary of one of them.

* Two overlapping publishes of one document (`Exclusive` FALSE) insert its sentences
  twice: nothing makes (doc_id, sentence_id) unique. `WholeDocuments` fails;
  with foreign keys enforced `Integrity` still holds (theorem `ForeignKeysSuffice`).
* A payload that changes between a crash and the resumption gives sentences of one and
  lemmas of the other; one that changes during a `publish --move` is cleared
  unpublished. `exclusive` and `catalog` therefore have one payload per document.
* A payload without sentences is published with success and is never live:
  `NumSentences` is positive in the runs.
* txt_ack and nlp_ack survive a new text and a new payload (`UpdateTxt`, `WriteNlp`), and
  `ack --nlp` is accepted before there is a payload.
* ingest-nlp reports success for a row that was removed while its script ran.
* `--move` clears a payload and leaves `nlp_created_at`, by which `HasNlp` goes
  (`storage/storage.go:216`): the document passes for one with a payload, in lists and in
  backups. `BackupRowsAgree` leaves such documents out.
* publish-label takes a live document off the label index for a while, and a search with
  a label then finds some of its sentences and not others: `FindsAreWhole` leaves it out.
* A search for a label that does not exist drops the filter; an expression without
  lemmas finds nothing; the query REPL reports a sentence once per expression.
* An editor overwrites what others stored in a topic since it opened.
* With a pool of one connection (one CPU) ingest-meta waits for itself for ever
  (`CanTake`): TLC finds the deadlock with `PoolSize` = 1; the run has two.
* More reserved matches than `Size` make the sampler panic, a state of the model; the
  property says when it is reached.
* The match in the random row is counted twice by the sampler.
* Upsert does not deduplicate: a client of the library that appends without looking leaves an
  expression twice in the topic of its user (`WriteMutation`).
* A lemma field `a|b`: the matcher accepts either lemma (`match/match_test.go:136`), but
  `Lemmas` (`topic/topic.go:46`) asks the index for a lemma `a|b`, so no search finds
  what the matcher would accept. `MatchesAreCandidates` is about the other fields.
* An end tag of an ignored element that never began makes `ignoreDepth` negative, and
  the next script or style sheet goes into the text; `TextIsReading` leaves such
  chapters out. Text in td, th or dt runs together with what follows: they are
  not in `BlockTags`.
* A label of nothing but commas is stored as the empty label, which comes and goes with
  the other labels of its row.
* A slash as last argument of the editor leaves an empty argument, at which `Parse`
  panics (`topic/topic.go:102`).
* Of two words, one that begins before the end of the other makes `strings.Repeat` panic
  (`render/render.go:184`), unless they have one offset. The scripts write no such words,
  and `RenderAssumption` has none.
* A failed backup removes or truncates an earlier one at the same path.
* `help` puts --help at the end of the line, and the flag package stops before it: `help
  corpus set-label 5 foo` gives document 5 a label "--help", `help corpus backup x` runs a
  backup and `help live query x` a query, `help corpus push-txt 5` opens the database and
  then fails to read a file --help; `help corpus ls --db` opens a database named --help; `help help` fails with "unknown command: --help".
* A `--` ends the options, and a help line that ends with one has --help for an argument:
  `help live init --` makes a database named --help.
* Options after the first argument are passed over by the other commands that accept a second
  one or do not count them, too (`Loose`): in `live find a --limit 3` the option is part of the
  expression, and there is no limit.
* `live find` and `live ls` call the database --doc-path, the other commands --db.
  A database that does not exist is created, empty, by all commands but these two.
* The first sentence of a book begins at offset 0, which `sentence` takes for "nothing
  written yet" (`render/render.go`): the blank after its first word is lost, and a first
  word of several tokens is printed twice. `PrintedIsText` says so.
* A match of a later part of a word of several tokens is not in colour, unless
  the window begins with it (`MatchesAreBright` is about the others).
* A negative --number makes show panic (`cmd/segrob/render_doc.go:23`).

## 8. Proofs

Each theorem holds for all values of the constants that satisfy the `ASSUME`s of the
modules it extends: all sets of documents, labels, payloads and processes, all
options, with crashes or without. Nothing else is assumed but what the last column says.

| Module | Theorem | Statement | Assumes |
|---|---|---|---|
| `Publication_proofs` | `TypeCorrect` | `Spec => []TypeOK` | |
| | `IntegrityHolds` | `Spec => []Integrity` | `Exclusive` |
| | `LabelIndexHolds` | `Spec => []LabelIndexAgrees` | `Exclusive` |
| | `ForeignKeysSuffice` | `Spec => []Integrity` | `ForeignKeys` |
| | `UnpublishRemovesAll` | `Spec => UnpublishLeavesNothing` | `Exclusive` |
| | `PublishLabelRestores` | `Spec => PublishLabelHeals` | `Exclusive` |
| | `PublishMakesLive` | `Spec => PublishGoesLive` | `Exclusive`, `AllHaveSentences` |
| | `DocumentsAreWhole` | `Spec => []WholeDocuments` | `Exclusive`, `StablePayloads` |
| | `MovesLoseNothing` | `Spec => MoveLosesNothing` | all three |
| | `CatalogIsImplemented` | `Spec => ImplementsCatalog` | `Exclusive`, `StablePayloads` |
| | `BatchesAreComplete` | `BatchSpec => []BatchIsComplete` | `Exclusive`, `AllHaveSentences` |
| `Search_proofs` | `FindReportsOnce` | `SearchSpec => []FindsEachOnce` | |
| | `SearchFindsLive` | `SearchSpec => []FindsOnlyLive` | |
| | `SearchNearsLimit` | `SearchSpec => []FindNearsLimit` | |
| | `FindMissesNoMatch` | `SearchSpec => [](find.pc = "done" /\ Len(Exprs) <= 1 => FindMissesNothing)` | |
| | `SearchMissesNoMatch` | `SearchSpec => []FindMissesNothing` | `Exclusive`, `StablePayloads` |
| | `FindsAreWhole` | `SearchSpec => []FindsWholeDocuments` | `Exclusive`, no publish-label |
| `Backup_proofs` | `CurationIsTyped` | `CurationSpec => []CurationTypeOK` | |
| | `NlpIsOfAckedTxt` | `CurationSpec => []NlpNeedsTxtAck` | |
| | `BackupIsTyped` | `BackupSpec => []BackupTypeOK` | |
| | `BackupsAreComplete` | `BackupSpec => BackupIsComplete` | |
| | `CopiesAgree` | `BackupSpec => []BackupRowsAgree` | |
| `Ingest_proofs` | `IngestIsTyped` | `IngestSpec => []IngestTypeOK` | |
| | `DirectoriesGoInWhole` | `IngestSpec => IngestAllOrNothing` | |
| | `CurationIsKept` | `IngestSpec => IngestKeepsCuration` | |
| `Topics_proofs` | `TopicsAreTyped` | `TopicsSpec => []TopicsTypeOK` | |
| | `TopicsHoldEachOnce` | `TopicsSpec => []NoDuplicates` | |
| | `MutationsAreKept` | `TopicsSpec => MutationsKept` | |
| | `UsersKeepTopics` | `TopicsSpec => OwnTopicsKept` | |
| | `SamplerIsTyped` | `SamplerSpec => []SamplerTypeOK` | |
| | `ScansKeepBudget` | `SamplerSpec => []BudgetIsKept` | |
| | `ScansMissNothing` | `SamplerSpec => []ScansFindAll` | |
| | `SamplerStopsLate` | `SamplerSpec => []StopsLate` | |
| | `SamplesAreFair` | `SamplerSpec => []SampleIsFair` | |
| `Matcher_proofs` | `MatcherFindsAll` | `MatcherSpec => []ChainsAreOccurrences` | |
| | `IndexLeadsToMatches` | `MatcherSpec => []MatchesAreCandidates` | |
| | `PrintsTheText` | `RenderSpec => []PrintedIsText` | |
| | `MatchesShine` | `RenderSpec => []MatchesAreBright` | |
| `Session_proofs` | `HelpRunsNothing` | `SessionSpec => []HelpOnlyPrints` | |
| | `LinesAreHeeded` | `SessionSpec => []LineIsHeeded` | |
| | `ColumnIsSetOfLabels` | `SessionSpec => []LabelColumnIsSet` | |
| | `TextReadsAsBook` | `SessionSpec => []TextIsReading` | |

`StablePayloads` says that the NLP of a document is not run again with another result,
and `AllHaveSentences` that no payload is empty; section 7 says what the code does otherwise.

**Publication.** `TypeOK` is not inductive: a publish that writes sentences must hold
a payload, which `PayloadRead` adds. `Integrity` and `LabelIndexAgrees` are not
either: that a row may be written or deleted safely depends on what the process has
done before. The inductive invariant is

    IInv == TypeInv /\ Integrity /\ LabelIndexAgrees /\ OnePerDocument
            /\ \A p \in Procs : Progress(p)

where `OnePerDocument` says that two active processes work on
different documents, and `Progress` what the program counter of a process tells of
its document: past `pub_write_meta` the docs row exists, past `unp_has_lemmas` no
lemma row is left, between `lab_delete` and `lab_write` no label row, and so on.
A step of a process changes rows of its own document only (`LiveEffects`,
`OtherDocumentsUntouched`), so by `OnePerDocument` it leaves the `Progress` of every
other process alone (`OthersUnmoved`, `UntouchedKept`), and only its own has to be
looked at, action by action (`OwnProgress`, `OwnLabelsAgree`). The rows a publish adds
get rowids above all in use, which by `Integrity` no index row mentions: this is
where an orphan would be adopted, and why `Integrity` and `LabelIndexAgrees` are
proved together. `ForeignKeysSuffice` needs no `Progress`: each transaction SQLite
does not refuse keeps `Integrity`. The two action properties combine the invariant
with what the last lines of a command do (`LastLines`).

**Whole documents, and the catalog.** `WInv` adds to `IInv` that the sentences of a
document are none or those of one payload, each once (`Stored`), and what a publish
has passed (`Reached`): that it found sentences before it writes an index, and
an index before it clears the payload. `PublishMakesLive` is `WInv` at the last lines of a
publish. `OnePayload` says that the row in the corpus, what the commands have read and
the sentences stored of a document are of the same payload, and that none of these
sentences is indexed or each of them once; it is inductive under `StablePayloads`, and
with `WInv` it gives `WholeDocuments` and `MoveLosesNothing`.
For the refinement, `ShownIs` and `FiledIs` compute the mapping from the
invariants: a document is shown as its payload as soon as a lemma of it is indexed, and
filed under nothing while it has no label row. As a step changes the rows of
one document only (`OtherCatalogStep`), `OwnCatalogStep` has to go through the
transactions for that one: each shows, hides, files or unfiles it, or does none of these.

**Batch.** `BatchInv` adds to `WInv` that the listed documents that are no longer to do
are live (`DoneAreLive`). Each becomes so by the argument of `PublishMakesLive` when its publish
ends, and stays so although the curator and the payloads change until the end of the batch,
since no transaction of a publish takes a document out of the searches (`PublishKeepsLive`).

**Search.** `BehindCursor` says that what a find has reported is behind its cursor and
the page before it; `PageWasLive` that the rows of a page, once selected, are those of live
documents, which they stay until a row goes; `Room` that each page begins below the limit.
They need two facts about rows: that a page of n rows has n rows at most
(`PageSizeBound`), and that the rows of a set, put in order, are all there, once and
increasing (`InOrderIs`). Both follow from the rank of a row, the number of rows before it
(`BeforeIsRank`): it is an injection into as many numbers as there are rows.
No assumption is made on the commands, so the three hold even where two of
them work on one document.

That nothing is missed needs what the search has left behind: `MissInv` says of every
match that has been there since the beginning (`steady`) that it has been found if its
row is not after the cursor (`NothingBehind`), and that a page takes the next rows there are,
so that the cursor passes over none (`NoGap`). For a find this holds whatever the commands
do. In a query a match belongs to the expression that has its lemmas, so that
the lemmas indexed for a row must stay those of its sentence (`PayloadsIndexed`),
which `OnePayload` gives and two overlapping publishes would not.

That documents are found whole is about rows that come *during* the search.
`Arranged` says how they come: the rows of a document lie together, since a publish
adds them in one transaction above all others (`Together`), and the labels of a
document are indexed while its lemmas are not yet (`Fresh`). `WholeInv` says that a match
not found yet is ahead of the cursor, or of a document of which nothing was reported and
all of whose rows are behind the cursor: the cursor stands on a live row (`CursorIsLive`), so
never inside a document that is to come. A rowid is used again only after
a row has gone, which `removed` tells.

**Curation.** `NlpNeedsTxtAck` is not inductive since ingest-nlp checks first and
writes later. `RunsAreCovered` says why it may: the row that a run has found acknowledged
stays so until it is removed, as no command takes an acknowledgement back.

**Backup.** `BackupProgress` says what has been copied at each stage: a row of the list
is in the copy or still to do, and the file is the copy unless there is a log.
That rows agree needs in addition that in the corpus a payload is that of the text
(`RowsAreExtracted`), or a push-txt or --force explains why it is not, that what a
run of ingest-nlp has read will be so when it is stored (`RunsAreExtracted`), and that list,
copy and output agree with the corpus at the time they were read (`ListAgrees`,
`BatchAgrees`, `OutputAgrees`). A history only grows (`SawStays`), so that
what was read once stays agreed, whatever happens in the corpus meanwhile.

**Ingest.** `OneWriter`: whoever has rows in a batch holds the write lock, so the
rows it has found absent are absent when it commits. `NoneIsLost`: the
books behind the iterator are in the batch or in the corpus, and the rest is ahead.

**Topics.** For `OwnTopicsKept` it is enough that the tables are there (`Tabled`): the
commands write under the global user or, in the live database, add what is not
there (`CopyDefaultKeeps`), and a rename finds no row under the new name
(`RenameKeeps`). That the topics of the global user hold each expression once (`TablesProper`)
must also be known of the libraries of the editors, whose lines are saved as a whole, but not
of what a bulk command still has to write: that comes from files, and is deduplicated when
it is written; nor of the topics of named users, which the model's clients write, with
an expression that was there or not. `MutationsKept` rests on
`TransactionOK`: what a transaction has read is the topic in the snapshot it began with, and
it writes only if that is still the last one.

**Matcher.** `ChainsComplete` is the property, the occurrences of the items done
so far, in reading order. The loop that extends them is half way through a chain most of the time:
`ExtendedSoFar` says that the new chains are those of the pairs of a chain and a token
it has come to (`Visited`), in the order of the pairs. As an occurrence of n + 1 items
is one of n items with a token after it (`ExtensionOccurs`, `OccurrenceIsExtension`), they are the
occurrences of one item more when the loop ends. `MatchesAreCandidates` follows: an
occurrence has a token for every item, with its lemma.

**Rendering.** That of a word several tokens come to one, and where the blanks come from, is
told by offsets, and words have them in order: of two words the later one begins where the
earlier one ends or after it, or they are parts of one word (`Later`). So the text of the book
between two offsets can be cut at any word (`BookTextSplit`, `BookWord`, `BookGap`), and what
`WriteToken` writes for a word is what the text of the book gains by it (`BookGrows`,
`WriteNext`). `Well` says so of what is written up to a word, and the induction is along the words of
the part that is shown (`PartIsWell`). The same induction has the letters in bright: each
word adds its own if it is of a match, and a later part of a word adds none. All words of the
matches are in the part that is shown, as it begins before the first and ends after the last
(`WindowIs`), and there is one, since an occurrence has a token for each item and an expression
that matches has items (`TokensAre`). `RenderInv` adds to the invariant of the matcher that what has
been printed is `Rendered`.

**Sampler.** A page is bounded by what is left of the budget. That a page of n rows has
n rows at most (`PageSizeBound`) needs its last row, which exists because natural numbers
are well founded (`LeastNatural`); `PageInBudget` is the rest of that invariant.
`ScanInv` says what the scans have seen: the forward scan the rows from the random one to
its cursor, the wrap scan those up to its cursor and the random row, which is thus in
both; that what was found is what is accepted of these rows, each once but the
random row; and that the budget has been charged for each, for the random row twice. With a
budget above the candidates the second scan is reached with enough left, and the two parts are
all candidates (`TwoPartsAreAll`). `SampleInv` adds the choice: the reserved matches are at
most `minEach` for each string that has any (`ReservedAreFew`), so that a panic means they
exceed the size, and what is left of the size is filled from the other matches.

**Command line.** Both properties are about the line as a person reads it, and what runs is
what `ParseFlags` has read, one word after the other. `ParsedUpTo` says what that is after
the first n words, and the induction is along the words (`UpTo`): in the words before the
first argument each option is given its value (`LeadingRead`), a --help there ends the reading,
and from the first argument on each word is an argument (`ArgsFollow`). So help
in front of a line reaches the subcommand as a --help before its arguments, or as one argument
more than it accepts (`HelpAfterOptions`, `HelpAfterArgs`), and the last
value given for a setting is that of its last option on the line (`ValueMeant`). What
this needs of the subcommands is `WellFormed`: the names of two options are disjoint, none is
help, and one that rejects a second argument accepts no third; it is proved of each of the 33.
The invariant `SessionInv` adds that the databases opened are those of the line that ran.

**The labels column.** `JoinIs` says what FoldSet makes of a set of labels: they stand in some
order with a comma in front of each, and the first comma is dropped. When the labels have no comma, the labels of a
joined column are those that were joined (`JoinSplits`, `JoinedLabels`), but for the column of
the empty label alone, which looks like an empty one; and `NormalizeLabel` leaves no comma in
any text (`NormalizedIsLabel`). `LabelInv` adds to the property that the labels have no
comma and are finitely many. It needs that what is
added and deleted are words of the line (`RunArgs`), which `ParseFlags` only passes on (`ReadWordOf`).

**The text of an epub.** Two texts are alike (`Alike`) when they read the same: the same
letters, and the same between them. What parts a letter from the one before depends on
the characters since then, and a character more changes it in one way (`After`, `GapAppend`);
so texts that are alike stay alike with the same behind them (`SameConcat`, `AlikeConcat`).
Each of the clean-ups leaves the reading as it is: three newlines for two
(`CollapseLinesReads`), spaces at either end of a chapter, which has a line break before and after it
(`TrimSpaceReads`), composed letters (`NfcReads`) and format characters
(`WithoutFormatReads`); the induction is along the characters (`PieceByPiece`). A chapter
is read token by token: `depth` is the number of ignored elements that began less
those that ended (`DepthIs`), and where each that ends has begun, the text at a depth of more than
zero is the text inside one (`InsideIsDeep`: the last token at which the depth was
zero began it). Where no entity is escaped twice, what `Unescape` does to the text outside is
what reading its entities does (`UnescapedIsSeen`). `ReaderInv` says how far the reading has come: the chapters of
the spine up to one, and the tokens of the next up to one.

Induction over data. The induction theorems of the library take an operator as
parameter, which the provers here cannot instantiate. Where a recursive function is
needed (`Deduplicate`, `ParseFlags`, `SentenceText`, and the one inside FlattenSeq and
FoldSet), its existence and its values are proved from the well-founded order of
the numbers: were there a length up to which no such function exists (`KeptUpTo`), there would
be a least one, and the function for the length before it could be extended. `UpTo` and
`AlongSequences` are this argument for a set: one that has 0 and with a number the next one has
all up to n, and one that has the empty sequence and with a sequence the longer ones has them all.

Only model-checked is liveness, which rests on ENABLED: `AcknowledgedGoLive`, `FindEnds`,
`IngestedAtLast`, `TopicsSyncAtLast`, `SampleEnds`. Every invariant and every action property
that a passing run checks is a theorem.

## 9. Not modelled

* The XML tokenizer (`Epub` starts from tokens, and has of the decoding that follows what it
  does to an ampersand, a named entity and other characters), zip archives, and pandoc as another source of texts (`--pandoc`).
* Prompts, completion and `MarshalIndent`: they print. Of `TopicExpr.String` only that it may be
  the same for two expressions (`Sampler`).
* Of rendering, the formats lemma and aggr, prefixes, titles, and the headers and
  tables of documents: they print names and numbers.
* Statistics, listing and dumps: they read and print, and keep no state. What they are
  started with is in `CommandLine`.
* The flag package of Go is external: `ParseFlags` is what `parse*.go` and `main.go` use of it.
  Completion, `env`, `version` and `bash` only print (`Printed`).
* The NLP scripts: external programs; `Curation` has them as a function from
  texts to payloads that may fail.
* SQLite itself: a transaction is atomic and there is one writer; a mutation from an
  old snapshot is refused. What is in the file and what in the log is modelled for the
  backup only (`Journals`).
