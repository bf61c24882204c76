---------------------------- MODULE BatchPublish ----------------------------
(***************************************************************************)
(* publish without an id: corpusPublishCommand (cmd/segrob/                *)
(* corpus_publish.go) lists the acknowledged documents once, publishes     *)
(* them one by one in the order of the list, and gives up at the first     *)
(* failure; its user runs it again.  Each document goes through publishOne *)
(* as Publication models it, run by the process Batcher.                   *)
(***************************************************************************)
EXTENDS Publication

CONSTANTS
    Batcher,     \* the process that runs the command
    Move,        \* its --move flag
    DocOrder,    \* DocOrder[d]: the rowid of d in the corpus, its place in any list
    MaxCrashes,  \* bound: times a publish stops between two transactions
    MaxPayloads  \* bound: times the NLP of a document is run again

ASSUME BatchAssumption ==
    /\ Batcher \in Procs
    /\ Move \in BOOLEAN
    /\ [force |-> FALSE, move |-> Move] \in PublishOptions
    /\ DocOrder \in [Docs -> Nat]
    /\ \A d, e \in Docs : DocOrder[d] = DocOrder[e] => d = e
    /\ MaxCrashes \in Nat /\ MaxPayloads \in Nat

VARIABLES
    phase,    \* of the batch: "idle", "next" or "publishing" a document
    listed,   \* the candidates of the batch
    todo,     \* those not published yet, the current one among them
    crashes,  \* stops so far
    payloads  \* NLP runs so far

batchVars == <<vars, phase, listed, todo, crashes, payloads>>

-----------------------------------------------------------------------------
\* corpusRepo.List and the HasAck filter; SQLite scans the corpus in the order
\* its rows were inserted.
ListCandidates ==
    /\ phase = "idle"
    /\ todo' = {d \in DOMAIN corpus : HasAck(d)}
    /\ todo' # {}
    /\ listed' = todo'
    /\ phase' = "next"
    /\ UNCHANGED <<vars, crashes, payloads>>

\* The document the loop has come to.
Current == CHOOSE d \in todo : \A e \in todo : DocOrder[d] <= DocOrder[e]

PublishNext ==
    /\ phase = "next" /\ todo # {}
    /\ Start(Batcher, "publish", Current,
             [force |-> FALSE, move |-> Move], "pub_read_nlp")
    /\ phase' = "publishing"
    /\ UNCHANGED <<listed, todo, crashes, payloads>>

PublishOneStep ==
    /\ phase = "publishing"
    /\ PublishStep(Batcher)
    /\ UNCHANGED <<phase, listed, todo, crashes, payloads>>

PublishOneFails ==
    /\ phase = "publishing"
    /\ Fail(Batcher)
    /\ IF Refused(Batcher) THEN UNCHANGED crashes
       ELSE crashes < MaxCrashes /\ crashes' = crashes + 1
    /\ UNCHANGED <<phase, listed, todo, payloads>>

\* A wrong variant, for mutation: the loop goes on after a failure.
GoOnAlways ==
    /\ phase = "publishing" /\ pc[Batcher] \in {"ok", "failed"}
    /\ phase' = "next" /\ todo' = todo \ {Current}
    /\ UNCHANGED <<vars, listed, crashes, payloads>>

GoOn ==
    /\ phase = "publishing" /\ pc[Batcher] = "ok"
    /\ phase' = "next" /\ todo' = todo \ {Current}
    /\ UNCHANGED <<vars, listed, crashes, payloads>>

\* "Fix the issue and re-run the command to continue"
GiveUpBatch ==
    /\ phase = "publishing" /\ pc[Batcher] = "failed"
    /\ phase' = "idle" /\ listed' = {} /\ todo' = {}
    /\ UNCHANGED <<vars, crashes, payloads>>

\* "Published %d document(s)."
FinishBatch ==
    /\ phase = "next" /\ todo = {}
    /\ phase' = "idle" /\ listed' = {}
    /\ UNCHANGED <<vars, todo, crashes, payloads>>

BatchStep == ListCandidates \/ PublishNext \/ PublishOneStep \/ GoOn
             \/ GiveUpBatch \/ FinishBatch
             \/ (Refused(Batcher) /\ PublishOneFails)

-----------------------------------------------------------------------------
(* The curator                                                             *)

Acknowledge ==
    /\ \E d \in DOMAIN corpus : AckTxt(d) \/ AckNlp(d)
    /\ UNCHANGED <<liveVars, pc, job, phase, listed, todo, crashes, payloads>>

IngestAgain ==
    /\ payloads < MaxPayloads
    /\ payloads' = payloads + 1
    /\ CuratorIngestNlp
    /\ UNCHANGED <<phase, listed, todo, crashes>>

Relabel ==
    /\ CuratorSetLabel
    /\ UNCHANGED <<phase, listed, todo, crashes, payloads>>

\* A document that is listed may be gone when its turn comes.
RemoveListed ==
    /\ CuratorRemove
    /\ UNCHANGED <<phase, listed, todo, crashes, payloads>>

-----------------------------------------------------------------------------
BatchInit ==
    /\ Init
    /\ phase = "idle" /\ listed = {} /\ todo = {}
    /\ crashes = 0 /\ payloads = 0

BatchNext == BatchStep \/ PublishOneFails \/ Acknowledge \/ IngestAgain \/ Relabel
             \/ RemoveListed

\* The command runs on, and its user runs it again when it has ended.
BatchSpec == BatchInit /\ [][BatchNext]_batchVars /\ WF_batchVars(BatchStep)

-----------------------------------------------------------------------------
(* Properties                                                              *)

\* A batch that ends with success has brought every document it listed live,
\* though each was published on its own and the curator worked on meanwhile.
BatchIsComplete ==
    phase = "next" /\ todo = {} => \A d \in listed : HasLemmaOptimization(d)

\* doc/workflow.md:120, "Batch publish all acknowledged documents": run as often
\* as it takes, the batch brings every acknowledged document live, through
\* crashes, new payloads and new labels, and unless it is removed.
AcknowledgedGoLive ==
    \A d \in Docs : InCorpus(d) /\ HasAck(d) ~> HasLemmaOptimization(d) \/ ~InCorpus(d)
=============================================================================
