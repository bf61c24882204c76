-------------------------------- MODULE Topics --------------------------------
(***************************************************************************)
(* Who works on topics: the editor (edit/edit.go), ingest-topic and        *)
(* publish-topic (cmd/segrob), unpublish-topic, and clients of the library *)
(* that keep topics of their own in the live database.                     *)
(*                                                                         *)
(* The editor reads the library once and then writes whole topics; the     *)
(* bulk commands write one topic per transaction; a client mutates a topic *)
(* in one transaction, whose snapshot SQLite refuses to write from when    *)
(* the database has changed since it was read.                             *)
(***************************************************************************)
EXTENDS TopicStore

CONSTANTS
    Editors,    \* processes that run corpus edit
    Bulk,       \* processes that run ingest-topic or publish-topic
    Clients,    \* processes that use the library
    Files,      \* the files of ingest-topic: sequences of topics
    MaxEdits,   \* bound: edits, ingests, removals and mutations
    MaxCrashes  \* bound: times a bulk command stops half way

ASSUME TopicsAssumption ==
    /\ Files \subseteq Seq([name : Names, exprs : Seq(Expr)])
    /\ IsFiniteSet(Names)
    /\ MaxEdits \in Nat /\ MaxCrashes \in Nat

VARIABLES
    library,  \* library[p]: what editor p holds, by name
    job,      \* job[p]: the topics bulk process p has still to write
    client,   \* client[p]: the transaction of client p
    edits,    \* edits so far
    crashes   \* stops so far

topicsVars == <<topics, library, job, client, edits, crashes>>

Idle == [kind |-> "none", todo |-> <<>>]
NoTransaction == [open |-> FALSE]

TopicsTypeOK ==
    /\ TopicTypeOK
    /\ \A p \in Editors : DOMAIN library[p] \subseteq Names
    /\ \A p \in Bulk : /\ job[p].kind \in {"none", "ingest", "publish"}
                       /\ job[p].todo \in Seq([name : Names, exprs : Seq(Expr)])
                       /\ job[p].kind = "none" => job[p].todo = <<>>
    /\ edits \in 0 .. MaxEdits /\ crashes \in 0 .. MaxCrashes

TopicsInit ==
    /\ topics = [t \in Tables |-> <<>>]
    /\ library = [p \in Editors |-> <<>>]
    /\ job = [p \in Bulk |-> Idle]
    /\ client = [p \in Clients |-> NoTransaction]
    /\ edits = 0 /\ crashes = 0

Count == edits < MaxEdits /\ edits' = edits + 1

-----------------------------------------------------------------------------
(* corpus edit                                                             *)

OpenEditor(p) ==
    /\ library[p] # ReadAll("corpus", Global)
    /\ library' = [library EXCEPT ![p] = ReadAll("corpus", Global)]
    /\ UNCHANGED <<topics, job, client, edits, crashes>>

\* What parse makes of a line: a topic, of which the line has a prefix, and an
\* expression.
Lines(p) == [name : DOMAIN library[p], expr : [key : Keys, flagged : {FALSE}]]

\* Both end in one Upsert in overwrite mode, and the library holds what it
\* returns.
Save(p, n, es) ==
    /\ Upsert("corpus", Global, n, es)
    /\ library' = [library EXCEPT ![p][n] = es]
    /\ UNCHANGED <<job, client, crashes>>

\* A wrong variant, for mutation: only the very same expression is looked for.
AddExprUnchecked(p) ==
    \E line \in Lines(p) :
        LET n == line.name  e == line.expr IN
        /\ Count
        /\ ~HasExactly(library[p][n], e)
        /\ Save(p, n, Append(library[p][n], e))

AddExpr(p) ==
    \E line \in Lines(p) :
        LET n == line.name  e == line.expr IN
        /\ Count
        /\ ~Has(library[p][n], e)
        /\ Save(p, n, Append(library[p][n], e))

DeleteExpr(p) ==
    \E line \in Lines(p) :
        LET n == line.name  e == line.expr IN
        /\ Count
        /\ Has(library[p][n], e)
        /\ Save(p, n, RemoveExpr(library[p][n], e))

Edit(p) == OpenEditor(p) \/ AddExpr(p) \/ DeleteExpr(p)

-----------------------------------------------------------------------------
(* ingest-topic and publish-topic                                          *)

StartIngest(p) ==
    /\ Count
    /\ job[p].kind = "none"
    /\ \E file \in Files :
        job' = [job EXCEPT ![p] = [kind |-> "ingest", todo |-> file]]
    /\ UNCHANGED <<topics, library, client, crashes>>

\* Everything is read before anything is written, in whatever order SQLite has it.
StartPublish(p) ==
    /\ job[p].kind = "none"
    /\ LET lib == ReadAll("corpus", Global)
       IN \E names \in SetToSeqs(DOMAIN lib) :
            job' = [job EXCEPT ![p] =
                [kind |-> "publish",
                 todo |-> [i \in DOMAIN names |->
                            [name |-> names[i], exprs |-> lib[names[i]]]]]]
    /\ UNCHANGED <<topics, library, client, edits, crashes>>

Target(p) == IF job[p].kind = "ingest" THEN "corpus" ELSE "live"

\* A wrong variant, for mutation: a topic that is there stays as it is.
WriteTopicIfNew(p) ==
    /\ job[p].todo # <<>>
    /\ UpsertNew(Target(p), Global, Head(job[p].todo).name,
                 Deduplicate(Head(job[p].todo).exprs))
    /\ job' = [job EXCEPT ![p].todo = Tail(@)]
    /\ UNCHANGED <<library, client, edits, crashes>>

WriteTopic(p) ==
    /\ job[p].todo # <<>>
    /\ Upsert(Target(p), Global, Head(job[p].todo).name,
              Deduplicate(Head(job[p].todo).exprs))
    /\ job' = [job EXCEPT ![p].todo = Tail(@)]
    /\ UNCHANGED <<library, client, edits, crashes>>

FinishBulk(p) ==
    /\ job[p].kind # "none" /\ job[p].todo = <<>>
    /\ job' = [job EXCEPT ![p] = Idle]
    /\ UNCHANGED <<topics, library, client, edits, crashes>>

\* A wrong variant, for mutation: a bulk command that has ended leaves its work.
CrashBulkKeepsTodo(p) ==
    /\ job[p].kind # "none"
    /\ crashes < MaxCrashes /\ crashes' = crashes + 1
    /\ job' = [job EXCEPT ![p].kind = "none"]
    /\ UNCHANGED <<topics, library, client, edits>>

CrashBulk(p) ==
    /\ job[p].kind # "none"
    /\ crashes < MaxCrashes /\ crashes' = crashes + 1
    /\ job' = [job EXCEPT ![p] = Idle]
    /\ UNCHANGED <<topics, library, client, edits>>

BulkStep(p) == StartPublish(p) \/ WriteTopic(p) \/ FinishBulk(p)

\* live unpublish-topic
UnpublishTopic ==
    /\ Count
    /\ \E n \in Names : HasTopic("live", Global, n) /\ Delete("live", Global, n)
    /\ UNCHANGED <<library, job, client, crashes>>

-----------------------------------------------------------------------------
(* Clients of the library: Upsert in mutation mode, with an fn that appends *)
(* an expression, as in the comment of Upsert, or returns ErrNoChange       *)

BeginMutation(p) ==
    /\ Count
    /\ ~client[p].open
    /\ \E u \in Users, n \in Names, k \in Keys :
        client' = [client EXCEPT ![p] =
            [open |-> TRUE, user |-> u, name |-> n, snapshot |-> topics["live"],
             expr |-> [key |-> k, flagged |-> FALSE],
             exprs |-> ReadOrEmpty("live", u, n)]]
    /\ UNCHANGED <<topics, library, job, crashes>>

\* A wrong variant, for mutation: the snapshot is not looked at.
WriteMutationBlindly(p) ==
    /\ client[p].open
    /\ client' = [client EXCEPT ![p] = NoTransaction]
    /\ \/ UNCHANGED topics
       \/ Upsert("live", client[p].user, client[p].name,
                 Append(client[p].exprs, client[p].expr))
    /\ UNCHANGED <<library, job, edits, crashes>>

\* SQLITE_BUSY_SNAPSHOT: the write fails when its snapshot is not the last one.
\* Upsert stores what fn returns as it is, with an expression that was there before.
WriteMutation(p) ==
    /\ client[p].open
    /\ client' = [client EXCEPT ![p] = NoTransaction]
    /\ \/ UNCHANGED topics
       \/ /\ client[p].snapshot = topics["live"]
          /\ Upsert("live", client[p].user, client[p].name,
                    Append(client[p].exprs, client[p].expr))
    /\ UNCHANGED <<library, job, edits, crashes>>

RenameOwn(u) ==
    /\ Count
    /\ \E old, new \in Names : old # new /\ Rename("live", u, old, new)
    /\ UNCHANGED <<library, job, client, crashes>>

CopyOwn(u) ==
    /\ Count
    /\ CopyDefault("live", u)
    /\ UNCHANGED <<library, job, client, crashes>>

ClientStep(p) == BeginMutation(p) \/ WriteMutation(p)

-----------------------------------------------------------------------------
TopicsNext ==
    \/ \E p \in Editors : Edit(p)
    \/ \E p \in Bulk : StartIngest(p) \/ BulkStep(p) \/ CrashBulk(p)
    \/ UnpublishTopic
    \/ \E p \in Clients : ClientStep(p)
    \/ \E u \in Users : RenameOwn(u) \/ CopyOwn(u)

\* A bulk command runs on, and publish-topic is run again and again.
TopicsSpec == /\ TopicsInit /\ [][TopicsNext]_topicsVars
              /\ \A p \in Bulk : WF_topicsVars(BulkStep(p))

-----------------------------------------------------------------------------
(* Properties                                                              *)

NoneTwice(es) == \A i, j \in DOMAIN es : EqualExpr(es[i], es[j]) => i = j

\* No topic of the commands, in the corpus or the live database, holds an
\* expression twice, with or without its flag: searches would report its matches
\* twice.  The editor, the files of ingest-topic and publish-topic all write these
\* topics; Upsert itself does not look for duplicates, so that of the topics of a
\* named user nothing is said: what is in them is up to the fn of a client.
NoDuplicates ==
    \A t \in Tables, n \in Names :
        HasTopic(t, Global, n) => NoneTwice(Row(t, Global, n))

\* doc/workflow.md:180-182, "Each topic fully replaces any existing row with
\* the same name ... Idempotent: safe to re-run": once the edits are over,
\* publish-topic, run again as often as it stopped half way, has the live
\* topics follow the corpus.
Synced == \A n \in DOMAIN ReadAll("corpus", Global) :
    HasTopic("live", Global, n) /\ Row("live", Global, n) = Row("corpus", Global, n)
TopicsSyncAtLast == <>[]Synced

\* A mutation through the library changes one topic by one expression: two
\* clients that mutate a topic at once lose no expression.
MutationsKept ==
    [][\A u \in Users, n \in Names :
        HasTopic("live", u, n) /\ (\E p \in Clients : client'[p] # client[p]) =>
            HasTopic("live", u, n)'
            /\ IsPrefix(Row("live", u, n), Row("live", u, n)')]_topicsVars

\* What publish-topic and CopyDefault bring never replaces a topic a user has:
\* it changes by the user's own mutations only.
OwnTopicsKept ==
    [][\A u \in Users, n \in Names :
        HasTopic("live", u, n) /\ (\A p \in Clients : client'[p] = client[p]) =>
            \E m \in Names : HasTopic("live", u, m)'
                             /\ Row("live", u, m)' = Row("live", u, n)]_topicsVars
=============================================================================
