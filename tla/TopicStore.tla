------------------------------ MODULE TopicStore ------------------------------
(***************************************************************************)
(* The topic tables of the two databases and the transactions of           *)
(* TopicStore (storage/sqlite/zombiezen/topic_store.go), with the          *)
(* functions of topic/topic.go its callers use.                            *)
(*                                                                         *)
(* An expression is the key of its items and its flag; equality is that    *)
(* of the keys.                                                            *)
(***************************************************************************)
EXTENDS Naturals, SequencesExt

CONSTANTS
    Users,   \* named users of the library
    Global,  \* the user "" of the commands
    Names,   \* topic names
    Keys     \* what expressions say

ASSUME TopicStoreAssumption == Global \notin Users

VARIABLE topics  \* topics[t][<<u, n>>]: the expressions of topic n of user u

Tables == {"corpus", "live"}
Expr == [key : Keys, flagged : BOOLEAN]
Owner == Users \cup {Global}

TopicTypeOK ==
    /\ DOMAIN topics = Tables
    /\ \A t \in Tables : /\ DOMAIN topics[t] \subseteq Owner \X Names
                         /\ \A un \in DOMAIN topics[t] : topics[t][un] \in Seq(Expr)

-----------------------------------------------------------------------------
(* Expressions                                                             *)

EqualExpr(e, f) == e.key = f.key

Has(es, e) == \E i \in DOMAIN es : EqualExpr(es[i], e)

\* A wrong variant, for mutation: keys and flags are compared.
HasExactly(es, e) == \E i \in DOMAIN es : es[i] = e

\* Deduplicate: the first of each key, in order.
Deduplicate(es) ==
    LET kept[i \in 0 .. Len(es)] ==
            IF i = 0 THEN <<>>
            ELSE IF Has(kept[i - 1], es[i]) THEN kept[i - 1]
            ELSE Append(kept[i - 1], es[i])
    IN kept[Len(es)]

\* removeExprFromTopic (edit/edit.go)
RemoveExpr(es, e) == RemoveAt(es, SelectInSeq(es, LAMBDA f : EqualExpr(f, e)))

-----------------------------------------------------------------------------
(* Reads                                                                   *)

Row(t, u, n) == topics[t][<<u, n>>]
HasTopic(t, u, n) == <<u, n>> \in DOMAIN topics[t]

\* ReadAll: the topics of a user by name.
ReadAll(t, u) == [n \in {m \in Names : HasTopic(t, u, m)} |-> Row(t, u, n)]

\* What mutation mode starts from.
ReadOrEmpty(t, u, n) == IF HasTopic(t, u, n) THEN Row(t, u, n) ELSE <<>>

-----------------------------------------------------------------------------
(* Transactions                                                            *)

\* Overwrite mode, and the write of mutation mode.
Upsert(t, u, n, es) ==
    topics' = [topics EXCEPT ![t] =
        [un \in DOMAIN topics[t] \cup {<<u, n>>} |->
            IF un = <<u, n>> THEN es ELSE topics[t][un]]]

\* A wrong variant, for mutation: a row that is there stays as it is.
UpsertNew(t, u, n, es) ==
    IF HasTopic(t, u, n) THEN UNCHANGED topics
    ELSE topics' = [topics EXCEPT ![t] =
        [un \in DOMAIN topics[t] \cup {<<u, n>>} |->
            IF un = <<u, n>> THEN es ELSE topics[t][un]]]

\* UNIQUE(user_id, name) refuses a name that is taken.
Rename(t, u, old, new) ==
    /\ HasTopic(t, u, old)
    /\ new # old => ~HasTopic(t, u, new)
    /\ topics' = [topics EXCEPT ![t] =
        [un \in (DOMAIN topics[t] \ {<<u, old>>}) \cup {<<u, new>>} |->
            IF un = <<u, new>> THEN Row(t, u, old) ELSE topics[t][un]]]

\* A wrong variant, for mutation: ON CONFLICT DO UPDATE.
CopyDefaultOver(t, u) ==
    topics' = [topics EXCEPT ![t] =
        [un \in DOMAIN topics[t] \cup {<<u, n>> : n \in DOMAIN ReadAll(t, Global)} |->
            IF un[1] = u /\ HasTopic(t, Global, un[2]) THEN Row(t, Global, un[2])
            ELSE topics[t][un]]]

\* ON CONFLICT DO NOTHING: the user's own topics stay.
CopyDefault(t, u) ==
    topics' = [topics EXCEPT ![t] =
        [un \in DOMAIN topics[t] \cup {<<u, n>> : n \in DOMAIN ReadAll(t, Global)} |->
            IF un \in DOMAIN topics[t] THEN topics[t][un]
            ELSE Row(t, Global, un[2])]]

Delete(t, u, n) ==
    topics' = [topics EXCEPT ![t] =
        [un \in DOMAIN topics[t] \ {<<u, n>>} |-> topics[t][un]]]
=============================================================================
