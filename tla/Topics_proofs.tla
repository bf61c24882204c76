----------------------------- MODULE Topics_proofs -----------------------------
(***************************************************************************)
(* Proofs about Topics, for any library, any files and any number of       *)
(* editors, bulk commands and clients:                                     *)
(*   - what the commands of the corpus and CopyDefault bring to the live   *)
(*     database replaces no topic of a user;                               *)
(*   - no topic of the commands ever holds an expression twice             *)
(*     (Deduplicate and RemoveExpr keep sequences proper, the editor only  *)
(*     appends what is not there);                                         *)
(*   - a client's mutation loses no expression: the transaction of a       *)
(*     client has read its topic in its snapshot, and writes only if the   *)
(*     snapshot is still the last one.                                     *)
(* Then about Sampler, for any topic, any rows and any options:            *)
(*   - the two scans of an expression keep to their budget, and miss       *)
(*     nothing where it is larger than the candidates;                     *)
(*   - the sampler goes on to the next expression until it has enough;     *)
(*   - what it selects are matches, minEach of each string where there are *)
(*     as many, and the sampler panics only where these exceed Size.       *)
(***************************************************************************)
EXTENDS Topics, Sampler, FiniteSetTheorems, SequenceTheorems, WellFoundedInduction, TLAPS

\* The tables are there, and each client has its transaction or none.
Tabled == /\ topics = [t \in Tables |-> topics[t]]
          /\ client = [p \in Clients |-> client[p]]

-----------------------------------------------------------------------------
(* The transactions                                                        *)

\* What a transaction on a table leaves of the rows of a user.
LEMMA UpsertKeeps ==
    ASSUME Tabled, NEW t \in Tables, NEW u, NEW n, NEW es, Upsert(t, u, n, es)
    PROVE  /\ topics' = [x \in Tables |-> topics'[x]]
           /\ \A x \in Tables : x # t => topics'[x] = topics[x]
           /\ \A un \in DOMAIN topics[t] :
                un # <<u, n>> => un \in DOMAIN topics'[t] /\ topics'[t][un] = topics[t][un]
  BY DEF Tabled, Upsert

\* The same for a deletion.
LEMMA DeleteKeeps ==
    ASSUME Tabled, NEW t \in Tables, NEW u, NEW n, Delete(t, u, n)
    PROVE  /\ topics' = [x \in Tables |-> topics'[x]]
           /\ \A x \in Tables : x # t => topics'[x] = topics[x]
           /\ \A un \in DOMAIN topics[t] :
                un # <<u, n>> => un \in DOMAIN topics'[t] /\ topics'[t][un] = topics[t][un]
  BY DEF Tabled, Delete

\* CopyDefault adds topics and changes none.
LEMMA CopyDefaultKeeps ==
    ASSUME Tabled, NEW t \in Tables, NEW u, CopyDefault(t, u)
    PROVE  /\ topics' = [x \in Tables |-> topics'[x]]
           /\ \A un \in DOMAIN topics[t] :
                un \in DOMAIN topics'[t] /\ topics'[t][un] = topics[t][un]
  BY DEF Tabled, CopyDefault

\* A topic that is renamed has its expressions under the new name.
LEMMA RenameKeeps ==
    ASSUME Tabled, NEW t \in Tables, NEW u, NEW old, NEW new, old # new, Rename(t, u, old, new)
    PROVE  /\ topics' = [x \in Tables |-> topics'[x]]
           /\ <<u, new>> \notin DOMAIN topics[t]
           /\ <<u, new>> \in DOMAIN topics'[t]
           /\ topics'[t][<<u, new>>] = topics[t][<<u, old>>]
           /\ \A un \in DOMAIN topics[t] :
                un # <<u, old>> => un \in DOMAIN topics'[t] /\ topics'[t][un] = topics[t][un]
  BY DEF Tabled, Rename, HasTopic, Row

-----------------------------------------------------------------------------
\* The row of a user is there still, under its name or another.
Kept(u, n) ==
    u \in Users /\ n \in Names /\ HasTopic("live", u, n) =>
        \E m \in Names : HasTopic("live", u, m)' /\ Row("live", u, m)' = Row("live", u, n)

\* No step but those of the clients touches a topic of a user.
LEMMA CommandsKeep ==
    ASSUME Tabled, TopicsNext, NEW u, NEW n,
           \A p \in Clients : client'[p] = client[p]
    PROVE  Tabled' /\ Kept(u, n)
<1> USE DEF Kept, HasTopic, Row
<1>0. u \in Users => u # Global
  BY TopicStoreAssumption
<1>1. ASSUME NEW p \in Editors, Edit(p)
      PROVE  Tabled' /\ Kept(u, n)
  <2>1. CASE OpenEditor(p)
    BY <2>1 DEF OpenEditor, Tabled
  <2>2. CASE AddExpr(p) \/ DeleteExpr(p)
    <3>1. PICK m, es : Upsert("corpus", Global, m, es)
      BY <2>2 DEF AddExpr, DeleteExpr, Save
    <3>2. UNCHANGED client
      BY <2>2 DEF AddExpr, DeleteExpr, Save
    <3> QED
      BY <3>1, <3>2, UpsertKeeps DEF Tables, Tabled
  <2> QED
    BY <1>1, <2>1, <2>2 DEF Edit
<1>2. ASSUME NEW p \in Bulk, StartIngest(p) \/ BulkStep(p) \/ CrashBulk(p)
      PROVE  Tabled' /\ Kept(u, n)
  <2>1. CASE UNCHANGED <<topics, client>>
    BY <2>1 DEF Tabled
  <2>2. CASE WriteTopic(p)
    <3>1. PICK t \in Tables : \E m, es : Upsert(t, Global, m, es)
      BY <2>2 DEF WriteTopic, Target, Tables
    <3>2. UNCHANGED client
      BY <2>2 DEF WriteTopic
    <3> QED
      BY <1>0, <3>1, <3>2, UpsertKeeps DEF Tables, Tabled
  <2> QED
    BY <1>2, <2>1, <2>2 DEF StartIngest, BulkStep, StartPublish, FinishBulk, CrashBulk
<1>3. CASE UnpublishTopic
  <2>1. PICK m : Delete("live", Global, m)
    BY <1>3 DEF UnpublishTopic
  <2> QED
    BY <1>0, <1>3, <2>1, DeleteKeeps DEF UnpublishTopic, Tables, Tabled
<1>4. ASSUME NEW p \in Clients, ClientStep(p)
      PROVE  FALSE
  <2>1. CASE BeginMutation(p)
    <3>1. client'[p].open
      BY <2>1 DEF BeginMutation, Tabled
    <3> QED
      BY <2>1, <3>1 DEF BeginMutation
  <2>2. CASE WriteMutation(p)
    <3>1. ~client'[p].open
      BY <2>2 DEF WriteMutation, Tabled, NoTransaction
    <3> QED
      BY <2>2, <3>1 DEF WriteMutation
  <2> QED
    BY <1>4, <2>1, <2>2 DEF ClientStep
<1>5. ASSUME NEW v \in Users, RenameOwn(v)
      PROVE  Tabled' /\ Kept(u, n)
  <2>1. PICK old, new \in Names : old # new /\ Rename("live", v, old, new)
    BY <1>5 DEF RenameOwn
  <2>2. UNCHANGED client
    BY <1>5 DEF RenameOwn
  <2>3. Tabled'
    BY <2>1, <2>2, RenameKeeps DEF Tables, Tabled
  <2>4. CASE <<u, n>> = <<v, old>>
    BY <2>1, <2>3, <2>4, RenameKeeps DEF Tables
  <2>5. CASE <<u, n>> # <<v, old>>
    BY <2>1, <2>3, <2>5, RenameKeeps DEF Tables
  <2> QED
    BY <2>3, <2>4, <2>5
<1>6. ASSUME NEW v \in Users, CopyOwn(v)
      PROVE  Tabled' /\ Kept(u, n)
  BY <1>6, CopyDefaultKeeps DEF CopyOwn, Tables, Tabled
<1> QED
  BY <1>1, <1>2, <1>3, <1>4, <1>5, <1>6 DEF TopicsNext

\* A client's transaction writes at most one topic.
LEMMA ClientsKeepTables ==
    ASSUME Tabled, NEW p \in Clients, ClientStep(p)
    PROVE  Tabled'
<1>1. client' = [q \in Clients |-> client'[q]]
  BY DEF ClientStep, BeginMutation, WriteMutation, Tabled
<1>2. CASE UNCHANGED topics
  BY <1>1, <1>2 DEF Tabled
<1>3. CASE \E u, n, es : Upsert("live", u, n, es)
  BY <1>1, <1>3, UpsertKeeps DEF Tabled, Tables
<1> QED
  BY <1>2, <1>3 DEF ClientStep, BeginMutation, WriteMutation

\* The same for every step that leaves the clients where they are.
LEMMA StepsKeep ==
    ASSUME Tabled, [TopicsNext]_topicsVars
    PROVE  /\ Tabled'
           /\ \A u \in Users, n \in Names :
                (\A p \in Clients : client'[p] = client[p]) => Kept(u, n)
<1>1. CASE UNCHANGED topicsVars
  BY <1>1 DEF topicsVars, Tabled, Kept, HasTopic, Row
<1>2. CASE \E p \in Clients : ClientStep(p)
  <2>1. Tabled'
    BY <1>2, ClientsKeepTables
  <2>2. ASSUME NEW u \in Users, NEW n \in Names, \A p \in Clients : client'[p] = client[p]
        PROVE  Kept(u, n)
    BY <1>2, <2>2, CommandsKeep DEF TopicsNext
  <2> QED
    BY <2>1, <2>2
<1>3. CASE TopicsNext /\ ~\E p \in Clients : ClientStep(p)
  <2>1. UNCHANGED client
    BY <1>3 DEF TopicsNext, Edit, OpenEditor, AddExpr, DeleteExpr, Save, StartIngest, BulkStep,
                StartPublish, WriteTopic, FinishBulk, CrashBulk, UnpublishTopic, RenameOwn,
                CopyOwn
  <2>2. ASSUME NEW u, NEW n
        PROVE  Tabled' /\ Kept(u, n)
    BY <1>3, <2>1, <2>2, CommandsKeep
  <2> QED
    BY <2>2
<1> QED
  BY <1>1, <1>2, <1>3

\* A topic that a user has stays, under its name or another, unless the user
\* mutates it: publish-topic, unpublish-topic and CopyDefault leave it alone.
THEOREM UsersKeepTopics == TopicsSpec => OwnTopicsKept
<1>1. TopicsInit => Tabled
  BY DEF TopicsInit, Tabled
<1>2. Tabled /\ [TopicsNext]_topicsVars => Tabled'
  BY StepsKeep
<1>3. Tabled /\ [TopicsNext]_topicsVars =>
        \A u \in Users, n \in Names :
            HasTopic("live", u, n) /\ (\A p \in Clients : client'[p] = client[p]) =>
                \E m \in Names : HasTopic("live", u, m)'
                                 /\ Row("live", u, m)' = Row("live", u, n)
  BY StepsKeep DEF Kept
<1> QED
  BY <1>1, <1>2, <1>3, PTL DEF TopicsSpec, OwnTopicsKept

-----------------------------------------------------------------------------
(* Sequences of expressions                                                *)

\* Induction up to n, for a set.
LEMMA UpTo ==
    ASSUME NEW n \in Nat, NEW S, 0 \in S, \A i \in 0 .. n : i # n /\ i \in S => i + 1 \in S
    PROVE  0 .. n \subseteq S
<1> DEFINE T == {i \in 0 .. n : i \notin S}
<1> SUFFICES ASSUME T # {} PROVE FALSE
  OBVIOUS
<1>1. T \in SUBSET Nat
  OBVIOUS
<1> HIDE DEF T
<1>2. PICK m \in T : \A x \in T : ~(<<x, m>> \in OpToRel(<, Nat))
  BY <1>1, NatLessThanWellFounded, WFMin
<1>3. m \in 0 .. n /\ m \notin S /\ m # 0
  BY DEF T
<1>4. m - 1 \in 0 .. n /\ m - 1 # n /\ m - 1 + 1 = m /\ m - 1 < m /\ m - 1 \in Nat /\ m \in Nat
  BY <1>3
<1>5. m - 1 \notin T
  BY <1>2, <1>4 DEF OpToRel
<1> QED
  BY <1>3, <1>4, <1>5 DEF T

\* Deduplicate goes through the expressions one by one.
Kept1(kept, e) == IF Has(kept, e) THEN kept ELSE Append(kept, e)
KeptUpTo(es, n, f) == f = [i \in 0 .. n |-> IF i = 0 THEN <<>> ELSE Kept1(f[i - 1], es[i])]

\* The function that Deduplicate recurses with exists, and is what it says.
LEMMA DeduplicateGoes ==
    ASSUME NEW es \in Seq(Expr)
    PROVE  \E f : KeptUpTo(es, Len(es), f) /\ Deduplicate(es) = f[Len(es)]
<1> DEFINE S == {n \in 0 .. Len(es) : \E f : KeptUpTo(es, n, f)}
           n == Len(es)
<1>1. n \in Nat
  OBVIOUS
<1>2. 0 \in S
  <2>1. KeptUpTo(es, 0, [i \in 0 .. 0 |-> <<>>])
    BY DEF KeptUpTo
  <2> QED
    BY <1>1, <2>1
<1>3. ASSUME NEW k \in 0 .. n, k # n, k \in S
      PROVE  k + 1 \in S
  <2>1. PICK f : KeptUpTo(es, k, f)
    BY <1>3
  <2> DEFINE g == [i \in 0 .. k + 1 |-> IF i = k + 1 THEN Kept1(f[k], es[k + 1]) ELSE f[i]]
  <2>2. ASSUME NEW i \in 0 .. k + 1
        PROVE  g[i] = IF i = 0 THEN <<>> ELSE Kept1(g[i - 1], es[i])
    <3>1. CASE i = k + 1
      BY <1>1, <3>1
    <3>2. CASE i # k + 1
      <4>1. i \in 0 .. k /\ g[i] = f[i]
        BY <1>1, <3>2
      <4>2. i # 0 => i - 1 \in 0 .. k + 1 /\ i - 1 # k + 1
        BY <1>1, <4>1
      <4>3. i # 0 => g[i - 1] = f[i - 1]
        BY <4>2
      <4> HIDE DEF g
      <4> QED
        BY <2>1, <4>1, <4>3 DEF KeptUpTo
    <3> QED
      BY <3>1, <3>2
  <2>3. g = [i \in 0 .. k + 1 |-> g[i]]
    OBVIOUS
  <2> HIDE DEF g
  <2>4. KeptUpTo(es, k + 1, g)
    BY <2>2, <2>3 DEF KeptUpTo
  <2> QED
    BY <1>1, <1>3, <2>4
<1> HIDE DEF S
<1>4. n \in S
  <2>1. \A i \in 0 .. n : i # n /\ i \in S => i + 1 \in S
    BY <1>3
  <2>2. 0 .. n \subseteq S
    BY <1>1, <1>2, <2>1, UpTo
  <2> QED
    BY <1>1, <2>2
<1>5. PICK f : KeptUpTo(es, n, f)
  BY <1>4 DEF S
<1> DEFINE g == CHOOSE h : KeptUpTo(es, n, h)
<1>6. KeptUpTo(es, n, g)
  BY <1>5
<1>7. Deduplicate(es) = g[n]
  BY DEF Deduplicate, KeptUpTo, Kept1
<1> QED
  BY <1>6, <1>7

\* What is kept has every expression once.
LEMMA AppendNew ==
    ASSUME NEW es \in Seq(Expr), NEW e \in Expr, NoneTwice(es), ~Has(es, e)
    PROVE  Append(es, e) \in Seq(Expr) /\ NoneTwice(Append(es, e))
<1>1. /\ Append(es, e) \in Seq(Expr) /\ Len(es) \in Nat
      /\ DOMAIN Append(es, e) = 1 .. Len(es) + 1 /\ DOMAIN es = 1 .. Len(es)
      /\ \A i \in 1 .. Len(es) : Append(es, e)[i] = es[i]
      /\ Append(es, e)[Len(es) + 1] = e
  BY AppendProperties
<1>2. \A i \in 1 .. Len(es) + 1 : i \in 1 .. Len(es) \/ i = Len(es) + 1
  BY <1>1
<1> QED
  BY <1>1, <1>2 DEF NoneTwice, Has, EqualExpr

\* Deduplicate makes a sequence of expressions without duplicates of any other.
LEMMA DeduplicateIs ==
    ASSUME NEW es \in Seq(Expr)
    PROVE  Deduplicate(es) \in Seq(Expr) /\ NoneTwice(Deduplicate(es))
<1>1. PICK f : KeptUpTo(es, Len(es), f) /\ Deduplicate(es) = f[Len(es)]
  BY DeduplicateGoes
<1> DEFINE n == Len(es)
           S == {i \in 0 .. n : f[i] \in Seq(Expr) /\ NoneTwice(f[i])}
<1>2. n \in Nat
  OBVIOUS
<1>3. \A i \in 0 .. n : f[i] = IF i = 0 THEN <<>> ELSE Kept1(f[i - 1], es[i])
  BY <1>1 DEF KeptUpTo
<1>4. 0 \in S
  <2>1. f[0] = <<>>
    BY <1>2, <1>3
  <2>2. <<>> \in Seq(Expr) /\ DOMAIN <<>> = {}
    OBVIOUS
  <2>3. NoneTwice(<<>>)
    BY <2>2 DEF NoneTwice
  <2>4. f[0] \in Seq(Expr) /\ NoneTwice(f[0])
    BY <2>1, <2>2, <2>3
  <2>5. 0 \in 0 .. n
    BY <1>2
  <2> QED
    BY <2>4, <2>5
<1>5. ASSUME NEW i \in 0 .. n, i # n, i \in S
      PROVE  i + 1 \in S
  <2>1. i + 1 \in 0 .. n /\ i + 1 # 0 /\ i + 1 - 1 = i /\ i + 1 \in 1 .. n
    BY <1>2, <1>5
  <2>2. f[i + 1] = Kept1(f[i], es[i + 1]) /\ es[i + 1] \in Expr
    BY <1>3, <2>1
  <2>3. f[i + 1] \in Seq(Expr) /\ NoneTwice(f[i + 1])
    BY <1>5, <2>2, AppendNew DEF Kept1
  <2> QED
    BY <2>1, <2>3
<1> HIDE DEF S
<1>6. n \in S
  <2>1. \A i \in 0 .. n : i # n /\ i \in S => i + 1 \in S
    BY <1>5
  <2>2. 0 .. n \subseteq S
    BY <1>2, <1>4, <2>1, UpTo
  <2> QED
    BY <1>2, <2>2
<1> QED
  BY <1>1, <1>6 DEF S

\* The editor removes one expression, and keeps the order of the others.
LEMMA RemoveExprIs ==
    ASSUME NEW es \in Seq(Expr), NEW e, NoneTwice(es), Has(es, e)
    PROVE  RemoveExpr(es, e) \in Seq(Expr) /\ NoneTwice(RemoveExpr(es, e))
<1> DEFINE I == {i \in 1 .. Len(es) : EqualExpr(es[i], e)}
           k == Min(I)
           before == SubSeq(es, 1, k - 1)
           behind == SubSeq(es, k + 1, Len(es))
           r == before \o behind
<1>1. I # {} /\ I \in SUBSET Nat /\ Len(es) \in Nat
  BY DEF Has
<1>2. k \in 1 .. Len(es)
  <2>1. \E m \in I : \A x \in I : m <= x
    <3> HIDE DEF I
    <3>1. PICK m \in I : \A x \in I : ~(<<x, m>> \in OpToRel(<, Nat))
      BY <1>1, NatLessThanWellFounded, WFMin
    <3>2. ASSUME NEW x \in I
          PROVE  m <= x
      <4>1. ~(x < m)
        BY <1>1, <3>1 DEF OpToRel
      <4> QED
        BY <1>1, <4>1
    <3> QED
      BY <3>2
  <2> QED
    BY <2>1 DEF Min
<1>3. RemoveExpr(es, e) = r
  BY <1>1 DEF RemoveExpr, RemoveAt, SelectInSeq
<1> HIDE DEF k, I
<1>4. /\ before \in Seq(Expr) /\ Len(before) = k - 1
      /\ \A i \in 1 .. k - 1 : before[i] = es[i]
  BY <1>1, <1>2
<1>5. /\ behind \in Seq(Expr) /\ Len(behind) = Len(es) - k
      /\ \A i \in 1 .. Len(es) - k : behind[i] = es[i + k]
  BY <1>1, <1>2
<1> HIDE DEF before, behind
<1>6. /\ r \in Seq(Expr) /\ Len(r) = Len(es) - 1 /\ DOMAIN r = 1 .. Len(es) - 1
      /\ \A i \in 1 .. Len(es) - 1 :
            r[i] = IF i <= k - 1 THEN before[i] ELSE behind[i - (k - 1)]
  <2>1. /\ r \in Seq(Expr) /\ Len(r) = Len(before) + Len(behind)
        /\ \A i \in 1 .. Len(before) + Len(behind) :
              r[i] = IF i <= Len(before) THEN before[i] ELSE behind[i - Len(before)]
    BY <1>4, <1>5, ConcatProperties
  <2>2. Len(before) + Len(behind) = Len(es) - 1
    BY <1>1, <1>2, <1>4, <1>5
  <2> HIDE DEF r
  <2> QED
    BY <1>4, <2>1, <2>2
<1> HIDE DEF r
<1>7. \A i \in DOMAIN r : r[i] = IF i < k THEN es[i] ELSE es[i + 1]
  <2> SUFFICES ASSUME NEW i \in 1 .. Len(es) - 1
               PROVE  r[i] = IF i < k THEN es[i] ELSE es[i + 1]
    BY <1>6
  <2>1. CASE i < k
    BY <1>2, <1>4, <1>6, <2>1
  <2>2. CASE ~(i < k)
    <3>1. i - (k - 1) \in 1 .. Len(es) - k /\ i - (k - 1) + k = i + 1 /\ ~(i <= k - 1)
      BY <1>1, <1>2, <2>2
    <3>2. behind[i - (k - 1)] = es[i - (k - 1) + k]
      BY <1>5, <3>1
    <3> QED
      BY <1>6, <2>2, <3>1, <3>2
  <2> QED
    BY <2>1, <2>2
<1>8. ASSUME NEW i \in DOMAIN r, NEW j \in DOMAIN r, EqualExpr(r[i], r[j])
      PROVE  i = j
  <2>1. /\ i \in 1 .. Len(es) - 1 /\ j \in 1 .. Len(es) - 1 /\ i + 1 \in DOMAIN es
        /\ j + 1 \in DOMAIN es /\ i \in DOMAIN es /\ j \in DOMAIN es /\ k \in Nat
    BY <1>1, <1>2, <1>6
  <2>2. PICK x \in DOMAIN es : r[i] = es[x] /\ x = IF i < k THEN i ELSE i + 1
    BY <1>7, <2>1
  <2>3. PICK y \in DOMAIN es : r[j] = es[y] /\ y = IF j < k THEN j ELSE j + 1
    BY <1>7, <2>1
  <2>4. x = y
    BY <1>8, <2>2, <2>3 DEF NoneTwice
  <2> QED
    BY <2>1, <2>2, <2>3, <2>4
<1> QED
  BY <1>3, <1>6, <1>8 DEF NoneTwice

-----------------------------------------------------------------------------
(* The invariant                                                           *)

Proper(es) == es \in Seq(Expr) /\ NoneTwice(es)

\* A row of a named user may hold an expression twice.
RowOK(un, es) == es \in Seq(Expr) /\ (un[1] = Global => NoneTwice(es))

\* What is stored, what editors hold, what bulk commands have still to write and what
\* clients have read.
TablesProper ==
    /\ topics = [t \in Tables |-> topics[t]]
    /\ \A t \in Tables : /\ DOMAIN topics[t] \subseteq Owner \X Names
                         /\ \A un \in DOMAIN topics[t] : RowOK(un, topics[t][un])
LibrariesProper ==
    /\ library = [p \in Editors |-> library[p]]
    /\ \A p \in Editors :
        /\ library[p] = [n \in DOMAIN library[p] |-> library[p][n]]
        /\ DOMAIN library[p] \subseteq Names
        /\ \A n \in DOMAIN library[p] : Proper(library[p][n])
JobOK(j) ==
    /\ j = [kind |-> j.kind, todo |-> j.todo]
    /\ j.kind \in {"none", "ingest", "publish"}
    /\ j.todo \in Seq([name : Names, exprs : Seq(Expr)])
    /\ j.kind = "none" => j.todo = <<>>
JobsOK ==
    /\ job = [p \in Bulk |-> job[p]]
    /\ \A p \in Bulk : JobOK(job[p])

\* An open transaction has read its topic in its snapshot.
TransactionOK(c) ==
    c.open =>
        /\ c.user \in Users /\ c.name \in Names /\ c.expr \in Expr /\ c.exprs \in Seq(Expr)
        /\ c.exprs = IF <<c.user, c.name>> \in DOMAIN c.snapshot
                     THEN c.snapshot[<<c.user, c.name>>] ELSE <<>>
ClientsOK ==
    /\ client = [p \in Clients |-> client[p]]
    /\ \A p \in Clients : TransactionOK(client[p])

TopicsInv ==
    /\ TablesProper /\ LibrariesProper /\ JobsOK /\ ClientsOK
    /\ edits \in 0 .. MaxEdits /\ crashes \in 0 .. MaxCrashes

-----------------------------------------------------------------------------
(* The transactions keep the tables proper                                 *)

\* A topic is replaced, one of the commands by expressions without duplicates, or is new.
LEMMA UpsertProper ==
    ASSUME TablesProper, NEW t \in Tables, NEW u \in Owner, NEW n \in Names, NEW es,
           RowOK(<<u, n>>, es), Upsert(t, u, n, es)
    PROVE  TablesProper'
<1>1. /\ topics' = [x \in Tables |-> topics'[x]]
      /\ \A x \in Tables : x # t => topics'[x] = topics[x]
      /\ topics'[t] = [un \in DOMAIN topics[t] \cup {<<u, n>>} |->
                        IF un = <<u, n>> THEN es ELSE topics[t][un]]
  BY DEF TablesProper, Upsert
<1>2. /\ DOMAIN topics'[t] \subseteq Owner \X Names
      /\ \A un \in DOMAIN topics'[t] : RowOK(un, topics'[t][un])
  BY <1>1 DEF TablesProper
<1> QED
  BY <1>1, <1>2 DEF TablesProper, RowOK

\* A topic goes.
LEMMA DeleteProper ==
    ASSUME TablesProper, NEW t \in Tables, NEW u, NEW n, Delete(t, u, n)
    PROVE  TablesProper'
  BY DEF TablesProper, Delete, RowOK

\* A topic has another name.
LEMMA RenameProper ==
    ASSUME TablesProper, NEW t \in Tables, NEW u \in Owner, NEW old \in Names,
           NEW new \in Names, Rename(t, u, old, new)
    PROVE  TablesProper'
<1>1. /\ topics' = [x \in Tables |-> topics'[x]]
      /\ \A x \in Tables : x # t => topics'[x] = topics[x]
      /\ topics'[t] = [un \in (DOMAIN topics[t] \ {<<u, old>>}) \cup {<<u, new>>} |->
                        IF un = <<u, new>> THEN topics[t][<<u, old>>] ELSE topics[t][un]]
      /\ <<u, old>> \in DOMAIN topics[t]
  BY DEF TablesProper, Rename, Row, HasTopic
<1>2. DOMAIN topics'[t] \subseteq Owner \X Names
  BY <1>1 DEF TablesProper
<1>3. ASSUME NEW un \in DOMAIN topics'[t]
      PROVE  RowOK(un, topics'[t][un])
  <2>1. CASE un = <<u, new>>
    <3>1. RowOK(<<u, old>>, topics[t][<<u, old>>]) /\ topics'[t][un] = topics[t][<<u, old>>]
      BY <1>1, <2>1 DEF TablesProper
    <3> QED
      BY <2>1, <3>1 DEF RowOK
  <2>2. CASE un # <<u, new>>
    BY <1>1, <2>2 DEF TablesProper
  <2> QED
    BY <2>1, <2>2
<1> QED
  BY <1>1, <1>2, <1>3 DEF TablesProper, RowOK

\* A topic of no user is copied as it is.
LEMMA CopyDefaultProper ==
    ASSUME TablesProper, NEW t \in Tables, NEW u \in Owner, CopyDefault(t, u)
    PROVE  TablesProper'
<1> DEFINE copied == {<<u, n>> : n \in DOMAIN ReadAll(t, Global)}
<1>1. /\ topics' = [x \in Tables |-> topics'[x]]
      /\ \A x \in Tables : x # t => topics'[x] = topics[x]
      /\ topics'[t] = [un \in DOMAIN topics[t] \cup copied |->
                        IF un \in DOMAIN topics[t] THEN topics[t][un]
                        ELSE Row(t, Global, un[2])]
  BY DEF TablesProper, CopyDefault
<1>2. ASSUME NEW un \in copied
      PROVE  un \in Owner \X Names /\ <<Global, un[2]>> \in DOMAIN topics[t]
  <2>1. DOMAIN ReadAll(t, Global) = {m \in Names : <<Global, m>> \in DOMAIN topics[t]}
    BY DEF ReadAll, HasTopic
  <2>2. PICK n \in Names : un = <<u, n>> /\ <<Global, n>> \in DOMAIN topics[t]
    BY <2>1
  <2> QED
    BY <2>2
<1> HIDE DEF copied
<1>3. DOMAIN topics'[t] \subseteq Owner \X Names
  BY <1>1, <1>2 DEF TablesProper
<1>4. ASSUME NEW un \in DOMAIN topics'[t]
      PROVE  RowOK(un, topics'[t][un])
  <2>1. CASE un \in DOMAIN topics[t]
    BY <1>1, <2>1 DEF TablesProper
  <2>2. CASE un \notin DOMAIN topics[t]
    <3>1. /\ un \in copied
          /\ topics'[t][un] = topics[t][<<Global, un[2]>>]
      BY <1>1, <2>2 DEF Row
    <3>2. /\ <<Global, un[2]>> \in DOMAIN topics[t]
          /\ <<Global, un[2]>>[1] = Global
      BY <1>2, <3>1
    <3>3. RowOK(<<Global, un[2]>>, topics[t][<<Global, un[2]>>])
      BY <3>2 DEF TablesProper
    <3> QED
      BY <3>1, <3>2, <3>3 DEF RowOK
  <2> QED
    BY <2>1, <2>2
<1> QED
  BY <1>1, <1>3, <1>4 DEF TablesProper, RowOK

-----------------------------------------------------------------------------
(* The steps                                                               *)

\* An editor adds what its topic has not, and deletes what it has.
LEMMA EditKeeps ==
    ASSUME TopicsInv, NEW p \in Editors, Edit(p)
    PROVE  TopicsInv'
<1>1. CASE OpenEditor(p)
  <2>1. /\ library' = [library EXCEPT ![p] = ReadAll("corpus", Global)]
        /\ UNCHANGED <<topics, job, client, edits, crashes>>
    BY <1>1 DEF OpenEditor
  <2>2. /\ ReadAll("corpus", Global) = [n \in DOMAIN ReadAll("corpus", Global) |->
                                            ReadAll("corpus", Global)[n]]
        /\ DOMAIN ReadAll("corpus", Global) \subseteq Names
        /\ \A n \in DOMAIN ReadAll("corpus", Global) : Proper(ReadAll("corpus", Global)[n])
    BY DEF TopicsInv, TablesProper, RowOK, Proper, ReadAll, HasTopic, Row, Tables
  <2>3. LibrariesProper'
    BY <2>1, <2>2 DEF TopicsInv, LibrariesProper, Proper
  <2> QED
    BY <2>1, <2>3 DEF TopicsInv, TablesProper, JobsOK, ClientsOK, RowOK
<1>2. \A n \in DOMAIN library[p] : Proper(library[p][n])
  BY DEF TopicsInv, LibrariesProper
<1>3. ASSUME NEW n \in DOMAIN library[p], NEW es, Proper(es), Count, Save(p, n, es)
      PROVE  TopicsInv'
  <2>1. /\ Upsert("corpus", Global, n, es) /\ library' = [library EXCEPT ![p][n] = es]
        /\ UNCHANGED <<job, client, crashes>>
    BY <1>3 DEF Save
  <2>2. n \in Names /\ Global \in Owner /\ "corpus" \in Tables
    BY DEF TopicsInv, LibrariesProper, Owner, Tables
  <2>3. TablesProper'
    BY <1>3, <2>1, <2>2, UpsertProper DEF TopicsInv, Proper, RowOK
  <2>4. LibrariesProper'
    <3>1. /\ library' = [q \in Editors |-> library'[q]]
          /\ \A q \in Editors : q # p => library'[q] = library[q]
          /\ library'[p] = [library[p] EXCEPT ![n] = es]
      BY <2>1 DEF TopicsInv, LibrariesProper
    <3>2. library[p] = [m \in DOMAIN library[p] |-> library[p][m]]
      BY DEF TopicsInv, LibrariesProper
    <3>3. /\ library'[p] = [m \in DOMAIN library[p] |-> library'[p][m]]
          /\ DOMAIN library'[p] = DOMAIN library[p]
          /\ \A m \in DOMAIN library[p] :
                library'[p][m] = IF m = n THEN es ELSE library[p][m]
      BY <1>3, <3>1, <3>2
    <3>4. ASSUME NEW q \in Editors
          PROVE  /\ library'[q] = [m \in DOMAIN library'[q] |-> library'[q][m]]
                 /\ DOMAIN library'[q] \subseteq Names
                 /\ \A m \in DOMAIN library'[q] : Proper(library'[q][m])
      <4>1. CASE q = p
        <5>1. DOMAIN library'[p] \subseteq Names
          BY <3>3 DEF TopicsInv, LibrariesProper
        <5>2. \A m \in DOMAIN library'[p] : Proper(library'[p][m])
          BY <1>3, <1>2, <3>3
        <5> QED
          BY <3>3, <4>1, <5>1, <5>2
      <4>2. CASE q # p
        BY <3>1, <4>2 DEF TopicsInv, LibrariesProper
      <4> QED
        BY <4>1, <4>2
    <3> QED
      BY <3>1, <3>4 DEF LibrariesProper, Proper
  <2>5. edits' \in 0 .. MaxEdits
    BY <1>3, TopicsAssumption DEF Count, TopicsInv
  <2> QED
    BY <2>1, <2>3, <2>4, <2>5 DEF TopicsInv, JobsOK, ClientsOK
<1>4. CASE AddExpr(p)
  <2>1. PICK n \in DOMAIN library[p], e \in Expr :
            /\ Count /\ ~Has(library[p][n], e)
            /\ Save(p, n, Append(library[p][n], e))
    BY <1>4 DEF AddExpr, Lines, Expr
  <2>2. Proper(Append(library[p][n], e))
    BY <1>2, <2>1, AppendNew DEF Proper
  <2> QED
    BY <1>3, <2>1, <2>2
<1>5. CASE DeleteExpr(p)
  <2>1. PICK n \in DOMAIN library[p], e \in Expr :
            /\ Count /\ Has(library[p][n], e)
            /\ Save(p, n, RemoveExpr(library[p][n], e))
    BY <1>5 DEF DeleteExpr, Lines, Expr
  <2>2. Proper(RemoveExpr(library[p][n], e))
    BY <1>2, <2>1, RemoveExprIs DEF Proper
  <2> QED
    BY <1>3, <2>1, <2>2
<1> QED
  BY <1>1, <1>4, <1>5 DEF Edit

\* A bulk command writes each topic without duplicates.
LEMMA BulkKeeps ==
    ASSUME TopicsInv, NEW p \in Bulk, StartIngest(p) \/ BulkStep(p) \/ CrashBulk(p)
    PROVE  TopicsInv'
<1>1. ASSUME NEW j, JobOK(j), job' = [job EXCEPT ![p] = j]
      PROVE  JobsOK'
  BY <1>1 DEF TopicsInv, JobsOK, JobOK
<1>2. JobOK(Idle)
  BY DEF JobOK, Idle
<1>3. CASE StartIngest(p)
  <2>1. PICK file \in Files : job' = [job EXCEPT ![p] = [kind |-> "ingest", todo |-> file]]
    BY <1>3 DEF StartIngest
  <2>2. JobOK([kind |-> "ingest", todo |-> file])
    BY TopicsAssumption DEF JobOK
  <2>3. edits' \in 0 .. MaxEdits
    BY <1>3, TopicsAssumption DEF StartIngest, Count, TopicsInv
  <2>4. JobsOK'
    BY <1>1, <2>1, <2>2
  <2> QED
    BY <1>3, <2>3, <2>4
    DEF StartIngest, TopicsInv, TablesProper, LibrariesProper, ClientsOK, Proper, RowOK
<1>4. CASE StartPublish(p)
  <2> DEFINE lib == ReadAll("corpus", Global)
  <2>1. PICK names \in SetToSeqs(DOMAIN lib) :
            job' = [job EXCEPT ![p] =
                [kind |-> "publish",
                 todo |-> [i \in DOMAIN names |->
                            [name |-> names[i], exprs |-> lib[names[i]]]]]]
    BY <1>4 DEF StartPublish
  <2>2. DOMAIN lib \subseteq Names /\ \A n \in DOMAIN lib : lib[n] \in Seq(Expr)
    BY DEF TopicsInv, TablesProper, RowOK, ReadAll, HasTopic, Row, Tables
  <2> HIDE DEF lib
  <2>3. Cardinality(DOMAIN lib) \in Nat
    BY <2>2, TopicsAssumption, FS_Subset, FS_CardinalityType
  <2>4. names \in [1 .. Cardinality(DOMAIN lib) -> DOMAIN lib]
    BY <2>1 DEF SetToSeqs
  <2> DEFINE todo == [i \in DOMAIN names |-> [name |-> names[i], exprs |-> lib[names[i]]]]
  <2>5. todo \in [1 .. Cardinality(DOMAIN lib) -> [name : Names, exprs : Seq(Expr)]]
    BY <2>2, <2>4
  <2>6. todo \in Seq([name : Names, exprs : Seq(Expr)])
    <3> HIDE DEF todo
    <3> DEFINE Topic == [name : Names, exprs : Seq(Expr)]
    <3>1. todo \in [1 .. Cardinality(DOMAIN lib) -> Topic]
      BY <2>5
    <3> HIDE DEF Topic
    <3>2. todo \in Seq(Topic)
      BY <2>3, <3>1, SeqDef
    <3> QED
      BY <3>2 DEF Topic
  <2>7. JobOK([kind |-> "publish", todo |-> todo])
    <3> HIDE DEF todo
    <3> QED
      BY <2>6 DEF JobOK
  <2>8. JobsOK'
    BY <1>1, <2>1, <2>7
  <2> QED
    BY <1>4, <2>8
    DEF StartPublish, TopicsInv, TablesProper, LibrariesProper, ClientsOK, Proper, RowOK
<1>5. CASE WriteTopic(p)
  <2> DEFINE t == Head(job[p].todo)
  <2>1. JobOK(job[p]) /\ job[p].todo # <<>>
    BY <1>5 DEF WriteTopic, TopicsInv, JobsOK
  <2>2. t \in [name : Names, exprs : Seq(Expr)]
        /\ Tail(job[p].todo) \in Seq([name : Names, exprs : Seq(Expr)])
    <3>1. PICK todo \in Seq([name : Names, exprs : Seq(Expr)]) : todo = job[p].todo
      BY <2>1 DEF JobOK
    <3> QED
      BY <2>1, <3>1, HeadTailProperties
  <2>3. Proper(Deduplicate(t.exprs))
    BY <2>2, DeduplicateIs DEF Proper
  <2>4. PICK x \in Tables : Upsert(x, Global, t.name, Deduplicate(t.exprs))
    BY <1>5 DEF WriteTopic, Target, Tables
  <2>5. TablesProper'
    BY <2>2, <2>3, <2>4, UpsertProper DEF TopicsInv, Owner, Proper, RowOK
  <2>6. JobsOK'
    <3>1. job' = [job EXCEPT ![p] = [job[p] EXCEPT !.todo = Tail(job[p].todo)]]
      BY <1>5 DEF WriteTopic
    <3>2. PICK kind \in {"ingest", "publish"} :
              job[p] = [kind |-> kind, todo |-> job[p].todo]
      BY <2>1 DEF JobOK
    <3>3. PICK todo : todo = job[p].todo
      OBVIOUS
    <3>4. job[p] = [kind |-> kind, todo |-> todo]
      BY <3>2, <3>3
    <3>5. PICK rest : rest = Tail(job[p].todo)
      OBVIOUS
    <3>6. [[kind |-> kind, todo |-> todo] EXCEPT !.todo = rest]
            = [kind |-> kind, todo |-> rest]
      OBVIOUS
    <3>7. job' = [job EXCEPT ![p] = [kind |-> kind, todo |-> rest]]
      BY <3>1, <3>4, <3>5, <3>6
    <3>8. JobOK([kind |-> kind, todo |-> rest])
      BY <2>2, <3>5 DEF JobOK
    <3> QED
      BY <1>1, <3>7, <3>8
  <2> QED
    BY <1>5, <2>5, <2>6 DEF WriteTopic, TopicsInv, LibrariesProper, ClientsOK
<1>6. CASE FinishBulk(p) \/ CrashBulk(p)
  <2>1. JobsOK'
    BY <1>1, <1>2, <1>6 DEF FinishBulk, CrashBulk
  <2>2. crashes' \in 0 .. MaxCrashes
    BY <1>6, TopicsAssumption DEF FinishBulk, CrashBulk, TopicsInv
  <2> QED
    BY <1>6, <2>1, <2>2
    DEF FinishBulk, CrashBulk, TopicsInv, TablesProper, LibrariesProper, ClientsOK, Proper, RowOK
<1> QED
  BY <1>3, <1>4, <1>5, <1>6 DEF BulkStep

\* A client writes a topic of a named user.
LEMMA ClientKeeps ==
    ASSUME TopicsInv, NEW p \in Clients, ClientStep(p)
    PROVE  TopicsInv'
<1>1. ASSUME NEW c, TransactionOK(c), client' = [client EXCEPT ![p] = c]
      PROVE  ClientsOK'
  BY <1>1 DEF TopicsInv, ClientsOK, TransactionOK
<1>2. CASE BeginMutation(p)
  <2>1. PICK u \in Users, n \in Names, k \in Keys :
            client' = [client EXCEPT ![p] =
                [open |-> TRUE, user |-> u, name |-> n, snapshot |-> topics["live"],
                 expr |-> [key |-> k, flagged |-> FALSE],
                 exprs |-> ReadOrEmpty("live", u, n)]]
    BY <1>2 DEF BeginMutation
  <2> DEFINE es == ReadOrEmpty("live", u, n)
             c == [open |-> TRUE, user |-> u, name |-> n, snapshot |-> topics["live"],
                   expr |-> [key |-> k, flagged |-> FALSE], exprs |-> es]
  <2>2. es = IF <<u, n>> \in DOMAIN topics["live"] THEN topics["live"][<<u, n>>] ELSE <<>>
    BY DEF ReadOrEmpty, HasTopic, Row
  <2>3. <<>> \in Seq(Expr)
    OBVIOUS
  <2>4. es \in Seq(Expr)
    BY <2>2, <2>3 DEF TopicsInv, TablesProper, RowOK, Tables
  <2>5. [key |-> k, flagged |-> FALSE] \in Expr
    BY DEF Expr
  <2> HIDE DEF es
  <2>6. TransactionOK(c)
    BY <2>2, <2>4, <2>5 DEF TransactionOK
  <2>7. ClientsOK'
    BY <1>1, <2>1, <2>6 DEF es
  <2>8. edits' \in 0 .. MaxEdits
    BY <1>2, TopicsAssumption DEF BeginMutation, Count, TopicsInv
  <2> QED
    BY <1>2, <2>7, <2>8
    DEF BeginMutation, TopicsInv, TablesProper, LibrariesProper, JobsOK, Proper, RowOK
<1>3. CASE WriteMutation(p)
  <2>1. /\ client' = [client EXCEPT ![p] = NoTransaction]
        /\ UNCHANGED <<library, job, edits, crashes>>
    BY <1>3 DEF WriteMutation
  <2>2. TransactionOK(NoTransaction)
    BY DEF TransactionOK, NoTransaction
  <2>3. ClientsOK'
    BY <1>1, <2>1, <2>2
  <2>4. CASE UNCHANGED topics
    BY <2>1, <2>3, <2>4 DEF TopicsInv, TablesProper, LibrariesProper, JobsOK, Proper, RowOK
  <2>5. CASE Upsert("live", client[p].user, client[p].name,
                    Append(client[p].exprs, client[p].expr))
    <3>1. /\ client[p].user \in Users /\ client[p].name \in Names
          /\ client[p].expr \in Expr /\ client[p].exprs \in Seq(Expr)
      BY <1>3 DEF WriteMutation, TopicsInv, ClientsOK, TransactionOK
    <3>2. RowOK(<<client[p].user, client[p].name>>, Append(client[p].exprs, client[p].expr))
      BY <3>1, TopicStoreAssumption, AppendProperties DEF RowOK
    <3>3. TablesProper'
      BY <2>5, <3>1, <3>2, UpsertProper DEF TopicsInv, Tables, Owner
    <3> QED
      BY <2>1, <2>3, <3>3 DEF TopicsInv, LibrariesProper, JobsOK
  <2> QED
    BY <1>3, <2>4, <2>5 DEF WriteMutation
<1> QED
  BY <1>2, <1>3 DEF ClientStep

\* Every step keeps the invariant.
LEMMA TopicsInvStep == TopicsInv /\ [TopicsNext]_topicsVars => TopicsInv'
<1> SUFFICES ASSUME TopicsInv, [TopicsNext]_topicsVars PROVE TopicsInv'
  OBVIOUS
<1>1. CASE UNCHANGED topicsVars
  BY <1>1 DEF topicsVars, TopicsInv, TablesProper, LibrariesProper, JobsOK, ClientsOK, Proper, RowOK
<1>2. CASE UnpublishTopic
  <2>1. PICK n : Delete("live", Global, n)
    BY <1>2 DEF UnpublishTopic
  <2>2. TablesProper'
    BY <2>1, DeleteProper DEF TopicsInv, Tables
  <2>3. edits' \in 0 .. MaxEdits
    BY <1>2, TopicsAssumption DEF UnpublishTopic, Count, TopicsInv
  <2> QED
    BY <1>2, <2>2, <2>3 DEF UnpublishTopic, TopicsInv, LibrariesProper, JobsOK, ClientsOK
<1>3. ASSUME NEW u \in Users, RenameOwn(u) \/ CopyOwn(u)
      PROVE  TopicsInv'
  <2>1. TablesProper'
    <3>1. CASE RenameOwn(u)
      BY <3>1, RenameProper DEF RenameOwn, TopicsInv, Tables, Owner
    <3>2. CASE CopyOwn(u)
      BY <3>2, CopyDefaultProper DEF CopyOwn, TopicsInv, Tables, Owner
    <3> QED
      BY <1>3, <3>1, <3>2
  <2>2. edits' \in 0 .. MaxEdits
    BY <1>3, TopicsAssumption DEF RenameOwn, CopyOwn, Count, TopicsInv
  <2> QED
    BY <1>3, <2>1, <2>2
    DEF RenameOwn, CopyOwn, TopicsInv, LibrariesProper, JobsOK, ClientsOK
<1> QED
  BY <1>1, <1>2, <1>3, EditKeeps, BulkKeeps, ClientKeeps DEF TopicsNext

\* Nothing is stored, held or read at first.
LEMMA TopicsInvInit == TopicsInit => TopicsInv
<1> SUFFICES ASSUME TopicsInit PROVE TopicsInv
  OBVIOUS
<1>1. TablesProper /\ LibrariesProper
  BY DEF TopicsInit, TablesProper, LibrariesProper
<1>2. JobsOK
  <2>1. JobOK(Idle)
    BY DEF JobOK, Idle
  <2> HIDE DEF Idle
  <2> QED
    BY <2>1 DEF TopicsInit, JobsOK
<1>3. ClientsOK
  BY DEF TopicsInit, ClientsOK, TransactionOK, NoTransaction
<1> QED
  BY <1>1, <1>2, <1>3, TopicsAssumption DEF TopicsInit, TopicsInv

-----------------------------------------------------------------------------
(* Theorems                                                                *)

\* The tables, the libraries of editors and the work of bulk commands have their types
\* in every reachable state.
THEOREM TopicsAreTyped == TopicsSpec => []TopicsTypeOK
<1>1. TopicsInv => TopicsTypeOK
  BY DEF TopicsInv, TablesProper, LibrariesProper, JobsOK, JobOK, Proper, RowOK,
         TopicsTypeOK, TopicTypeOK
<1> QED
  BY <1>1, TopicsInvInit, TopicsInvStep, PTL DEF TopicsSpec

\* No topic of the commands ever holds an expression twice, whichever of the editors and
\* bulk commands writes it, from whatever library or file, in whatever order, and
\* whatever clients do with the topics of named users meanwhile.
THEOREM TopicsHoldEachOnce == TopicsSpec => []NoDuplicates
<1>1. TopicsInv => NoDuplicates
  <2> SUFFICES ASSUME TopicsInv, NEW t \in Tables, NEW n \in Names, HasTopic(t, Global, n)
               PROVE  NoneTwice(Row(t, Global, n))
    BY DEF NoDuplicates
  <2>1. <<Global, n>> \in DOMAIN topics[t] /\ <<Global, n>>[1] = Global
    BY DEF HasTopic
  <2> QED
    BY <2>1 DEF TopicsInv, TablesProper, RowOK, Row
<1> QED
  BY <1>1, TopicsInvInit, TopicsInvStep, PTL DEF TopicsSpec

\* A topic is a prefix of itself, and of itself with another expression.
LEMMA PrefixOfAppend ==
    ASSUME NEW es \in Seq(Expr), NEW e \in Expr
    PROVE  IsPrefix(es, es) /\ IsPrefix(es, Append(es, e))
<1> DEFINE t == Append(es, e)
           n == Len(es)
<1>1. /\ n \in Nat /\ t \in Seq(Expr) /\ Len(t) = n + 1
      /\ \A i \in 1 .. n : t[i] = es[i]
  BY AppendProperties
<1> HIDE DEF t
<1>2. SubSeq(es, 1, n) = [i \in 1 .. n |-> es[i]]
  BY <1>1
<1>3. SubSeq(t, 1, n) = [i \in 1 .. n |-> t[i]]
  BY <1>1
<1>4. SubSeq(es, 1, n) = SubSeq(t, 1, n)
  BY <1>1, <1>2, <1>3
<1>5. IsPrefix(es, t)
  BY <1>1, <1>4 DEF IsPrefix
<1> QED
  BY <1>1, <1>5 DEF IsPrefix, t

\* A mutation of one client adds an expression to the topic as it is, whatever the
\* clients have read that lose the race: no expression of a topic is lost by it.
THEOREM MutationsAreKept == TopicsSpec => MutationsKept
<1> DEFINE Kept1Step ==
        \A u \in Users, n \in Names :
            HasTopic("live", u, n) /\ (\E p \in Clients : client'[p] # client[p]) =>
                HasTopic("live", u, n)' /\ IsPrefix(Row("live", u, n), Row("live", u, n)')
<1>1. TopicsInv /\ [TopicsNext]_topicsVars => Kept1Step
  <2> SUFFICES ASSUME TopicsInv, [TopicsNext]_topicsVars,
                      NEW u \in Users, NEW n \in Names, HasTopic("live", u, n),
                      \E p \in Clients : client'[p] # client[p]
               PROVE  /\ HasTopic("live", u, n)'
                      /\ IsPrefix(Row("live", u, n), Row("live", u, n)')
    OBVIOUS
  <2>1. Row("live", u, n) \in Seq(Expr)
    BY DEF TopicsInv, TablesProper, Tables, RowOK, HasTopic, Row
  <2>2. IsPrefix(Row("live", u, n), Row("live", u, n))
    <3>1. SubSeq(Row("live", u, n), 1, Len(Row("live", u, n)))
            = SubSeq(Row("live", u, n), 1, Len(Row("live", u, n)))
      OBVIOUS
    <3>2. Len(Row("live", u, n)) \in Nat
      BY <2>1
    <3> QED
      BY <3>1, <3>2 DEF IsPrefix
  <2>3. CASE UNCHANGED topics
    BY <2>2, <2>3 DEF HasTopic, Row
  <2>4. PICK p \in Clients : ClientStep(p)
    BY DEF TopicsNext, topicsVars, Edit, OpenEditor, AddExpr, DeleteExpr, Save, StartIngest,
           BulkStep, StartPublish, WriteTopic, FinishBulk, CrashBulk, UnpublishTopic,
           RenameOwn, CopyOwn
  <2>5. CASE /\ WriteMutation(p) /\ client[p].snapshot = topics["live"]
             /\ Upsert("live", client[p].user, client[p].name,
                       Append(client[p].exprs, client[p].expr))
    <3> DEFINE es == client[p].exprs
               mine == <<client[p].user, client[p].name>>
    <3>1. client[p].expr \in Expr
          /\ es = IF mine \in DOMAIN topics["live"] THEN topics["live"][mine] ELSE <<>>
      BY <2>5 DEF WriteMutation, TopicsInv, ClientsOK, TransactionOK
    <3>2. topics'["live"] = [un \in DOMAIN topics["live"] \cup {mine} |->
                IF un = mine THEN Append(es, client[p].expr) ELSE topics["live"][un]]
      BY <2>5 DEF Upsert, TopicsInv, TablesProper, Tables
    <3>3. HasTopic("live", u, n)'
      BY <3>2 DEF HasTopic
    <3>4. CASE <<u, n>> = mine
      <4>1. Row("live", u, n)' = Append(Row("live", u, n), client[p].expr)
        BY <3>1, <3>2, <3>4 DEF HasTopic, Row
      <4> QED
        BY <2>1, <3>1, <3>3, <4>1, PrefixOfAppend
    <3>5. CASE <<u, n>> # mine
      <4>1. Row("live", u, n)' = Row("live", u, n)
        BY <3>2, <3>5 DEF HasTopic, Row
      <4> QED
        BY <2>2, <3>3, <4>1
    <3> QED
      BY <3>4, <3>5
  <2> QED
    BY <2>3, <2>4, <2>5 DEF ClientStep, BeginMutation, WriteMutation
<1> QED
  BY <1>1, TopicsInvInit, TopicsInvStep, PTL DEF TopicsSpec, MutationsKept
-----------------------------------------------------------------------------
(* Sets of rows                                                            *)

\* A set of natural numbers that is not empty has a least one.
LEMMA LeastNatural ==
    ASSUME NEW S \in SUBSET Nat, S # {}
    PROVE  \E m \in S : \A x \in S : m <= x
<1>1. PICK m \in S : \A x \in S : ~(<<x, m>> \in OpToRel(<, Nat))
  BY NatLessThanWellFounded, WFMin
<1>2. ASSUME NEW x \in S
      PROVE  m <= x
  <2>1. ~(x < m)
    BY <1>1 DEF OpToRel
  <2> QED
    BY <2>1
<1> QED
  BY <1>2

\* The least row of a set.
LEMMA MinOfRows ==
    ASSUME NEW S \in SUBSET Nat, S # {}
    PROVE  Min(S) \in S /\ \A x \in S : Min(S) <= x
  BY LeastNatural DEF Min

\* The greatest is the least of the distances to n.
LEMMA MaxOfRows ==
    ASSUME NEW n \in Nat, NEW S \in SUBSET (0 .. n), S # {}
    PROVE  Max(S) \in S /\ \A x \in S : x <= Max(S)
<1> DEFINE T == {n - x : x \in S}
<1>1. T \in SUBSET Nat /\ T # {}
  <2>1. \A x \in S : n - x \in Nat
    OBVIOUS
  <2> QED
    BY <2>1
<1>2. PICK t \in T : \A y \in T : t <= y
  BY <1>1, LeastNatural
<1>3. PICK m \in S : t = n - m
  BY <1>2
<1>4. \A x \in S : n - m <= n - x
  BY <1>2, <1>3
<1>5. \A x \in S : x <= m
  BY <1>4
<1> QED
  BY <1>3, <1>5 DEF Max

\* Every set of rows is finite, and so is all that is counted in it.
LEMMA RowsAreFinite ==
    ASSUME NEW S \in SUBSET Rows
    PROVE  /\ IsFiniteSet(S) /\ Cardinality(S) \in Nat
           /\ \A r : Smaller(S, r) \in Nat
           /\ \A r \in S : Smaller(S, r) < Cardinality(S)
<1>1. IsFiniteSet(S)
  <2>1. IsFiniteSet(Rows)
    BY SamplerAssumption, FS_Interval DEF Rows
  <2> QED
    BY <2>1, FS_Subset
<1>2. ASSUME NEW r
      PROVE  /\ Smaller(S, r) \in Nat
             /\ r \in S => Smaller(S, r) < Cardinality(S)
  <2> DEFINE T == {q \in S : q < r}
  <2>1. /\ IsFiniteSet(T) /\ Cardinality(T) <= Cardinality(S)
        /\ Cardinality(S) = Cardinality(T) => S = T
    BY <1>1, FS_Subset
  <2>2. Cardinality(T) \in Nat /\ Cardinality(S) \in Nat
    BY <1>1, <2>1, FS_CardinalityType
  <2>3. r \in S => r \notin T
    <3>1. r \in S => r \in Nat
      BY SamplerAssumption DEF Rows
    <3> QED
      BY <3>1
  <2> QED
    BY <2>1, <2>2, <2>3 DEF Smaller
<1> QED
  BY <1>1, <1>2, FS_CardinalityType

\* A row that comes later has more rows before it.
LEMMA SmallerGrows ==
    ASSUME NEW S \in SUBSET Rows, NEW r \in S, NEW q \in Rows, r < q
    PROVE  Smaller(S, r) < Smaller(S, q)
<1> DEFINE T == {x \in S : x < r}
           U == {x \in S : x < q}
<1>1. \A x \in S \cup {r, q} : x \in Nat
  BY SamplerAssumption DEF Rows
<1>2. T \subseteq U /\ r \in U /\ r \notin T
  BY <1>1
<1>3. IsFiniteSet(U)
  BY RowsAreFinite, FS_Subset
<1> HIDE DEF T, U
<1>4. /\ IsFiniteSet(T) /\ Cardinality(T) <= Cardinality(U)
      /\ Cardinality(T) # Cardinality(U)
  BY <1>2, <1>3, FS_Subset
<1>5. Cardinality(T) \in Nat /\ Cardinality(U) \in Nat
  BY <1>3, <1>4, FS_CardinalityType
<1>6. Cardinality(T) < Cardinality(U)
  BY <1>4, <1>5
<1> QED
  BY <1>6 DEF Smaller, T, U

\* So that rows are told apart by it, and every number of rows comes before one.
LEMMA SmallerIsRank ==
    ASSUME NEW S \in SUBSET Rows
    PROVE  /\ \A r, q \in S : Smaller(S, r) = Smaller(S, q) => r = q
           /\ \A i \in 1 .. Cardinality(S) : \E r \in S : Smaller(S, r) = i - 1
<1> DEFINE n == Cardinality(S)
           rank == [r \in S |-> Smaller(S, r)]
<1>1. IsFiniteSet(S) /\ n \in Nat /\ \A r \in S : Smaller(S, r) \in 0 .. n - 1
  BY RowsAreFinite
<1>2. \A r, q \in S : Smaller(S, r) = Smaller(S, q) => r = q
  <2> SUFFICES ASSUME NEW r \in S, NEW q \in S, Smaller(S, r) = Smaller(S, q), r # q
               PROVE  FALSE
    OBVIOUS
  <2>1. r \in Nat /\ q \in Nat
    BY SamplerAssumption DEF Rows
  <2>2. r < q \/ q < r
    BY <2>1
  <2>3. Smaller(S, r) \in Nat /\ Smaller(S, q) \in Nat
    BY <1>1
  <2> QED
    BY <2>2, <2>3, SmallerGrows
<1>3. rank \in Injection(S, 0 .. n - 1)
  <2>1. rank \in [S -> 0 .. n - 1]
    BY <1>1
  <2> QED
    BY <1>2, <2>1 DEF Injection, IsInjective
<1>4. IsFiniteSet(0 .. n - 1) /\ Cardinality(0 .. n - 1) = n
  BY <1>1, FS_Interval
<1> HIDE DEF rank, n
<1>5. rank \in Surjection(S, 0 .. n - 1)
  BY <1>3, <1>4, FS_Injection DEF n
<1>6. \A i \in 1 .. n : i - 1 \in 0 .. n - 1
  BY <1>1
<1> QED
  BY <1>2, <1>5, <1>6 DEF Surjection, rank, n

\* InOrder lists the rows of a set, each once and in increasing order.
LEMMA InOrderIs ==
    ASSUME NEW S \in SUBSET Rows
    PROVE  /\ InOrder(S) \in Seq(S) /\ Len(InOrder(S)) = Cardinality(S)
           /\ \A i, j \in 1 .. Cardinality(S) : i < j => InOrder(S)[i] < InOrder(S)[j]
<1>1. Cardinality(S) \in Nat
  BY RowsAreFinite
<1>2. ASSUME NEW i \in 1 .. Cardinality(S)
      PROVE  InOrder(S)[i] \in S /\ Smaller(S, InOrder(S)[i]) = i - 1
  <2>1. InOrder(S)[i] = CHOOSE r \in S : Smaller(S, r) = i - 1
    BY <1>2 DEF InOrder, Smaller
  <2>2. \E r \in S : Smaller(S, r) = i - 1
    BY <1>2, SmallerIsRank
  <2> QED
    BY <2>1, <2>2
<1>3. InOrder(S) \in [1 .. Cardinality(S) -> S]
  BY <1>2 DEF InOrder
<1>4. InOrder(S) \in Seq(S) /\ Len(InOrder(S)) = Cardinality(S)
  BY <1>1, <1>3
<1>5. ASSUME NEW i \in 1 .. Cardinality(S), NEW j \in 1 .. Cardinality(S), i < j
      PROVE  InOrder(S)[i] < InOrder(S)[j]
  <2> DEFINE r == InOrder(S)[i]
             q == InOrder(S)[j]
  <2>1. r \in S /\ q \in S /\ Smaller(S, r) = i - 1 /\ Smaller(S, q) = j - 1
    BY <1>2
  <2> HIDE DEF r, q
  <2>2. r \in Nat /\ q \in Nat
    BY <2>1, SamplerAssumption DEF Rows
  <2>3. ~(q < r)
    <3>1. q < r => Smaller(S, q) < Smaller(S, r)
      BY <2>1, SmallerGrows
    <3> QED
      BY <1>5, <2>1, <3>1
  <2>4. q # r
    BY <1>5, <2>1
  <2>5. r < q
    BY <2>2, <2>3, <2>4
  <2> QED
    BY <2>5 DEF r, q
<1> QED
  BY <1>4, <1>5

\* InOrder lists all the rows of a set.
LEMMA InOrderHasAll ==
    ASSUME NEW S \in SUBSET Rows
    PROVE  /\ InOrder(S) \in Seq(Rows) /\ Range(InOrder(S)) = S
           /\ \A i, j \in DOMAIN InOrder(S) : InOrder(S)[i] = InOrder(S)[j] => i = j
<1> DEFINE q == InOrder(S)
           n == Cardinality(S)
<1>1. /\ n \in Nat /\ q \in Seq(S) /\ Len(q) = n
      /\ \A i, j \in 1 .. n : i < j => q[i] < q[j]
  BY RowsAreFinite, InOrderIs
<1>2. ASSUME NEW r \in S
      PROVE  \E i \in 1 .. n : q[i] = r
  <2>1. PICK i \in 1 .. n : i - 1 = Smaller(S, r)
    <3>1. Smaller(S, r) \in Nat /\ Smaller(S, r) < n
      BY RowsAreFinite
    <3>2. PICK b \in Nat : b = Smaller(S, r)
      BY <3>1
    <3>3. b + 1 \in 1 .. n /\ b + 1 - 1 = b
      BY <1>1, <3>1, <3>2
    <3> QED
      BY <3>2, <3>3
  <2>2. q[i] = CHOOSE x \in S : Smaller(S, x) = i - 1
    BY <2>1 DEF InOrder
  <2>3. \A x \in S : Smaller(S, x) = i - 1 => x = r
    BY <2>1, SmallerIsRank
  <2>4. q[i] = r
    BY <2>1, <2>2, <2>3
  <2> QED
    BY <2>1, <2>4
<1> HIDE DEF q, n
<1>3. DOMAIN q = 1 .. n /\ \A i \in 1 .. n : q[i] \in S
  BY <1>1
<1>4. Range(q) = S
  BY <1>2, <1>3 DEF Range
<1>5. ASSUME NEW i \in 1 .. n, NEW j \in 1 .. n, q[i] = q[j]
      PROVE  i = j
  <2>1. \A r \in S : r \in Nat
    BY SamplerAssumption DEF Rows
  <2>2. q[i] \in Nat
    BY <1>3, <2>1
  <2>3. ~(i < j) /\ ~(j < i)
    BY <1>1, <1>5, <2>2
  <2> QED
    BY <2>3
<1>6. q \in Seq(Rows)
  BY <1>1, <1>3
<1> QED
  BY <1>3, <1>4, <1>5, <1>6 DEF q

\* A page of n rows has n rows at most.
LEMMA PageSizeBound ==
    ASSUME NEW S \in SUBSET Rows, NEW n \in Nat
    PROVE  /\ Page(S, n) \subseteq S /\ IsFiniteSet(Page(S, n))
           /\ Cardinality(Page(S, n)) <= n
<1>1. Rows \subseteq Nat /\ Rows \subseteq 0 .. MaxRow /\ IsFiniteSet(Rows) /\ MaxRow \in Nat
  BY FS_Interval, SamplerAssumption DEF Rows
<1>2. IsFiniteSet(S) /\ Page(S, n) \subseteq S
  BY <1>1, FS_Subset DEF Page
<1>3. IsFiniteSet(Page(S, n))
  BY <1>2, FS_Subset
<1>4. CASE Page(S, n) = {}
  BY <1>2, <1>4, FS_EmptySet
<1>5. CASE Page(S, n) # {}
  <2> DEFINE m == Max(Page(S, n))
             before == {q \in S : q < m}
  <2>1. m \in Page(S, n) /\ \A x \in Page(S, n) : x <= m
    BY <1>1, <1>2, <1>5, MaxOfRows
  <2>2. Cardinality(before) < n
    BY <2>1 DEF Page, Smaller
  <2>3. IsFiniteSet(before) /\ Cardinality(before) \in Nat
    BY <1>2, FS_Subset, FS_CardinalityType
  <2>4. Page(S, n) \subseteq before \cup {m}
    <3>1. \A x \in Page(S, n) : x \in Nat
      BY <1>1, <1>2
    <3> QED
      BY <1>2, <2>1, <3>1
  <2>5. IsFiniteSet(before \cup {m}) /\ Cardinality(before \cup {m}) <= Cardinality(before) + 1
    <3> HIDE DEF before, m
    <3>1. /\ IsFiniteSet(before \cup {m})
          /\ Cardinality(before \cup {m}) =
                IF m \in before THEN Cardinality(before) ELSE Cardinality(before) + 1
      BY <2>3, FS_AddElement
    <3> QED
      BY <2>3, <3>1
  <2>6. Cardinality(Page(S, n)) <= Cardinality(before \cup {m})
    BY <2>4, <2>5, FS_Subset
  <2>7. Cardinality(Page(S, n)) \in Nat /\ Cardinality(before \cup {m}) \in Nat
    BY <1>3, <2>5, FS_CardinalityType
  <2> HIDE DEF before, m
  <2> QED
    BY <1>2, <1>3, <2>2, <2>3, <2>5, <2>6, <2>7
<1> QED
  BY <1>2, <1>3, <1>4, <1>5

-----------------------------------------------------------------------------
(* The invariant                                                           *)

Scanning == s.pc \in {"forward", "wrap"}

SamplerShape ==
    /\ s = [pc |-> s.pc, todo |-> s.todo, random |-> s.random, cursor |-> s.cursor,
            last |-> s.last, fetched |-> s.fetched, handed |-> s.handed, batch |-> s.batch,
            found |-> s.found, matched |-> s.matched, results |-> s.results,
            tried |-> s.tried, sample |-> s.sample]
    /\ opts \in [size : Nat, minExprs : Int, minEach : Int, budget : Nat]
    /\ key \in [Exprs -> Strings]
    /\ labelled \in SUBSET Rows /\ cand \in [Exprs -> SUBSET labelled]
    /\ s.pc \in {"begin", "forward", "wrap", "next"} => s.todo # <<>> /\ labelled # {}

\* The next page of a scan is within what is left of the budget.
PageInBudget == Scanning => s.fetched + s.batch <= opts.budget

\* What a scan hands on and does not count are the rows beyond its range that its
\* cursor has passed: there are none beyond the end of the label.
Passed == {r \in cand[Head(s.todo)] : s.random < r /\ r <= s.cursor}
HandedOK ==
    /\ s.pc = "forward" => s.last = Max(labelled) /\ s.handed = s.fetched
    /\ s.pc = "wrap" => s.last = s.random /\ s.handed <= s.fetched + Cardinality(Passed)

SamplerInv == SamplerTypeOK /\ SamplerShape /\ PageInBudget /\ HandedOK /\ BudgetIsKept

\* At first nothing has been fetched.
LEMMA SamplerInvInit == SamplerInit => SamplerInv
  BY SamplerAssumption
  DEF SamplerInit, SamplerInv, SamplerTypeOK, SamplerShape, PageInBudget, HandedOK,
      BudgetIsKept, Scanning

\* The range of rows of a label.
LEMMA LabelRange ==
    ASSUME SamplerInv, labelled # {}
    PROVE  /\ Min(labelled) \in Rows /\ Max(labelled) \in Rows
           /\ Min(labelled) .. Max(labelled) \subseteq Rows
           /\ \A r \in Rows : r \in 0 .. MaxRow /\ r - 1 \in 0 .. MaxRow
<1>1. labelled \in SUBSET Rows /\ MaxRow \in Nat
  BY SamplerAssumption DEF SamplerInv, SamplerShape
<1>2. \A r \in Rows : r \in Nat /\ r \in 0 .. MaxRow /\ r - 1 \in 0 .. MaxRow
  BY <1>1 DEF Rows
<1>3. labelled \in SUBSET Nat /\ labelled \in SUBSET (0 .. MaxRow)
  BY <1>1, <1>2
<1>4. Min(labelled) \in labelled /\ Max(labelled) \in labelled
  BY <1>1, <1>3, MinOfRows, MaxOfRows
<1>5. Min(labelled) \in Rows /\ Max(labelled) \in Rows
  BY <1>1, <1>4
<1>6. Min(labelled) .. Max(labelled) \subseteq Rows
  BY <1>1, <1>5 DEF Rows
<1> QED
  BY <1>2, <1>5, <1>6

\* A scan that begins within a budget asks for a page within it.
Asked(budget) == IF budget < MaxBatch THEN budget ELSE MaxBatch

\* How many candidates a page is asked for.
LEMMA AskedIs ==
    ASSUME NEW budget \in Nat
    PROVE  Asked(budget) \in 0 .. MaxBatch /\ Asked(budget) <= budget
  BY SamplerAssumption DEF Asked

\* The shuffled expressions are all of them, each once.
LEMMA ShuffleIs ==
    ASSUME NEW order \in SetToSeqs(Exprs)
    PROVE  /\ \A e \in Exprs : \E i \in DOMAIN order : order[i] = e
           /\ \A i, j \in DOMAIN order : order[i] = order[j] => i = j
           /\ \A i \in DOMAIN order : order[i] \in Exprs
           /\ order \in Seq(Exprs) /\ order # <<>>
<1> DEFINE n == Cardinality(Exprs)
<1>1. n \in Nat /\ IsFiniteSet(Exprs)
  BY SamplerAssumption, FS_CardinalityType
<1>2. order \in [1 .. n -> Exprs] /\ \A i, j \in 1 .. n : i # j => order[i] # order[j]
  BY DEF SetToSeqs
<1>3. IsFiniteSet(1 .. n) /\ Cardinality(1 .. n) = n
  BY <1>1, FS_Interval
<1> HIDE DEF n
<1>4. n # 0
  BY SamplerAssumption, FS_EmptySet DEF n
<1>5. order \in Seq(Exprs) /\ order # <<>>
  BY <1>1, <1>2, <1>4, SeqDef
<1>6. order \in Injection(1 .. n, Exprs)
  BY <1>2 DEF Injection, IsInjective
<1>7. order \in Surjection(1 .. n, Exprs)
  BY <1>1, <1>3, <1>6, FS_Injection DEF n
<1> QED
  BY <1>2, <1>7, <1>5 DEF Surjection

\* A new sample, of any options.
LEMMA StartKeeps ==
    ASSUME SamplerInv, Start
    PROVE  SamplerInv'
<1> USE DEF SamplerInv, SamplerShape, SamplerTypeOK
<1>1. CASE \E pc \in {"error", "ok"} : Do([s EXCEPT !.pc = pc])
  BY <1>1 DEF Do, PageInBudget, HandedOK, BudgetIsKept, Scanning
<1>2. CASE labelled # {} /\ \E order \in SetToSeqs(Exprs) :
                Do([s EXCEPT !.pc = "begin", !.todo = order])
  <2>1. PICK order \in SetToSeqs(Exprs) : Do([s EXCEPT !.pc = "begin", !.todo = order])
    BY <1>2
  <2>2. order \in Seq(Exprs) /\ order # <<>>
    BY <2>1, ShuffleIs
  <2> QED
    BY <1>2, <2>1, <2>2 DEF Do, PageInBudget, HandedOK, BudgetIsKept, Scanning
<1> QED
  BY <1>1, <1>2 DEF Start

\* The first of the expressions that wait.
LEMMA HeadIsFirst ==
    ASSUME SamplerInv, s.todo # <<>>
    PROVE  /\ Head(s.todo) \in Exprs /\ s.todo[1] = Head(s.todo) /\ 1 \in DOMAIN s.todo
           /\ Tail(s.todo) \in Seq(Exprs)
           /\ \A i \in DOMAIN Tail(s.todo) :
                i + 1 \in DOMAIN s.todo /\ i + 1 > 1 /\ Tail(s.todo)[i] = s.todo[i + 1]
           /\ \A i \in DOMAIN s.todo : i > 1 =>
                i - 1 \in DOMAIN Tail(s.todo) /\ Tail(s.todo)[i - 1] = s.todo[i]
           /\ Tail(s.todo) = <<>> => \A i \in DOMAIN s.todo : ~(i > 1)
<1>1. PICK q \in Seq(Exprs) : q = s.todo /\ q # <<>>
  BY DEF SamplerInv, SamplerTypeOK
<1>2. /\ Head(q) \in Exprs /\ q[1] = Head(q) /\ 1 \in DOMAIN q /\ Tail(q) \in Seq(Exprs)
      /\ DOMAIN q = 1 .. Len(q) /\ Len(q) \in Nat /\ Len(q) > 0
  BY <1>1
<1>3. DOMAIN Tail(q) = 1 .. Len(q) - 1 /\ \A i \in 1 .. Len(q) - 1 : Tail(q)[i] = q[i + 1]
  BY <1>1, <1>2
<1>4. \A i \in DOMAIN Tail(q) : i + 1 \in DOMAIN q /\ i + 1 > 1 /\ Tail(q)[i] = q[i + 1]
  BY <1>2, <1>3
<1>5. ASSUME NEW i \in DOMAIN q, i > 1
      PROVE  i - 1 \in DOMAIN Tail(q) /\ Tail(q)[i - 1] = q[i]
  <2>1. i - 1 \in 1 .. Len(q) - 1 /\ i - 1 + 1 = i
    BY <1>2, <1>5
  <2> QED
    BY <1>3, <2>1
<1>6. Tail(q) = <<>> => \A i \in DOMAIN q : ~(i > 1)
  <2> SUFFICES ASSUME Tail(q) = <<>>, NEW i \in DOMAIN q, i > 1
               PROVE  FALSE
    OBVIOUS
  <2>1. i - 1 \in DOMAIN Tail(q)
    BY <1>5
  <2> QED
    BY <2>1
<1> QED
  BY <1>1, <1>2, <1>4, <1>5, <1>6

\* The scan of the next expression begins in a random row.
LEMMA BeginKeeps ==
    ASSUME SamplerInv, BeginExpr
    PROVE  SamplerInv'
<1> USE DEF SamplerInv
<1> DEFINE st(r) == [s EXCEPT !.random = r, !.fetched = 0, !.handed = 0, !.found = <<>>,
                          !.tried = @ \cup {Head(s.todo)}]
<1>1. PICK r \in Min(labelled) .. Max(labelled) :
        Do(Scan(st(r), "forward", r - 1, Max(labelled), opts.budget))
  BY DEF BeginExpr
<1>2. s.pc = "begin" /\ labelled # {} /\ opts.budget \in Nat
  BY DEF BeginExpr, SamplerShape
<1>3. r \in 0 .. MaxRow /\ r - 1 \in 0 .. MaxRow /\ Max(labelled) \in 0 .. MaxRow
  BY <1>2, LabelRange
<1>4. Asked(opts.budget) \in 0 .. MaxBatch /\ Asked(opts.budget) <= opts.budget
  BY <1>2, AskedIs
<1>5. Do([s EXCEPT !.random = r, !.fetched = 0, !.handed = 0, !.found = <<>>,
                   !.tried = @ \cup {Head(s.todo)}, !.pc = "forward", !.cursor = r - 1, !.last = Max(labelled),
                   !.batch = Asked(opts.budget)])
  BY <1>1 DEF SamplerShape, Scan, Asked
<1>6. s' = [pc |-> "forward", todo |-> s.todo, random |-> r, cursor |-> r - 1,
            last |-> Max(labelled), fetched |-> 0, handed |-> 0, batch |-> Asked(opts.budget),
            found |-> <<>>, matched |-> s.matched, results |-> s.results,
            tried |-> s.tried \cup {Head(s.todo)}, sample |-> s.sample]
  BY <1>5 DEF Do, SamplerShape
<1>7. UNCHANGED <<opts, key, labelled, cand>>
  BY <1>5 DEF Do
<1>8. SamplerTypeOK'
  BY <1>3, <1>4, <1>6, <1>7 DEF SamplerTypeOK
<1>9. SamplerShape'
  BY <1>2, <1>6, <1>7 DEF SamplerShape
<1> QED
  <2>1. PageInBudget' /\ HandedOK'
    BY <1>2, <1>4, <1>6, <1>7 DEF PageInBudget, HandedOK, Scanning
  <2>2. Cardinality({x \in cand[Head(s.todo)] : x > r}) \in Nat
    <3>1. {x \in cand[Head(s.todo)] : x > r} \in SUBSET Rows
      BY <1>2, HeadIsFirst DEF SamplerShape
    <3> QED
      BY <3>1, RowsAreFinite
  <2>3. {x \in cand[Head(s.todo)] : x > s.random}' = {x \in cand[Head(s.todo)] : x > r}
    BY <1>6, <1>7
  <2>4. s'.fetched = 0 /\ s'.handed = 0
    BY <1>6
  <2>5. BudgetIsKept'
    BY <1>2, <1>7, <2>2, <2>3, <2>4 DEF BudgetIsKept
  <2> QED
    BY <1>8, <1>9, <2>1, <2>5

\* One FindCandidates: the page, what of it is within the range of the scan, and what
\* becomes of the cursor, the results and the budget.
Candidates == cand[Head(s.todo)]
NextPage == Page({r \in Candidates : r > s.cursor}, s.batch)
SeenNow == {r \in NextPage : r <= s.last}
BeyondNow == {r \in NextPage : r > s.last}
CursorNow == IF BeyondNow # {} THEN Min(BeyondNow) ELSE Max(NextPage \cup {s.cursor})
FetchedNow == s.fetched + Cardinality(SeenNow)
HandedNow == s.handed + Cardinality(SeenNow) + (IF BeyondNow # {} THEN 1 ELSE 0)
FoundNow == s.found \o InOrder(SeenNow \cap accepts[Head(s.todo)])
LeftNow == opts.budget - FetchedNow
Ended == CursorNow = s.cursor \/ LeftNow = 0
FetchState(pc, cursor, last, batch) ==
    [pc |-> pc, todo |-> s.todo, random |-> s.random, cursor |-> cursor, last |-> last,
     fetched |-> FetchedNow, handed |-> HandedNow, batch |-> batch, found |-> FoundNow,
     matched |-> s.matched, results |-> s.results, tried |-> s.tried, sample |-> s.sample]

\* The rows that one FindCandidates hands on are within its batch, and its cursor is one.
LEMMA PageInRows ==
    ASSUME SamplerInv, Scanning
    PROVE  /\ Head(s.todo) \in Exprs /\ Candidates \in SUBSET labelled
           /\ NextPage \in SUBSET Rows /\ NextPage \subseteq {r \in Candidates : r > s.cursor}
           /\ Cardinality(SeenNow) \in Nat /\ Cardinality(SeenNow) <= s.batch
           /\ CursorNow \in 0 .. MaxRow /\ LeftNow \in Nat
<1>1. Head(s.todo) \in Exprs /\ s.batch \in Nat /\ s.fetched \in Nat /\ opts.budget \in Nat
  BY SamplerAssumption DEF SamplerInv, SamplerShape, SamplerTypeOK, Scanning
<1>2. Candidates \in SUBSET labelled /\ {r \in Candidates : r > s.cursor} \in SUBSET Rows
  BY <1>1 DEF SamplerInv, SamplerShape, Candidates
<1>3. /\ NextPage \subseteq {r \in Candidates : r > s.cursor}
      /\ IsFiniteSet(NextPage) /\ Cardinality(NextPage) <= s.batch
  BY <1>1, <1>2, PageSizeBound DEF NextPage
<1>4. NextPage \in SUBSET Rows
  BY <1>2, <1>3
<1>5. Cardinality(SeenNow) \in Nat /\ Cardinality(SeenNow) <= s.batch
  <2>1. SeenNow \in SUBSET NextPage
    BY DEF SeenNow
  <2>2. IsFiniteSet(SeenNow) /\ Cardinality(SeenNow) <= Cardinality(NextPage)
    BY <1>3, <2>1, FS_Subset
  <2>3. Cardinality(SeenNow) \in Nat /\ Cardinality(NextPage) \in Nat
    BY <1>3, <2>2, FS_CardinalityType
  <2> QED
    BY <1>1, <1>3, <2>2, <2>3
<1>6. CursorNow \in 0 .. MaxRow
  <2>1. MaxRow \in Nat /\ s.cursor \in 0 .. MaxRow
    BY SamplerAssumption DEF SamplerInv, SamplerTypeOK
  <2>2. NextPage \cup {s.cursor} \in SUBSET (0 .. MaxRow) /\ BeyondNow \in SUBSET (0 .. MaxRow)
    <3>1. \A r \in NextPage : r \in 0 .. MaxRow
      BY <1>4, <2>1 DEF Rows
    <3> QED
      BY <2>1, <3>1 DEF BeyondNow
  <2>3. Max(NextPage \cup {s.cursor}) \in 0 .. MaxRow
    BY <2>1, <2>2, MaxOfRows
  <2>4. BeyondNow \in SUBSET Nat
    BY <2>2
  <2>5. BeyondNow # {} => Min(BeyondNow) \in 0 .. MaxRow
    BY <2>2, <2>4, MinOfRows
  <2> QED
    BY <2>3, <2>5 DEF CursorNow
<1>7. LeftNow \in Nat
  BY <1>1, <1>5 DEF LeftNow, FetchedNow, SamplerInv, PageInBudget
<1> QED
  BY <1>1, <1>2, <1>3, <1>4, <1>5, <1>6, <1>7

\* A page is the first rows there are.
LEMMA PageIsFirst ==
    ASSUME NEW S \in SUBSET Rows, NEW n \in Nat
    PROVE  /\ Page(S, n) \subseteq S
           /\ \A r \in Page(S, n), q \in S : q <= r => q \in Page(S, n)
           /\ n > 0 /\ S # {} => Page(S, n) # {}
<1>1. \A r \in S : r \in Nat /\ r \in Rows
  BY SamplerAssumption DEF Rows
<1>2. ASSUME NEW r \in Page(S, n), NEW q \in S, q <= r
      PROVE  q \in Page(S, n)
  <2>1. r \in S /\ Smaller(S, r) < n /\ Smaller(S, r) \in Nat /\ Smaller(S, q) \in Nat
    BY <1>1, RowsAreFinite DEF Page
  <2>2. q = r \/ Smaller(S, q) < Smaller(S, r)
    <3>1. q = r \/ q < r
      BY <1>1, <1>2, <2>1
    <3> QED
      BY <1>1, <2>1, <3>1, SmallerGrows
  <2>3. Smaller(S, q) < n
    BY <2>1, <2>2
  <2> QED
    BY <2>3 DEF Page
<1>3. ASSUME n > 0, S # {}
      PROVE  Page(S, n) # {}
  <2>1. S \in SUBSET Nat
    BY <1>1
  <2>2. PICK m \in S : \A x \in S : m <= x
    BY <1>3, <2>1, LeastNatural
  <2>3. {q \in S : q < m} = {}
    <3>1. \A q \in S : ~(q < m)
      BY <1>1, <2>2
    <3> QED
      BY <3>1
  <2>4. Smaller(S, m) = 0
    BY <2>3, FS_EmptySet DEF Smaller
  <2> QED
    BY <1>3, <2>2, <2>4 DEF Page
<1> QED
  BY <1>2, <1>3 DEF Page

\* One FindCandidates hands on every candidate that its cursor passes, up to the end of
\* the range; it does not move only when there is none.
LEMMA ScanGoes ==
    ASSUME SamplerInv, Scanning
    PROVE  /\ CursorNow >= s.cursor /\ s.cursor \in Nat /\ CursorNow \in Nat /\ s.last \in Nat
           /\ SeenNow = {r \in Candidates : s.cursor < r /\ r <= CursorNow /\ r <= s.last}
           /\ s.batch > 0 /\ CursorNow = s.cursor => \A r \in Candidates : r <= s.cursor
<1> DEFINE S == {r \in Candidates : r > s.cursor}
<1>1. /\ S \in SUBSET Rows /\ NextPage \subseteq S /\ NextPage \in SUBSET Rows
      /\ s.batch \in Nat /\ s.cursor \in 0 .. MaxRow /\ MaxRow \in Nat /\ s.last \in Nat
      /\ \A r \in Candidates : r \in Nat /\ r \in Rows
  <2>1. Candidates \in SUBSET labelled /\ NextPage \subseteq S /\ NextPage \in SUBSET Rows
    BY PageInRows
  <2>2. labelled \in SUBSET Rows
    BY DEF SamplerInv, SamplerShape
  <2>3. s.batch \in Nat /\ s.cursor \in 0 .. MaxRow /\ MaxRow \in Nat /\ s.last \in Nat
    BY SamplerAssumption DEF SamplerInv, SamplerTypeOK
  <2>4. \A r \in Rows : r \in Nat
    BY SamplerAssumption DEF Rows
  <2> QED
    BY <2>1, <2>2, <2>3, <2>4
<1>2. /\ \A r \in NextPage, q \in S : q <= r => q \in NextPage
      /\ s.batch > 0 /\ S # {} => NextPage # {}
  BY <1>1, PageIsFirst DEF NextPage
<1>3. \A r \in NextPage : r \in Nat /\ r > s.cursor /\ r \in Candidates
  BY <1>1
<1>4. CASE BeyondNow # {}
  <2>1. BeyondNow \in SUBSET Nat
    BY <1>3 DEF BeyondNow
  <2>2. CursorNow \in BeyondNow
    BY <1>4, <2>1, MinOfRows DEF CursorNow
  <2>3. CursorNow \in NextPage /\ CursorNow > s.last /\ CursorNow > s.cursor /\ CursorNow \in Nat
    BY <1>3, <2>2 DEF BeyondNow
  <2>4. ASSUME NEW r \in Candidates, s.cursor < r, r <= s.last
        PROVE  r \in NextPage /\ r <= CursorNow
    BY <1>1, <1>2, <2>3, <2>4
  <2> HIDE DEF S
  <2>5. SeenNow \subseteq {r \in Candidates : s.cursor < r /\ r <= CursorNow /\ r <= s.last}
    <3> SUFFICES ASSUME NEW r \in SeenNow
                 PROVE  r \in Candidates /\ s.cursor < r /\ r <= CursorNow /\ r <= s.last
      OBVIOUS
    <3>1. r \in NextPage /\ r <= s.last
      BY DEF SeenNow
    <3>2. r \in Candidates /\ r \in Nat /\ s.cursor < r
      BY <1>1, <1>3, <3>1
    <3> QED
      BY <1>1, <2>3, <3>1, <3>2
  <2>6. {r \in Candidates : s.cursor < r /\ r <= CursorNow /\ r <= s.last} \subseteq SeenNow
    BY <2>4 DEF SeenNow
  <2>7. s.cursor \in Nat /\ CursorNow >= s.cursor /\ CursorNow # s.cursor
    BY <1>1, <2>3
  <2> QED
    BY <1>1, <2>3, <2>5, <2>6, <2>7
<1>5. CASE BeyondNow = {}
  <2> DEFINE T == NextPage \cup {s.cursor}
  <2>1. T \in SUBSET (0 .. MaxRow) /\ T # {}
    <3>1. \A r \in NextPage : r \in 0 .. MaxRow
      BY <1>1 DEF Rows
    <3> QED
      BY <1>1, <3>1
  <2> HIDE DEF T
  <2>2. CursorNow = Max(T) /\ Max(T) \in T /\ \A x \in T : x <= Max(T)
    BY <1>1, <1>5, <2>1, MaxOfRows DEF CursorNow, T
  <2>3. /\ CursorNow \in NextPage \/ CursorNow = s.cursor
        /\ \A r \in NextPage : r <= CursorNow
        /\ s.cursor <= CursorNow /\ CursorNow \in Nat
    BY <1>1, <1>3, <2>2 DEF T
  <2>4. SeenNow = NextPage
    BY <1>1, <1>3, <1>5 DEF SeenNow, BeyondNow
  <2>5. ASSUME NEW r \in Candidates, s.cursor < r, r <= CursorNow
        PROVE  r \in NextPage
    BY <1>1, <1>2, <2>3, <2>5
  <2>6. \A r \in NextPage : r <= s.last
    BY <1>1, <1>5 DEF BeyondNow
  <2>7. SeenNow = {r \in Candidates : s.cursor < r /\ r <= CursorNow /\ r <= s.last}
    BY <1>3, <2>3, <2>4, <2>5, <2>6
  <2>8. ASSUME s.batch > 0, CursorNow = s.cursor
        PROVE  \A r \in Candidates : r <= s.cursor
    <3>1. NextPage = {}
      BY <1>3, <2>3, <2>8
    <3>2. S = {}
      BY <1>2, <2>8, <3>1
    <3> QED
      BY <1>1, <3>2
  <2> QED
    BY <1>1, <2>3, <2>7, <2>8
<1> QED
  BY <1>4, <1>5

\* A scan goes on, or is followed by the wrap scan, or by the next expression.
LEMMA FindCandidatesIs ==
    ASSUME SamplerInv, FindCandidates
    PROVE  /\ UNCHANGED <<opts, key, labelled, cand, accepts>>
           /\ \/ /\ ~Ended
                 /\ s' = FetchState(s.pc, CursorNow, s.last, BatchOf(LeftNow))
              \/ /\ Ended /\ s.pc = "forward" /\ LeftNow > 0
                 /\ s' = FetchState("wrap", Min(labelled) - 1, s.random, Asked(LeftNow))
              \/ /\ Ended /\ ~(s.pc = "forward" /\ LeftNow > 0)
                 /\ s' = FetchState("next", CursorNow, s.last, s.batch)
<1> DEFINE st == [s EXCEPT !.fetched = FetchedNow, !.handed = HandedNow, !.found = FoundNow,
                           !.cursor = CursorNow]
<1>1. /\ s.pc \in {"forward", "wrap"} /\ UNCHANGED <<opts, key, labelled, cand, accepts>>
      /\ s' = IF CursorNow = s.cursor \/ Budget - Cardinality(SeenNow) = 0 THEN EndScan(st)
              ELSE [st EXCEPT !.batch = BatchOf(Budget - Cardinality(SeenNow))]
  <2>1. s.pc \in {"forward", "wrap"}
    BY DEF FindCandidates
  <2>2. [s EXCEPT !.fetched = @ + Cardinality(SeenNow),
                  !.handed = @ + Cardinality(SeenNow) + (IF BeyondNow # {} THEN 1 ELSE 0),
                  !.found = @ \o InOrder(SeenNow \cap accepts[Head(s.todo)]),
                  !.cursor = CursorNow] = st
    BY DEF FetchedNow, HandedNow, FoundNow, SamplerInv, SamplerShape
  <2> HIDE DEF st
  <2>3. Do(IF CursorNow = s.cursor \/ Budget - Cardinality(SeenNow) = 0 THEN EndScan(st)
           ELSE [st EXCEPT !.batch = BatchOf(Budget - Cardinality(SeenNow))])
    BY <2>2 DEF FindCandidates, Candidates, NextPage, SeenNow, BeyondNow, CursorNow
  <2> QED
    BY <2>1, <2>3 DEF Do
<1>2. Budget - Cardinality(SeenNow) = LeftNow /\ LeftNow = opts.budget - FetchedNow
      /\ opts.budget \in Nat /\ FetchedNow \in Nat /\ LeftNow \in Nat
  <2>1. Scanning
    BY <1>1 DEF Scanning
  <2>2. Cardinality(SeenNow) \in Nat /\ s.fetched \in Nat /\ opts.budget \in Nat /\ LeftNow \in Nat
    BY <2>1, PageInRows DEF SamplerInv, SamplerTypeOK, SamplerShape
  <2> QED
    BY <2>2 DEF Budget, LeftNow, FetchedNow
<1>3. st = FetchState(s.pc, CursorNow, s.last, s.batch)
  <2> DEFINE all == [pc |-> s.pc, todo |-> s.todo, random |-> s.random, cursor |-> s.cursor,
                     last |-> s.last, fetched |-> s.fetched, handed |-> s.handed,
                     batch |-> s.batch, found |-> s.found, matched |-> s.matched,
                     results |-> s.results, tried |-> s.tried, sample |-> s.sample]
  <2>1. s = all
    BY DEF SamplerInv, SamplerShape
  <2>2. st = [all EXCEPT !.fetched = FetchedNow, !.handed = HandedNow, !.found = FoundNow,
                         !.cursor = CursorNow]
    BY <2>1
  <2> HIDE DEF st
  <2> QED
    BY <2>2 DEF FetchState
<1> HIDE DEF st
<1>4. st.pc = s.pc /\ st.fetched = FetchedNow /\ st.random = s.random
  BY <1>3 DEF FetchState
<1>5. CASE ~Ended
  <2>1. s' = [st EXCEPT !.batch = BatchOf(LeftNow)]
    BY <1>1, <1>2, <1>5 DEF Ended
  <2>2. s' = FetchState(s.pc, CursorNow, s.last, BatchOf(LeftNow))
    BY <1>3, <2>1 DEF FetchState
  <2> QED
    BY <1>1, <1>5, <2>2
<1>6. CASE Ended /\ s.pc = "forward" /\ LeftNow > 0
  <2>1. s' = [st EXCEPT !.pc = "wrap", !.cursor = Min(labelled) - 1, !.last = st.random,
                        !.batch = Asked(opts.budget - st.fetched)]
    BY <1>1, <1>2, <1>4, <1>6 DEF Ended, EndScan, Wrap, Scan, Asked
  <2>2. s' = FetchState("wrap", Min(labelled) - 1, s.random, Asked(LeftNow))
    BY <1>2, <1>3, <1>4, <2>1 DEF FetchState
  <2> QED
    BY <1>1, <1>6, <2>2
<1>7. CASE Ended /\ ~(s.pc = "forward" /\ LeftNow > 0)
  <2>1. s' = [st EXCEPT !.pc = "next"]
    BY <1>1, <1>2, <1>4, <1>7 DEF Ended, EndScan, Wrap
  <2>2. s' = FetchState("next", CursorNow, s.last, s.batch)
    BY <1>3, <2>1 DEF FetchState
  <2> QED
    BY <1>1, <1>7, <2>2
<1> QED
  BY <1>5, <1>6, <1>7

\* The rows that a page counts and those it does not are within the candidates.
LEMMA HandedIs ==
    ASSUME SamplerInv, Scanning
    PROVE  /\ HandedNow \in Nat
           /\ s.pc = "forward" => HandedNow = FetchedNow
           /\ s.pc = "wrap" =>
                HandedNow <= FetchedNow
                    + Cardinality({r \in Candidates : s.random < r /\ r <= CursorNow})
<1> DEFINE C == Candidates
           P == {r \in C : s.random < r /\ r <= CursorNow}
<1>1. /\ C \in SUBSET Rows /\ C \in SUBSET labelled /\ \A r \in C : r \in Nat
      /\ labelled # {} /\ labelled \in SUBSET Rows
  <2>1. C \in SUBSET labelled /\ labelled # {} /\ labelled \in SUBSET Rows
    BY PageInRows DEF SamplerInv, SamplerShape, Scanning
  <2> QED
    BY <2>1, SamplerAssumption DEF Rows
<1>2. /\ s.handed \in Nat /\ s.fetched \in Nat /\ Cardinality(SeenNow) \in Nat
      /\ s.random \in Nat /\ s.cursor \in Nat /\ CursorNow \in Nat /\ s.cursor <= CursorNow
      /\ FetchedNow = s.fetched + Cardinality(SeenNow)
  BY PageInRows, ScanGoes, SamplerAssumption DEF SamplerInv, SamplerTypeOK, FetchedNow
<1>3. HandedNow \in Nat
  BY <1>2 DEF HandedNow
<1>4. NextPage \subseteq {r \in C : r > s.cursor} /\ BeyondNow \subseteq NextPage
  BY PageInRows DEF BeyondNow
<1>5. ASSUME s.pc = "forward"
      PROVE  HandedNow = FetchedNow
  <2>1. s.last = Max(labelled) /\ s.handed = s.fetched
    BY <1>5 DEF SamplerInv, HandedOK
  <2>2. labelled \in SUBSET (0 .. MaxRow) /\ MaxRow \in Nat
    BY <1>1, SamplerAssumption DEF Rows
  <2>3. \A r \in labelled : r <= Max(labelled) /\ Max(labelled) \in labelled
    BY <1>1, <2>2, MaxOfRows
  <2>4. \A r \in C : r <= s.last /\ r \in Nat /\ s.last \in Nat
    <3>1. \A r \in labelled : r \in Nat
      BY <1>1, SamplerAssumption DEF Rows
    <3> QED
      BY <1>1, <2>1, <2>3, <3>1
  <2>5. BeyondNow = {}
    <3>1. \A r \in NextPage : r \in C
      BY <1>4
    <3>2. \A r \in NextPage : ~(r > s.last)
      BY <2>4, <3>1
    <3> QED
      BY <3>2 DEF BeyondNow
  <2> QED
    BY <1>2, <2>1, <2>5 DEF HandedNow
<1>6. ASSUME s.pc = "wrap"
      PROVE  HandedNow <= FetchedNow + Cardinality(P)
  <2>1. s.last = s.random /\ s.handed <= s.fetched + Cardinality(Passed)
    BY <1>6 DEF SamplerInv, HandedOK
  <2>2. Passed = {r \in C : s.random < r /\ r <= s.cursor}
    BY DEF Passed, Candidates
  <2>3. Passed \in SUBSET P /\ P \in SUBSET Rows
    BY <1>1, <1>2, <2>2
  <2>4. /\ IsFiniteSet(P) /\ Cardinality(P) \in Nat
        /\ IsFiniteSet(Passed) /\ Cardinality(Passed) \in Nat
        /\ Cardinality(Passed) <= Cardinality(P)
        /\ Cardinality(P) = Cardinality(Passed) => P = Passed
    <3>1. IsFiniteSet(P) /\ Cardinality(P) \in Nat
      BY <2>3, RowsAreFinite
    <3> HIDE DEF P
    <3>2. /\ IsFiniteSet(Passed) /\ Cardinality(Passed) <= Cardinality(P)
          /\ Cardinality(P) = Cardinality(Passed) => P = Passed
      BY <2>3, <3>1, FS_Subset
    <3> QED
      BY <3>1, <3>2, FS_CardinalityType
  <2>5. CASE BeyondNow = {}
    <3> HIDE DEF P
    <3>1. HandedNow = s.handed + Cardinality(SeenNow)
      BY <1>2, <2>5 DEF HandedNow
    <3> QED
      BY <1>2, <2>1, <2>4, <3>1
  <2>6. CASE BeyondNow # {}
    <3>1. BeyondNow \in SUBSET Nat
      BY <1>1, <1>4
    <3>2. CursorNow \in BeyondNow
      BY <2>6, <3>1, MinOfRows DEF CursorNow
    <3>3. CursorNow \in C /\ CursorNow > s.cursor /\ CursorNow > s.last
      BY <1>4, <3>2 DEF BeyondNow
    <3>4. CursorNow \in P /\ CursorNow \notin Passed
      BY <1>2, <2>1, <2>2, <3>3
    <3> HIDE DEF P
    <3>5. Cardinality(P) # Cardinality(Passed)
      BY <2>4, <3>4
    <3>6. HandedNow = s.handed + Cardinality(SeenNow) + 1
      BY <2>6 DEF HandedNow
    <3> QED
      BY <1>2, <2>1, <2>4, <3>5, <3>6
  <2> QED
    BY <2>5, <2>6
<1> QED
  BY <1>3, <1>5, <1>6

\* What a scan has passed without counting it is behind the random row.
LEMMA PassedIsBehind ==
    ASSUME SamplerInv, Scanning
    PROVE  LET behind == Cardinality({r \in Candidates : r > s.random})
               passed == Cardinality({r \in Candidates : s.random < r /\ r <= CursorNow})
           IN behind \in Nat /\ passed \in Nat /\ passed <= behind
<1> DEFINE behind == {r \in Candidates : r > s.random}
           passed == {r \in Candidates : s.random < r /\ r <= CursorNow}
<1>1. Candidates \in SUBSET Rows /\ \A r \in Candidates : r \in Nat
  <2>1. Candidates \in SUBSET labelled /\ labelled \in SUBSET Rows
    BY PageInRows DEF SamplerInv, SamplerShape
  <2> QED
    BY <2>1, SamplerAssumption DEF Rows
<1>2. behind \in SUBSET Rows /\ passed \in SUBSET Rows
  BY <1>1
<1>3. s.random \in Nat
  BY SamplerAssumption DEF SamplerInv, SamplerTypeOK
<1>4. passed \in SUBSET behind
  BY <1>1, <1>3
<1>5. IsFiniteSet(behind) /\ Cardinality(behind) \in Nat /\ Cardinality(passed) \in Nat
  BY <1>2, RowsAreFinite
<1>6. Cardinality(passed) <= Cardinality(behind)
  <2> HIDE DEF passed, behind
  <2> QED
    BY <1>4, <1>5, FS_Subset
<1> QED
  BY <1>5, <1>6

\* A page counts at most what is left of the budget.
LEMMA FindCandidatesKeeps ==
    ASSUME SamplerInv, FindCandidates
    PROVE  SamplerInv'
<1>1. Scanning
  BY DEF FindCandidates, Scanning
<1>2. /\ Cardinality(SeenNow) \in Nat /\ Cardinality(SeenNow) <= s.batch
      /\ CursorNow \in 0 .. MaxRow /\ LeftNow \in Nat
  BY <1>1, PageInRows
<1>3. /\ s.fetched \in Nat /\ s.batch \in 0 .. MaxBatch /\ opts.budget \in Nat
      /\ MaxBatch \in Nat /\ labelled # {} /\ s.todo # <<>>
      /\ s.random \in 0 .. MaxRow /\ s.last \in 0 .. MaxRow
  BY <1>1, SamplerAssumption DEF SamplerInv, SamplerTypeOK, SamplerShape, Scanning
<1>4. /\ FetchedNow \in Nat /\ LeftNow = opts.budget - FetchedNow
      /\ FetchedNow + LeftNow = opts.budget
  BY <1>2, <1>3 DEF FetchedNow, LeftNow
<1>5. /\ BatchOf(LeftNow) \in 0 .. MaxBatch /\ BatchOf(LeftNow) <= LeftNow
      /\ Asked(LeftNow) \in 0 .. MaxBatch /\ Asked(LeftNow) <= LeftNow
  <2>1. BatchOf(LeftNow) \in 0 .. MaxBatch /\ BatchOf(LeftNow) <= LeftNow
    BY <1>2, <1>3 DEF BatchOf
  <2>2. Asked(LeftNow) \in 0 .. MaxBatch /\ Asked(LeftNow) <= LeftNow
    BY <1>2, AskedIs
  <2> QED
    BY <2>1, <2>2
<1>6. Min(labelled) - 1 \in 0 .. MaxRow
  BY <1>3, LabelRange
<1>7. FoundNow \in Seq(Rows)
  <2>1. /\ SeenNow \cap accepts[Head(s.todo)] \in SUBSET Rows /\ s.found \in Seq(Rows)
    BY <1>1, PageInRows DEF SeenNow, SamplerInv, SamplerTypeOK
  <2>2. InOrder(SeenNow \cap accepts[Head(s.todo)]) \in Seq(Rows)
    BY <2>1, InOrderHasAll
  <2> QED
    BY <2>1, <2>2, ConcatProperties DEF FoundNow
<1>8. PICK pc \in {"forward", "wrap", "next"}, cursor \in 0 .. MaxRow, last \in 0 .. MaxRow,
           batch \in 0 .. MaxBatch :
        /\ s' = FetchState(pc, cursor, last, batch) /\ (pc # "next" => batch <= LeftNow)
        /\ pc = "forward" => s.pc = "forward" /\ last = s.last
        /\ pc = "wrap" => \/ s.pc = "forward" /\ last = s.random
                          \/ s.pc = "wrap" /\ last = s.last /\ cursor = CursorNow
  BY <1>1, <1>2, <1>3, <1>5, <1>6, FindCandidatesIs DEF Scanning
<1>9. UNCHANGED <<opts, key, labelled, cand>>
  BY FindCandidatesIs
<1>10. FetchedNow <= opts.budget /\ (pc # "next" => FetchedNow + batch <= opts.budget)
  BY <1>2, <1>3, <1>4, <1>8
<1>11. /\ HandedNow \in Nat
       /\ s.pc = "forward" => HandedNow = FetchedNow
       /\ s.pc = "wrap" => HandedNow <= FetchedNow
            + Cardinality({r \in Candidates : s.random < r /\ r <= CursorNow})
  BY <1>1, HandedIs
<1>12. /\ s'.todo = s.todo /\ s'.random = s.random /\ s'.pc = pc /\ s'.cursor = cursor
       /\ s'.last = last /\ s'.fetched = FetchedNow /\ s'.handed = HandedNow
       /\ s'.batch = batch /\ s'.found = FoundNow /\ s'.matched = s.matched
       /\ s'.results = s.results
  BY <1>8 DEF FetchState
<1>13. SamplerTypeOK'
  BY <1>3, <1>4, <1>7, <1>8, <1>9, <1>11, <1>12 DEF SamplerInv, SamplerTypeOK
<1>14. SamplerShape'
  BY <1>3, <1>8, <1>9 DEF SamplerInv, SamplerShape, FetchState
<1>15. PageInBudget'
  BY <1>9, <1>10, <1>12 DEF PageInBudget, Scanning
<1>16. HandedOK'
  <2>1. pc = "forward" => last = Max(labelled) /\ HandedNow = FetchedNow
    BY <1>8, <1>11 DEF SamplerInv, HandedOK
  <2>2. Passed' = {r \in Candidates : s.random < r /\ r <= cursor}
    BY <1>9, <1>12 DEF Passed, Candidates
  <2>3. Cardinality({r \in Candidates : s.random < r /\ r <= cursor}) \in Nat
    <3>1. {r \in Candidates : s.random < r /\ r <= cursor} \in SUBSET Rows
      BY <1>1, PageInRows DEF SamplerInv, SamplerShape
    <3> QED
      BY <3>1, RowsAreFinite
  <2>4. pc = "wrap" => last = s.random
    BY <1>8 DEF SamplerInv, HandedOK
  <2>5. pc = "wrap" => HandedNow <= FetchedNow
            + Cardinality({r \in Candidates : s.random < r /\ r <= cursor})
    BY <1>4, <1>8, <1>11, <2>3
  <2> QED
    BY <1>9, <1>12, <2>1, <2>2, <2>4, <2>5 DEF HandedOK
<1>17. BudgetIsKept'
  <2>1. HandedNow <= FetchedNow + Cardinality({r \in Candidates : r > s.random})
    BY <1>1, <1>4, <1>11, PassedIsBehind DEF Scanning
  <2>2. {r \in cand[Head(s.todo)] : r > s.random}' = {r \in Candidates : r > s.random}
    BY <1>9, <1>12 DEF Candidates
  <2> QED
    BY <1>9, <1>10, <1>12, <2>1, <2>2 DEF BudgetIsKept
<1> QED
  BY <1>13, <1>14, <1>15, <1>16, <1>17 DEF SamplerInv

\* What an expression has found joins the group of its string.
GroupedNow == [s.results EXCEPT ![key[Head(s.todo)]] = @ \o s.found]
LEMMA GroupedIs ==
    ASSUME SamplerInv, s.todo # <<>>
    PROVE  /\ MatchedNow \subseteq Exprs /\ GroupedNow \in [Strings -> Seq(Rows)]
           /\ Head(s.todo) \in Exprs /\ key[Head(s.todo)] \in Strings
           /\ GroupedNow[key[Head(s.todo)]] = s.results[key[Head(s.todo)]] \o s.found
           /\ \A k \in Strings : k # key[Head(s.todo)] => GroupedNow[k] = s.results[k]
<1>1. Head(s.todo) \in Exprs
  BY HeadIsFirst
<1>2. /\ key[Head(s.todo)] \in Strings /\ s.results \in [Strings -> Seq(Rows)]
      /\ s.found \in Seq(Rows) /\ s.matched \subseteq Exprs
  BY <1>1 DEF SamplerInv, SamplerShape, SamplerTypeOK
<1>3. s.results[key[Head(s.todo)]] \o s.found \in Seq(Rows)
  BY <1>2, ConcatProperties
<1> QED
  BY <1>1, <1>2, <1>3 DEF GroupedNow, MatchedNow

\* The other steps fetch nothing.
LEMMA RestKeeps ==
    ASSUME SamplerInv, NextExpr \/ Select
    PROVE  SamplerInv'
<1> USE DEF SamplerInv
<1>1. CASE NextExpr
  <2>1. s' = [s EXCEPT !.todo = Tail(@), !.matched = MatchedNow,
                       !.results[key[Head(s.todo)]] = @ \o s.found,
                       !.pc = IF Enough \/ Tail(s.todo) = <<>> THEN "select" ELSE "begin"]
    BY <1>1 DEF NextExpr, Do
  <2>2. s.todo # <<>> /\ labelled # {} /\ UNCHANGED <<opts, key, labelled, cand>>
    BY <1>1 DEF NextExpr, Do, SamplerShape
  <2>3. Tail(s.todo) \in Seq(Exprs)
    BY <2>2 DEF SamplerTypeOK
  <2>4. /\ s'.todo = Tail(s.todo) /\ s'.matched = MatchedNow /\ s'.results = GroupedNow
        /\ s'.pc \in {"select", "begin"} /\ s'.random = s.random /\ s'.cursor = s.cursor
        /\ s'.last = s.last /\ s'.fetched = s.fetched /\ s'.handed = s.handed
        /\ s'.batch = s.batch /\ s'.found = s.found
        /\ s'.pc = "begin" => Tail(s.todo) # <<>>
    BY <2>1 DEF SamplerShape, GroupedNow
  <2>5. MatchedNow \subseteq Exprs /\ GroupedNow \in [Strings -> Seq(Rows)]
    BY <2>2, GroupedIs
  <2>6. SamplerTypeOK'
    BY <2>3, <2>4, <2>5 DEF SamplerTypeOK
  <2>7. SamplerShape'
    BY <2>1, <2>2, <2>4 DEF SamplerShape
  <2> QED
    BY <2>2, <2>4, <2>6, <2>7 DEF PageInBudget, HandedOK, BudgetIsKept, Scanning
<1>2. CASE Select
  <2>1. \/ \E pc \in {"ok", "panic"} : Do([s EXCEPT !.pc = pc])
        \/ \E sample : Do([s EXCEPT !.pc = "ok", !.sample = sample])
    BY <1>2 DEF Select
  <2>2. CASE \E pc \in {"ok", "panic"} : Do([s EXCEPT !.pc = pc])
    BY <2>2 DEF Do, SamplerTypeOK, SamplerShape, PageInBudget, HandedOK, BudgetIsKept, Scanning
  <2>3. CASE \E sample : Do([s EXCEPT !.pc = "ok", !.sample = sample])
    BY <2>3 DEF Do, SamplerTypeOK, SamplerShape, PageInBudget, HandedOK, BudgetIsKept, Scanning
  <2> QED
    BY <2>1, <2>2, <2>3
<1> QED
  BY <1>1, <1>2

\* Every step keeps the invariant.
LEMMA SamplerInvStep ==
    ASSUME SamplerInv, [SamplerNext]_samplerVars
    PROVE  SamplerInv'
<1>1. CASE UNCHANGED samplerVars
  BY <1>1 DEF samplerVars, SamplerInv, SamplerTypeOK, SamplerShape, PageInBudget, HandedOK,
              Passed, BudgetIsKept, Scanning
<1> QED
  BY <1>1, StartKeeps, BeginKeeps, FindCandidatesKeeps, RestKeeps DEF SamplerNext

\* The state of Sampler is well typed.
THEOREM SamplerIsTyped == SamplerSpec => []SamplerTypeOK
<1>1. SamplerInv => SamplerTypeOK
  BY DEF SamplerInv
<1>2. SamplerInv /\ [SamplerNext]_samplerVars => SamplerInv'
  BY SamplerInvStep
<1> QED
  BY SamplerInvInit, <1>1, <1>2, PTL DEF SamplerSpec

\* The two scans of an expression count no more candidates than CandidateBudget, and
\* those that they are handed without counting them are behind the random row.
THEOREM ScansKeepBudget == SamplerSpec => []BudgetIsKept
<1>1. SamplerInv => BudgetIsKept
  BY DEF SamplerInv
<1>2. SamplerInv /\ [SamplerNext]_samplerVars => SamplerInv'
  BY SamplerInvStep
<1> QED
  BY SamplerInvInit, <1>1, <1>2, PTL DEF SamplerSpec
-----------------------------------------------------------------------------
(* What the scans find                                                     *)

\* The rows a matcher accepts are candidates, and what has been tried is an expression.
ResultsOK ==
    /\ accepts \in [Exprs -> SUBSET labelled]
    /\ \A e \in Exprs : accepts[e] \subseteq cand[e]
    /\ s.tried \subseteq Exprs

\* Every expression has been tried or waits its turn.
Waits(i) == i > 1 \/ s.pc = "begin"
TodoOK ==
    s.pc \in {"begin", "forward", "wrap", "next"} =>
        \A e \in Exprs : e \in s.tried \/ \E i \in DOMAIN s.todo : Waits(i) /\ s.todo[i] = e

\* There are matches of a string when there are of one of its expressions.
GroupsOK ==
    /\ s.pc = "start" => s.matched = {}
    /\ \A k \in Strings : s.results[k] # <<>> <=> \E e \in s.matched : key[e] = k

\* The scans have found what their matcher accepts of the rows they are through with,
\* and counted the candidates among them, the random row twice.
Forward == {r \in cand[Head(s.todo)] : s.random <= r /\ (s.pc = "forward" => r <= s.cursor)}
Wrapped == {r \in cand[Head(s.todo)] : s.pc = "wrap" /\ r <= s.random /\ r <= s.cursor}
Seen == IF s.pc = "next" THEN cand[Head(s.todo)] ELSE Forward \cup Wrapped
Found == s.found
OnceBut(q, row) == \A i, j \in DOMAIN q : q[i] = q[j] => i = j \/ q[i] = row
Roomy == opts.budget > Cardinality(cand[Head(s.todo)])

ScanOK ==
    s.pc \in {"forward", "wrap", "next"} /\ Roomy =>
        /\ Range(Found) = accepts[Head(s.todo)] \cap Seen
        /\ OnceBut(Found, s.random)
        /\ s.pc # "next" =>
            /\ s.random \in Rows /\ s.batch > 0
            /\ s.fetched = Cardinality(Forward) + Cardinality(Wrapped)
        /\ s.pc = "forward" => s.last = Max(labelled) /\ s.random - 1 <= s.cursor
        /\ s.pc = "wrap" => s.last = s.random

ScanInv == SamplerInv /\ ResultsOK /\ TodoOK /\ GroupsOK /\ ScanOK

\* A sample is only taken with options that were checked.
OptionsChecked == s.pc \notin {"start", "error"} => opts.minEach >= 1

SampleInv == ScanInv /\ StopsLate /\ OptionsChecked /\ SampleIsFair
-----------------------------------------------------------------------------
(* Pages and sequences of rows                                             *)

\* What a page adds to the results.
LEMMA PageAdds ==
    ASSUME NEW q \in Seq(Rows), NEW S \in SUBSET Rows, NEW row,
           OnceBut(q, row), \A x \in Range(q) \cap S : x = row
    PROVE  LET r == q \o InOrder(S) IN
           r \in Seq(Rows) /\ Range(r) = Range(q) \cup S /\ OnceBut(r, row)
<1> DEFINE t == InOrder(S)
           r == q \o t
<1>1. /\ t \in Seq(Rows) /\ Range(t) = S
      /\ \A i, j \in DOMAIN t : t[i] = t[j] => i = j
  BY InOrderHasAll
<1> HIDE DEF t
<1>2. /\ r \in Seq(Rows) /\ Len(r) = Len(q) + Len(t)
      /\ \A i \in 1 .. Len(q) + Len(t) : r[i] = IF i <= Len(q) THEN q[i] ELSE t[i - Len(q)]
  BY <1>1, ConcatProperties
<1>3. /\ Len(q) \in Nat /\ Len(t) \in Nat /\ DOMAIN r = 1 .. Len(q) + Len(t)
      /\ DOMAIN q = 1 .. Len(q) /\ DOMAIN t = 1 .. Len(t)
  BY <1>1, <1>2
<1> HIDE DEF r
<1>4. ASSUME NEW i \in DOMAIN r
      PROVE  \/ i \in DOMAIN q /\ r[i] = q[i]
             \/ i - Len(q) \in DOMAIN t /\ r[i] = t[i - Len(q)]
  <2> i \in 1 .. Len(q) + Len(t)
    BY <1>3
  <2>1. CASE i <= Len(q)
    BY <1>2, <1>3, <2>1
  <2>2. CASE ~(i <= Len(q))
    BY <1>2, <1>3, <2>2
  <2> QED
    BY <2>1, <2>2
<1>5. Range(r) = Range(q) \cup S
  <2>1. \A i \in DOMAIN q : i \in DOMAIN r /\ r[i] = q[i]
    BY <1>2, <1>3
  <2>2. \A i \in DOMAIN t : i + Len(q) \in DOMAIN r /\ r[i + Len(q)] = t[i]
    <3> SUFFICES ASSUME NEW i \in 1 .. Len(t)
                 PROVE  i + Len(q) \in DOMAIN r /\ r[i + Len(q)] = t[i]
      BY <1>3
    <3>1. i + Len(q) \in 1 .. Len(q) + Len(t) /\ ~(i + Len(q) <= Len(q)) /\ i + Len(q) - Len(q) = i
      BY <1>3
    <3> QED
      BY <1>2, <1>3, <3>1
  <2> QED
    BY <1>1, <1>4, <2>1, <2>2 DEF Range
<1>6. ASSUME NEW i \in DOMAIN r, NEW j \in DOMAIN r, r[i] = r[j]
      PROVE  i = j \/ r[i] = row
  <2>1. CASE i \in DOMAIN q /\ r[i] = q[i] /\ j \in DOMAIN q /\ r[j] = q[j]
    BY <1>6, <2>1 DEF OnceBut
  <2>2. CASE /\ i - Len(q) \in DOMAIN t /\ r[i] = t[i - Len(q)]
             /\ j - Len(q) \in DOMAIN t /\ r[j] = t[j - Len(q)]
    <3>1. i - Len(q) = j - Len(q)
      BY <1>1, <1>6, <2>2
    <3> QED
      BY <1>3, <3>1
  <2>3. CASE r[i] \in Range(q) \cap S
    BY <2>3
  <2>4. \A k \in DOMAIN q : q[k] \in Range(q)
    BY DEF Range
  <2>5. \A k \in DOMAIN t : t[k] \in S
    BY <1>1 DEF Range
  <2> QED
    BY <1>4, <1>6, <2>1, <2>2, <2>3, <2>4, <2>5
<1> QED
  BY <1>2, <1>5, <1>6 DEF OnceBut, r, t

\* Two sets with more members together than a set they are part of, and one in common
\* at most, are all of it.
LEMMA TwoPartsAreAll ==
    ASSUME NEW C \in SUBSET Rows, NEW F \in SUBSET C, NEW W \in SUBSET C, NEW x,
           F \cap W \subseteq {x}, Cardinality(F) + Cardinality(W) > Cardinality(C)
    PROVE  F \cup W = C
<1>1. /\ IsFiniteSet(C) /\ IsFiniteSet(F) /\ IsFiniteSet(W) /\ IsFiniteSet({x})
      /\ Cardinality({x}) = 1 /\ Cardinality(F) \in Nat /\ Cardinality(W) \in Nat
      /\ Cardinality(C) \in Nat
  BY RowsAreFinite, FS_Singleton
<1>2. Cardinality(F \cup W) = Cardinality(F) + Cardinality(W) - Cardinality(F \cap W)
  BY <1>1, FS_Union
<1>3. IsFiniteSet(F \cap W) /\ Cardinality(F \cap W) <= 1
  BY <1>1, FS_Subset
<1>4. /\ IsFiniteSet(F \cup W) /\ Cardinality(F \cup W) <= Cardinality(C)
      /\ Cardinality(C) = Cardinality(F \cup W) => C = F \cup W
  <2>1. F \cup W \in SUBSET C
    OBVIOUS
  <2> QED
    BY <1>1, <2>1, FS_Subset
<1> DEFINE both == F \cap W
           all == F \cup W
<1>5. Cardinality(F \cap W) \in Nat /\ Cardinality(F \cup W) \in Nat
  BY <1>3, <1>4, FS_CardinalityType
<1> HIDE DEF both, all
<1>6. Cardinality(all) = Cardinality(C)
  <2>1. /\ Cardinality(all) = Cardinality(F) + Cardinality(W) - Cardinality(both)
        /\ Cardinality(both) <= 1 /\ Cardinality(all) <= Cardinality(C)
        /\ Cardinality(both) \in Nat /\ Cardinality(all) \in Nat
    BY <1>2, <1>3, <1>4, <1>5 DEF both, all
  <2>2. PICK c \in Nat, f \in Nat, w \in Nat, b \in Nat, a \in Nat :
            /\ c = Cardinality(C) /\ f = Cardinality(F) /\ w = Cardinality(W)
            /\ b = Cardinality(both) /\ a = Cardinality(all)
    BY <1>1, <2>1
  <2>3. f + w > c /\ a = f + w - b /\ b <= 1 /\ a <= c
    BY <2>1, <2>2
  <2>4. a = c
    BY <2>3
  <2> QED
    BY <2>2, <2>4
<1> QED
  BY <1>4, <1>6 DEF all
-----------------------------------------------------------------------------
(* The steps                                                               *)

\* One FindCandidates adds to what its expression has found.
LEMMA FetchChanges ==
    ASSUME ScanInv, FindCandidates
    PROVE  /\ s.todo # <<>> /\ s'.todo = s.todo /\ s'.random = s.random /\ s'.tried = s.tried
           /\ s'.results = s.results /\ s'.matched = s.matched /\ s'.found = FoundNow
           /\ s.found \in Seq(Rows)
           /\ SeenNow \cap accepts[Head(s.todo)] \in SUBSET Rows
           /\ s.pc \in {"forward", "wrap"} /\ s'.pc \in {"forward", "wrap", "next"}
<1>1. s.pc \in {"forward", "wrap"} /\ s.todo # <<>> /\ Scanning
  BY DEF FindCandidates, ScanInv, SamplerInv, SamplerShape, Scanning
<1>2. SeenNow \cap accepts[Head(s.todo)] \in SUBSET Rows
  BY <1>1, PageInRows DEF ScanInv, SeenNow
<1>3. s.found \in Seq(Rows)
  BY DEF ScanInv, SamplerInv, SamplerTypeOK
<1>4. /\ s'.todo = s.todo /\ s'.random = s.random /\ s'.tried = s.tried
      /\ s'.results = s.results /\ s'.matched = s.matched /\ s'.found = FoundNow
      /\ s'.pc \in {"forward", "wrap", "next"}
  BY <1>1, FindCandidatesIs DEF FetchState, ScanInv
<1> QED
  BY <1>1, <1>2, <1>3, <1>4

\* A new expression has found nothing.
LEMMA BeginIs ==
    ASSUME SamplerInv, BeginExpr
    PROVE  /\ s.pc = "begin" /\ s'.pc = "forward" /\ s'.todo = s.todo /\ s'.found = <<>>
           /\ s'.results = s.results /\ s'.matched = s.matched
           /\ s'.tried = s.tried \cup {Head(s.todo)}
           /\ UNCHANGED <<opts, key, labelled, cand, accepts>>
<1> USE DEF SamplerInv, SamplerShape
<1>1. PICK r : Do(Scan([s EXCEPT !.random = r, !.fetched = 0, !.handed = 0, !.found = <<>>,
                                 !.tried = @ \cup {Head(s.todo)}],
                       "forward", r - 1, Max(labelled), opts.budget))
  BY DEF BeginExpr
<1>2. UNCHANGED <<opts, key, labelled, cand, accepts>>
  BY <1>1 DEF Do
<1>3. /\ s'.pc = "forward" /\ s'.todo = s.todo /\ s'.found = <<>> /\ s'.results = s.results
      /\ s'.matched = s.matched /\ s'.tried = s.tried \cup {Head(s.todo)}
  BY <1>1 DEF Do, Scan
<1> QED
  BY <1>2, <1>3 DEF BeginExpr

\* The next expression leaves its matches in the group of its string.
LEMMA NextIs ==
    ASSUME SamplerInv, NextExpr
    PROVE  /\ s.pc = "next" /\ s.todo # <<>> /\ s'.pc \in {"begin", "select"}
           /\ s'.pc = "select" => Enough \/ Tail(s.todo) = <<>>
           /\ s'.todo = Tail(s.todo) /\ s'.tried = s.tried
           /\ s'.matched = MatchedNow /\ s'.results = GroupedNow
           /\ UNCHANGED <<opts, key, labelled, cand, accepts>>
  BY DEF NextExpr, Do, SamplerInv, SamplerShape, GroupedNow

\* The other steps leave the results alone.
LEMMA OthersChange ==
    ASSUME SamplerInv, Start \/ Select
    PROVE  /\ s'.results = s.results /\ s'.matched = s.matched /\ s'.tried = s.tried
           /\ UNCHANGED <<opts, key, labelled, cand, accepts>>
<1> USE DEF SamplerInv, SamplerShape
<1>1. CASE Start
  <2>1. \/ Do([s EXCEPT !.pc = "error"]) \/ Do([s EXCEPT !.pc = "ok"])
        \/ \E order : Do([s EXCEPT !.pc = "begin", !.todo = order])
    BY <1>1 DEF Start
  <2> QED
    BY <2>1 DEF Do
<1>2. CASE Select
  <2>1. \/ Do([s EXCEPT !.pc = "ok"]) \/ Do([s EXCEPT !.pc = "panic"])
        \/ \E sample : Do([s EXCEPT !.pc = "ok", !.sample = sample])
    BY <1>2 DEF Select
  <2> QED
    BY <2>1 DEF Do
<1> QED
  BY <1>1, <1>2

\* What has been tried stays among the expressions.
LEMMA ResultsKeep ==
    ASSUME ScanInv, SamplerNext
    PROVE  ResultsOK'
<1>0. SamplerInv /\ s.tried \subseteq Exprs
  BY DEF ScanInv, ResultsOK
<1>1. UNCHANGED <<labelled, cand, accepts>> /\ s'.tried \subseteq Exprs
  <2>1. CASE FindCandidates
    BY <1>0, <2>1, FetchChanges, FindCandidatesIs
  <2>2. CASE Start \/ Select
    BY <1>0, <2>2, OthersChange
  <2>3. CASE BeginExpr
    <3>1. Head(s.todo) \in Exprs
      BY <1>0, <2>3, HeadIsFirst DEF BeginExpr, SamplerInv, SamplerShape
    <3> QED
      BY <1>0, <2>3, <3>1, BeginIs
  <2>4. CASE NextExpr
    BY <1>0, <2>4, NextIs
  <2> QED
    BY <2>1, <2>2, <2>3, <2>4 DEF SamplerNext
<1> QED
  BY <1>1 DEF ScanInv, ResultsOK

\* The groups are those of the expressions that have matches.
LEMMA GroupsKeep ==
    ASSUME ScanInv, SamplerNext
    PROVE  GroupsOK'
<1>0. SamplerInv /\ GroupsOK
  BY DEF ScanInv
<1>1. CASE s'.results = s.results /\ s'.matched = s.matched /\ s'.pc # "start" /\ UNCHANGED key
  BY <1>0, <1>1 DEF GroupsOK
<1>2. CASE NextExpr
  <2> DEFINE e == Head(s.todo)
  <2>1. /\ s'.matched = MatchedNow /\ s'.results = GroupedNow /\ s'.pc # "start"
        /\ UNCHANGED key /\ s.todo # <<>>
    BY <1>0, <1>2, NextIs
  <2>2. /\ e \in Exprs /\ key[e] \in Strings
        /\ GroupedNow[key[e]] = s.results[key[e]] \o s.found
        /\ \A k \in Strings : k # key[e] => GroupedNow[k] = s.results[k]
    BY <1>0, <2>1, GroupedIs
  <2>3. s.found \in Seq(Rows) /\ s.results[key[e]] \in Seq(Rows)
    BY <1>0, <2>2 DEF SamplerInv, SamplerTypeOK
  <2>4. GroupedNow[key[e]] # <<>> <=> s.results[key[e]] # <<>> \/ s.found # <<>>
    <3>1. PICK q \in Seq(Rows), f \in Seq(Rows) : q = s.results[key[e]] /\ f = s.found
      BY <2>3
    <3>2. q \o f # <<>> <=> q # <<>> \/ f # <<>>
      BY <3>1, ConcatProperties
    <3> QED
      BY <2>2, <3>1, <3>2
  <2>5. ASSUME NEW k \in Strings
        PROVE  GroupedNow[k] # <<>> <=> \E x \in MatchedNow : key[x] = k
    <3>1. s.results[k] # <<>> <=> \E x \in s.matched : key[x] = k
      BY <1>0 DEF GroupsOK
    <3>2. (\E x \in MatchedNow : key[x] = k)
            <=> (\E x \in s.matched : key[x] = k) \/ (s.found # <<>> /\ key[e] = k)
      BY DEF MatchedNow
    <3>3. CASE k = key[e]
      BY <2>4, <3>1, <3>2, <3>3
    <3>4. CASE k # key[e]
      BY <2>2, <3>1, <3>2, <3>4
    <3> QED
      BY <3>3, <3>4
  <2> QED
    BY <2>1, <2>5 DEF GroupsOK
<1>3. CASE FindCandidates
  BY <1>0, <1>1, <1>3, FetchChanges, FindCandidatesIs
<1>4. CASE BeginExpr
  BY <1>0, <1>1, <1>4, BeginIs
<1>5. CASE Start \/ Select
  <2>1. s'.pc # "start"
    <3>1. \/ \E pc \in {"error", "ok", "panic"} : Do([s EXCEPT !.pc = pc])
          \/ \E order : Do([s EXCEPT !.pc = "begin", !.todo = order])
          \/ \E sample : Do([s EXCEPT !.pc = "ok", !.sample = sample])
      BY <1>5 DEF Start, Select
    <3> QED
      BY <1>0, <3>1 DEF Do, SamplerInv, SamplerShape
  <2> QED
    BY <1>0, <1>1, <1>5, <2>1, OthersChange
<1> QED
  BY <1>2, <1>3, <1>4, <1>5 DEF SamplerNext

\* What has not been tried waits its turn.
LEMMA TodoKeeps ==
    ASSUME ScanInv, SamplerNext
    PROVE  TodoOK'
<1>0. TodoOK /\ SamplerInv
  BY DEF ScanInv
<1>1. CASE Start
  <2>1. CASE \E pc \in {"error", "ok"} : Do([s EXCEPT !.pc = pc])
    <3>1. s'.pc \in {"error", "ok"}
      BY <1>0, <2>1 DEF Do, SamplerInv, SamplerShape
    <3> QED
      BY <3>1 DEF TodoOK
  <2>2. CASE \E order \in SetToSeqs(Exprs) : Do([s EXCEPT !.pc = "begin", !.todo = order])
    <3>1. PICK order \in SetToSeqs(Exprs) : s'.pc = "begin" /\ s'.todo = order
      BY <1>0, <2>2 DEF Do, SamplerInv, SamplerShape
    <3> QED
      BY <3>1, ShuffleIs DEF TodoOK, Waits
  <2> QED
    BY <1>1, <2>1, <2>2 DEF Start
<1>2. CASE BeginExpr
  <2>1. /\ s.pc = "begin" /\ s.todo # <<>> /\ s'.pc = "forward" /\ s'.todo = s.todo
        /\ s'.tried = s.tried \cup {Head(s.todo)}
    BY <1>0, <1>2, BeginIs DEF BeginExpr, SamplerInv, SamplerShape
  <2>2. ASSUME NEW e \in Exprs
        PROVE  e \in s'.tried \/ \E i \in DOMAIN s'.todo : Waits(i)' /\ s'.todo[i] = e
    <3>1. CASE e \in s.tried
      BY <2>1, <3>1
    <3>2. ASSUME NEW i \in DOMAIN s.todo, s.todo[i] = e
          PROVE  e \in s'.tried \/ \E k \in DOMAIN s'.todo : Waits(k)' /\ s'.todo[k] = e
      <4>1. i = 1 \/ i > 1
        <5>1. PICK n \in Nat : DOMAIN s.todo = 1 .. n
          BY <1>0 DEF SamplerInv, SamplerTypeOK
        <5> QED
          BY <3>2, <5>1
      <4> QED
        BY <1>0, <2>1, <3>2, <4>1, HeadIsFirst DEF Waits
    <3> QED
      BY <1>0, <2>1, <3>1, <3>2 DEF TodoOK
  <2> QED
    BY <2>2 DEF TodoOK, Waits
<1>3. CASE FindCandidates
  <2>1. /\ s'.todo = s.todo /\ s'.tried = s.tried
        /\ s.pc \in {"forward", "wrap"} /\ s'.pc \in {"forward", "wrap", "next"}
    BY <1>3, FetchChanges
  <2>2. \A i : Waits(i)' <=> Waits(i)
    BY <2>1 DEF Waits
  <2> QED
    BY <1>0, <2>1, <2>2 DEF TodoOK
<1>4. CASE NextExpr
  <2>1. /\ s.pc = "next" /\ s.todo # <<>> /\ s'.todo = Tail(s.todo)
        /\ s'.tried = s.tried /\ s'.pc \in {"select", "begin"}
    BY <1>0, <1>4, NextIs
  <2>2. CASE s'.pc = "begin"
    <3>1. ASSUME NEW e \in Exprs
          PROVE  e \in s.tried \/ \E i \in DOMAIN Tail(s.todo) : Tail(s.todo)[i] = e
      BY <1>0, <2>1, HeadIsFirst DEF TodoOK, Waits
    <3> QED
      BY <2>1, <2>2, <3>1 DEF TodoOK, Waits
  <2>3. CASE s'.pc = "select"
    BY <2>3 DEF TodoOK
  <2> QED
    BY <2>1, <2>2, <2>3
<1>5. CASE Select
  <2>1. s'.pc \in {"ok", "panic"}
    <3>1. \/ Do([s EXCEPT !.pc = "ok"]) \/ Do([s EXCEPT !.pc = "panic"])
          \/ \E sample : Do([s EXCEPT !.pc = "ok", !.sample = sample])
      BY <1>5 DEF Select
    <3> QED
      BY <1>0, <3>1 DEF Do, SamplerInv, SamplerShape
  <2> QED
    BY <2>1 DEF TodoOK
<1> QED
  BY <1>1, <1>2, <1>3, <1>4, <1>5 DEF SamplerNext
-----------------------------------------------------------------------------
(* The scans find all                                                      *)

\* Candidates are rows of the label, and are counted.
LEMMA ScanSets ==
    ASSUME ScanInv, s.pc \in {"forward", "wrap", "next"}
    PROVE  /\ Head(s.todo) \in Exprs /\ s.todo # <<>> /\ Candidates \in SUBSET Rows
           /\ Candidates \subseteq labelled /\ accepts[Head(s.todo)] \subseteq Candidates
           /\ Forward \in SUBSET Candidates /\ Wrapped \in SUBSET Candidates
           /\ Seen \in SUBSET Candidates
           /\ \A r \in Candidates : /\ r \in Nat /\ r \in Rows /\ r <= Max(labelled)
                                    /\ ~(r <= Min(labelled) - 1)
           /\ s.random \in Nat /\ s.cursor \in Nat /\ s.batch \in Nat /\ s.fetched \in Nat
           /\ opts.budget \in Nat /\ Max(labelled) \in Nat
<1>1. s.todo # <<>> /\ labelled # {} /\ labelled \in SUBSET Rows /\ MaxRow \in Nat
  BY SamplerAssumption DEF ScanInv, SamplerInv, SamplerShape
<1>2. Head(s.todo) \in Exprs
  BY <1>1, HeadIsFirst DEF ScanInv
<1>3. Candidates \in SUBSET labelled /\ accepts[Head(s.todo)] \subseteq Candidates
  BY <1>2 DEF ScanInv, SamplerInv, SamplerShape, ResultsOK, Candidates
<1>4. Forward \in SUBSET Candidates /\ Wrapped \in SUBSET Candidates
  BY DEF Forward, Wrapped, Candidates
<1>5. Seen \in SUBSET Candidates
  BY <1>4 DEF Seen, Candidates
<1>6. \A r \in Rows : r \in Nat /\ r \in 0 .. MaxRow
  BY <1>1 DEF Rows
<1>7. labelled \in SUBSET Nat /\ labelled \in SUBSET (0 .. MaxRow)
  BY <1>1, <1>6
<1>8. /\ Max(labelled) \in labelled /\ \A r \in labelled : r <= Max(labelled)
      /\ Min(labelled) \in labelled /\ \A r \in labelled : Min(labelled) <= r
  BY <1>1, <1>7, MinOfRows, MaxOfRows
<1>9. ASSUME NEW r \in labelled
      PROVE  ~(r <= Min(labelled) - 1)
  <2>1. PICK m \in Nat : m = Min(labelled)
    BY <1>7, <1>8
  <2>2. r \in Nat /\ m <= r
    BY <1>7, <1>8, <2>1
  <2> QED
    BY <2>1, <2>2
<1>10. /\ s.random \in Nat /\ s.cursor \in Nat /\ s.batch \in Nat /\ s.fetched \in Nat
       /\ opts.budget \in Nat
  BY <1>1, SamplerAssumption DEF ScanInv, SamplerInv, SamplerTypeOK, SamplerShape
<1> QED
  BY <1>1, <1>2, <1>3, <1>4, <1>5, <1>6, <1>7, <1>8, <1>9, <1>10

\* The results of the page are as far as the cursor has come.
LEMMA FoundGrows ==
    ASSUME ScanInv, FindCandidates, Roomy
    PROVE  /\ Range(FoundNow) = accepts[Head(s.todo)] \cap (Seen \cup SeenNow)
           /\ OnceBut(FoundNow, s.random)
<1> DEFINE A == accepts[Head(s.todo)]
<1>1. /\ Found \in Seq(Rows) /\ SeenNow \cap A \in SUBSET Rows
      /\ s.pc \in {"forward", "wrap"}
  BY FetchChanges DEF Found
<1>2. /\ Range(Found) = A \cap Seen /\ OnceBut(Found, s.random)
      /\ s.pc = "wrap" => s.last = s.random
  BY <1>1 DEF ScanInv, ScanOK
<1>3. SeenNow = {r \in Candidates : s.cursor < r /\ r <= CursorNow /\ r <= s.last}
  BY <1>1, ScanGoes DEF ScanInv, Scanning
<1>4. ASSUME NEW x \in Range(Found) \cap (SeenNow \cap A)
      PROVE  x = s.random
  <2>1. x \in Seen /\ x \in Candidates /\ s.cursor < x /\ x <= s.last
    BY <1>2, <1>3
  <2>2. x \in Nat /\ s.random \in Nat /\ s.cursor \in Nat
    BY <1>1, <2>1, ScanSets
  <2>3. s.pc = "wrap" /\ s.random <= x
    BY <1>1, <2>1, <2>2 DEF Seen, Forward, Wrapped
  <2> QED
    BY <1>2, <2>1, <2>2, <2>3
<1>5. FoundNow = Found \o InOrder(SeenNow \cap A)
  BY DEF FoundNow, Found
<1>6. Range(FoundNow) = Range(Found) \cup (SeenNow \cap A) /\ OnceBut(FoundNow, s.random)
  BY <1>1, <1>2, <1>4, <1>5, PageAdds
<1> QED
  BY <1>2, <1>6

\* The forward scan goes on to the end of the label.
LEMMA ForwardKeeps ==
    ASSUME ScanInv, FindCandidates, Roomy, s.pc = "forward"
    PROVE  ScanOK'
<1> DEFINE C == Candidates
           e == Head(s.todo)
           F == {r \in C : s.random <= r /\ r <= CursorNow}
<1>1. /\ s.random \in Rows /\ s.batch > 0 /\ s.last = Max(labelled) /\ s.random - 1 <= s.cursor
      /\ s.fetched = Cardinality(Forward) + Cardinality(Wrapped)
  BY DEF ScanInv, ScanOK
<1>2. /\ C \in SUBSET Rows /\ Forward \in SUBSET C
      /\ \A r \in C : r \in Nat /\ r <= Max(labelled) /\ ~(r <= Min(labelled) - 1)
      /\ s.random \in Nat /\ s.cursor \in Nat /\ s.batch \in Nat /\ opts.budget \in Nat
  BY ScanSets
<1>3. /\ CursorNow >= s.cursor /\ CursorNow \in Nat
      /\ SeenNow = {r \in C : s.cursor < r /\ r <= CursorNow /\ r <= s.last}
      /\ CursorNow = s.cursor => \A r \in C : r <= s.cursor
  BY <1>1, ScanGoes DEF ScanInv, Scanning
<1>4. Forward = {r \in C : s.random <= r /\ r <= s.cursor} /\ Wrapped = {}
  BY DEF Forward, Wrapped, Candidates
<1>5. F = Forward \cup SeenNow /\ Forward \cap SeenNow = {}
  <2>1. SeenNow = {r \in C : s.cursor < r /\ r <= CursorNow}
    BY <1>1, <1>2, <1>3
  <2>2. \A r \in C : s.random <= r /\ r <= CursorNow
                     <=> \/ s.random <= r /\ r <= s.cursor
                         \/ s.cursor < r /\ r <= CursorNow
    BY <1>1, <1>2, <1>3
  <2>3. \A r \in C : ~(r <= s.cursor /\ s.cursor < r)
    BY <1>2
  <2>4. Forward \cap SeenNow = {}
    BY <1>4, <2>1, <2>3
  <2>5. F = Forward \cup SeenNow
    BY <1>4, <2>1, <2>2
  <2> QED
    BY <2>4, <2>5
<1>6. FetchedNow = Cardinality(F) /\ FetchedNow \in Nat /\ LeftNow > 0 /\ LeftNow \in Nat
  <2>1. F \in SUBSET C /\ SeenNow \in SUBSET C
    BY <1>3
  <2>2. /\ IsFiniteSet(C) /\ IsFiniteSet(Forward) /\ IsFiniteSet(SeenNow)
        /\ Cardinality(C) \in Nat /\ Cardinality(Forward) \in Nat
        /\ Cardinality(SeenNow) \in Nat /\ Cardinality(F) \in Nat
        /\ Cardinality(F) <= Cardinality(C)
    BY <1>2, <2>1, RowsAreFinite, FS_Subset
  <2>3. Cardinality(F) = Cardinality(Forward) + Cardinality(SeenNow)
    <3>1. Cardinality(Forward \cup SeenNow) =
            Cardinality(Forward) + Cardinality(SeenNow) - Cardinality(Forward \cap SeenNow)
      BY <2>2, FS_Union
    <3> HIDE DEF F
    <3>2. Cardinality(Forward \cap SeenNow) = 0
      BY <1>5, FS_EmptySet
    <3>3. Cardinality(F) = Cardinality(Forward) + Cardinality(SeenNow) - 0
      BY <1>5, <3>1, <3>2
    <3> QED
      BY <2>2, <3>3
  <2>4. s.fetched = Cardinality(Forward)
    BY <1>1, <1>4, <2>2, FS_EmptySet
  <2>5. opts.budget > Cardinality(C)
    BY DEF Roomy, Candidates
  <2> HIDE DEF F
  <2> QED
    BY <1>2, <2>2, <2>3, <2>4, <2>5 DEF FetchedNow, LeftNow
<1>7. /\ Range(FoundNow) = accepts[e] \cap F /\ OnceBut(FoundNow, s.random)
  BY <1>5, FoundGrows DEF Seen, Wrapped
<1>8. /\ s'.todo = s.todo /\ s'.random = s.random /\ Found' = FoundNow
      /\ UNCHANGED <<opts, key, labelled, cand, accepts>>
  BY FetchChanges, FindCandidatesIs DEF Found, ScanInv
<1>9. Roomy' /\ accepts'[Head(s'.todo)] = accepts[e] /\ cand'[Head(s'.todo)] = C
  BY <1>8 DEF Roomy, Candidates
<1> HIDE DEF F
<1>10. CASE ~Ended
  <2>1. s' = FetchState("forward", CursorNow, s.last, BatchOf(LeftNow))
    BY <1>6, <1>10, FindCandidatesIs DEF ScanInv
  <2>2. BatchOf(LeftNow) > 0
    BY <1>1, <1>2, <1>6 DEF BatchOf
  <2>3. /\ s'.pc = "forward" /\ s'.cursor = CursorNow /\ s'.last = s.last
        /\ s'.batch > 0 /\ s'.fetched = FetchedNow
    BY <2>1, <2>2 DEF FetchState
  <2>4. Forward' = F /\ Wrapped' = {} /\ Seen' = F
    BY <1>8, <1>9, <2>3 DEF Forward, Wrapped, Seen, F
  <2>5. s.random - 1 <= CursorNow
    BY <1>1, <1>2, <1>3
  <2>6. Cardinality(F) + Cardinality({}) = FetchedNow
    BY <1>6, FS_EmptySet
  <2> QED
    BY <1>1, <1>7, <1>8, <1>9, <2>3, <2>4, <2>5, <2>6 DEF ScanOK, OnceBut
<1>11. CASE Ended
  <2>1. s' = FetchState("wrap", Min(labelled) - 1, s.random, Asked(LeftNow))
    BY <1>6, <1>11, FindCandidatesIs DEF ScanInv
  <2>2. CursorNow = s.cursor
    BY <1>6, <1>11 DEF Ended
  <2>3. Asked(LeftNow) > 0
    BY <1>6, SamplerAssumption DEF Asked
  <2>4. /\ s'.pc = "wrap" /\ s'.cursor = Min(labelled) - 1 /\ s'.last = s.random
        /\ s'.batch > 0 /\ s'.fetched = FetchedNow
    BY <2>1, <2>3 DEF FetchState
  <2>5. Forward' = F
    <3>1. Forward' = {r \in C : s.random <= r}
      BY <1>8, <1>9, <2>4 DEF Forward
    <3>2. \A r \in C : r <= CursorNow
      BY <1>3, <2>2
    <3> QED
      BY <3>1, <3>2 DEF F
  <2>6. Wrapped' = {}
    <3>1. Wrapped' = {r \in C : r <= s.random /\ r <= Min(labelled) - 1}
      BY <1>8, <1>9, <2>4 DEF Wrapped
    <3> QED
      BY <1>2, <3>1
  <2>7. Seen' = F
    BY <2>4, <2>5, <2>6 DEF Seen
  <2>8. Cardinality(F) + Cardinality({}) = FetchedNow
    BY <1>6, FS_EmptySet
  <2> QED
    BY <1>1, <1>7, <1>8, <1>9, <2>4, <2>5, <2>6, <2>7, <2>8 DEF ScanOK, OnceBut
<1> QED
  BY <1>10, <1>11

\* The wrap scan goes on to the random row.
LEMMA WrapKeeps ==
    ASSUME ScanInv, FindCandidates, Roomy, s.pc = "wrap"
    PROVE  ScanOK'
<1> DEFINE C == Candidates
           e == Head(s.todo)
           W == {r \in C : r <= s.random /\ r <= CursorNow}
<1>1. /\ s.random \in Rows /\ s.batch > 0 /\ s.last = s.random
      /\ s.fetched = Cardinality(Forward) + Cardinality(Wrapped)
  BY DEF ScanInv, ScanOK
<1>2. /\ C \in SUBSET Rows /\ Forward \in SUBSET C /\ Wrapped \in SUBSET C
      /\ \A r \in C : r \in Nat
      /\ s.random \in Nat /\ s.cursor \in Nat /\ s.batch \in Nat /\ opts.budget \in Nat
      /\ accepts[e] \subseteq C
  BY ScanSets
<1>3. /\ CursorNow >= s.cursor /\ CursorNow \in Nat
      /\ SeenNow = {r \in C : s.cursor < r /\ r <= CursorNow /\ r <= s.last}
      /\ CursorNow = s.cursor => \A r \in C : r <= s.cursor
  BY <1>1, ScanGoes DEF ScanInv, Scanning
<1>4. /\ Forward = {r \in C : s.random <= r}
      /\ Wrapped = {r \in C : r <= s.random /\ r <= s.cursor}
  BY DEF Forward, Wrapped, Candidates
<1>5. W = Wrapped \cup SeenNow /\ Wrapped \cap SeenNow = {}
  <2>1. \A r \in C : r <= s.random /\ r <= CursorNow
                     <=> \/ r <= s.random /\ r <= s.cursor
                         \/ s.cursor < r /\ r <= CursorNow /\ r <= s.random
    BY <1>2, <1>3
  <2>2. \A r \in C : ~(r <= s.cursor /\ s.cursor < r)
    BY <1>2
  <2> QED
    BY <1>1, <1>3, <1>4, <2>1, <2>2
<1>6. FetchedNow = Cardinality(Forward) + Cardinality(W) /\ FetchedNow \in Nat
      /\ LeftNow \in Nat /\ (LeftNow = 0 => FetchedNow > Cardinality(C))
  <2>1. W \in SUBSET C /\ SeenNow \in SUBSET C
    BY <1>3
  <2>2. /\ IsFiniteSet(Wrapped) /\ IsFiniteSet(SeenNow)
        /\ Cardinality(C) \in Nat /\ Cardinality(Forward) \in Nat /\ Cardinality(Wrapped) \in Nat
        /\ Cardinality(SeenNow) \in Nat /\ Cardinality(W) \in Nat
    BY <1>2, <2>1, RowsAreFinite
  <2>3. Cardinality(W) = Cardinality(Wrapped) + Cardinality(SeenNow)
    <3>1. Cardinality(Wrapped \cup SeenNow) =
            Cardinality(Wrapped) + Cardinality(SeenNow) - Cardinality(Wrapped \cap SeenNow)
      BY <2>2, FS_Union
    <3> HIDE DEF W
    <3>2. Cardinality(Wrapped \cap SeenNow) = 0
      BY <1>5, FS_EmptySet
    <3>3. Cardinality(W) = Cardinality(Wrapped) + Cardinality(SeenNow) - 0
      BY <1>5, <3>1, <3>2
    <3> QED
      BY <2>2, <3>3
  <2>4. opts.budget > Cardinality(C)
    BY DEF Roomy, Candidates
  <2>5. LeftNow \in Nat
    BY PageInRows DEF ScanInv, Scanning
  <2> HIDE DEF W
  <2> QED
    BY <1>1, <1>2, <2>2, <2>3, <2>4, <2>5 DEF FetchedNow, LeftNow
<1>7. /\ Range(FoundNow) = accepts[e] \cap (Forward \cup W) /\ OnceBut(FoundNow, s.random)
  BY <1>5, FoundGrows DEF Seen
<1>8. /\ s'.todo = s.todo /\ s'.random = s.random /\ Found' = FoundNow
      /\ UNCHANGED <<opts, key, labelled, cand, accepts>>
  BY FetchChanges, FindCandidatesIs DEF Found, ScanInv
<1>9. Roomy' /\ accepts'[Head(s'.todo)] = accepts[e] /\ cand'[Head(s'.todo)] = C
  BY <1>8 DEF Roomy, Candidates
<1>10. CASE ~Ended
  <2> HIDE DEF W
  <2>1. s' = FetchState("wrap", CursorNow, s.last, BatchOf(LeftNow))
    BY <1>10, FindCandidatesIs DEF ScanInv
  <2>2. BatchOf(LeftNow) > 0
    BY <1>1, <1>2, <1>6, <1>10 DEF BatchOf, Ended
  <2>3. /\ s'.pc = "wrap" /\ s'.cursor = CursorNow /\ s'.last = s.random
        /\ s'.batch > 0 /\ s'.fetched = FetchedNow
    BY <1>1, <2>1, <2>2 DEF FetchState
  <2>4. Forward' = Forward /\ Wrapped' = W
    BY <1>4, <1>8, <1>9, <2>3 DEF Forward, Wrapped, W
  <2>5. Seen' = Forward \cup W
    BY <2>3, <2>4 DEF Seen
  <2> QED
    BY <1>1, <1>6, <1>7, <1>8, <1>9, <2>3, <2>4, <2>5 DEF ScanOK, OnceBut
<1>11. CASE Ended
  <2>1. Forward \cup W = C
    <3>1. CASE CursorNow = s.cursor
      <4>1. \A r \in C : r <= CursorNow /\ (s.random <= r \/ r <= s.random)
        BY <1>2, <1>3, <3>1
      <4> QED
        BY <1>4, <4>1
    <3>2. CASE LeftNow = 0
      <4>1. Forward \cap W \subseteq {s.random}
        BY <1>2, <1>4
      <4>2. W \in SUBSET C /\ Cardinality(Forward) + Cardinality(W) > Cardinality(C)
        BY <1>6, <3>2
      <4> HIDE DEF W
      <4> QED
        BY <1>2, <4>1, <4>2, TwoPartsAreAll
    <3> QED
      BY <1>11, <3>1, <3>2 DEF Ended
  <2> HIDE DEF W
  <2>2. s' = FetchState("next", CursorNow, s.last, s.batch)
    BY <1>11, FindCandidatesIs DEF ScanInv
  <2>3. s'.pc = "next"
    BY <2>2 DEF FetchState
  <2>4. Seen' = C
    BY <1>9, <2>3 DEF Seen
  <2> QED
    BY <1>7, <1>8, <1>9, <2>1, <2>3, <2>4 DEF ScanOK, OnceBut
<1> QED
  BY <1>10, <1>11

\* A scan begins with nothing found and nothing counted.
LEMMA BeginScans ==
    ASSUME ScanInv, BeginExpr, Roomy
    PROVE  ScanOK'
<1> DEFINE e == Head(s.todo)
<1>1. s.pc = "begin" /\ s.todo # <<>> /\ labelled # {} /\ SamplerInv
  BY DEF BeginExpr, ScanInv, SamplerInv, SamplerShape
<1>2. PICK r \in Min(labelled) .. Max(labelled) :
        Do(Scan([s EXCEPT !.random = r, !.fetched = 0, !.handed = 0, !.found = <<>>,
                          !.tried = @ \cup {Head(s.todo)}],
                "forward", r - 1, Max(labelled), opts.budget))
  BY DEF BeginExpr
<1>3. /\ s'.pc = "forward" /\ s'.todo = s.todo /\ s'.random = r /\ s'.cursor = r - 1
      /\ s'.last = Max(labelled) /\ s'.fetched = 0 /\ s'.batch = Asked(opts.budget)
      /\ s'.found = <<>> /\ UNCHANGED <<opts, key, labelled, cand, accepts>>
  BY <1>1, <1>2 DEF Do, Scan, Asked, SamplerInv, SamplerShape
<1>4. r \in Rows /\ r \in Nat
  <2>1. r \in Rows
    BY <1>1, LabelRange
  <2> QED
    BY <2>1, SamplerAssumption DEF Rows
<1>5. e \in Exprs
  BY <1>1, HeadIsFirst
<1>6. cand[e] \in SUBSET Rows /\ \A x \in cand[e] : x \in Nat
  BY <1>1, <1>5, SamplerAssumption DEF SamplerInv, SamplerShape, Rows
<1>7. Asked(opts.budget) > 0
  <2>1. Cardinality(cand[e]) \in Nat /\ opts.budget \in Nat
    BY <1>1, <1>6, RowsAreFinite DEF SamplerInv, SamplerShape
  <2> QED
    BY <2>1, SamplerAssumption DEF Roomy, Asked
<1>8. Found' = <<>>
  BY <1>3 DEF Found
<1>9. Forward' = {} /\ Wrapped' = {} /\ Seen' = {}
  <2>1. Forward' = {x \in cand[e] : r <= x /\ x <= r - 1}
    BY <1>3 DEF Forward
  <2>2. Forward' = {}
    BY <1>4, <1>6, <2>1
  <2>3. Wrapped' = {}
    BY <1>3 DEF Wrapped
  <2> QED
    BY <1>3, <2>2, <2>3 DEF Seen
<1>10. Range(<<>>) = {} /\ OnceBut(<<>>, r)
  BY DEF Range, OnceBut
<1>11. Cardinality({}) + Cardinality({}) = 0
  BY FS_EmptySet
<1>12. r - 1 <= r - 1
  BY <1>4
<1> QED
  BY <1>3, <1>4, <1>7, <1>8, <1>9, <1>10, <1>11, <1>12 DEF ScanOK, OnceBut

\* Every step keeps what the scans have found.
LEMMA ScanKeeps ==
    ASSUME ScanInv, SamplerNext
    PROVE  ScanOK'
<1>1. CASE Start \/ NextExpr \/ Select
  <2>1. s'.pc \notin {"forward", "wrap", "next"}
    <3>1. \/ \E pc \in {"error", "ok", "panic"} : Do([s EXCEPT !.pc = pc])
          \/ \E order : Do([s EXCEPT !.pc = "begin", !.todo = order])
          \/ \E sample : Do([s EXCEPT !.pc = "ok", !.sample = sample])
          \/ NextExpr
      BY <1>1 DEF Start, Select
    <3> QED
      BY <3>1, NextIs DEF Do, ScanInv, SamplerInv, SamplerShape
  <2> QED
    BY <2>1 DEF ScanOK
<1>2. CASE BeginExpr
  <2>1. Roomy' => Roomy
    <3>1. PICK r : Do(Scan([s EXCEPT !.random = r, !.fetched = 0, !.handed = 0, !.found = <<>>,
                                     !.tried = @ \cup {Head(s.todo)}],
                           "forward", r - 1, Max(labelled), opts.budget))
      BY <1>2 DEF BeginExpr
    <3>2. s'.todo = s.todo /\ UNCHANGED <<opts, cand>>
      BY <3>1 DEF Do, Scan, ScanInv, SamplerInv, SamplerShape
    <3> QED
      BY <3>2 DEF Roomy
  <2> QED
    BY <1>2, <2>1, BeginScans DEF ScanOK
<1>3. CASE FindCandidates
  <2>1. Roomy' => Roomy
    <3>1. s'.todo = s.todo /\ UNCHANGED <<opts, cand>>
      BY <1>3, FetchChanges, FindCandidatesIs DEF ScanInv
    <3> QED
      BY <3>1 DEF Roomy
  <2>2. s.pc \in {"forward", "wrap"}
    BY <1>3 DEF FindCandidates
  <2>3. Roomy => ScanOK'
    BY <1>3, <2>2, ForwardKeeps, WrapKeeps
  <2> QED
    BY <2>1, <2>3 DEF ScanOK
<1> QED
  BY <1>1, <1>2, <1>3 DEF SamplerNext

\* The inductive invariant of the scans.
LEMMA ScanInvInit == SamplerInit => ScanInv
<1> SUFFICES ASSUME SamplerInit PROVE ScanInv
  OBVIOUS
<1>1. SamplerInv
  BY SamplerInvInit
<1>2. ResultsOK
  BY DEF SamplerInit, ResultsOK
<1>3. TodoOK
  BY DEF SamplerInit, TodoOK
<1>4. GroupsOK
  BY DEF SamplerInit, GroupsOK
<1> QED
  BY <1>1, <1>2, <1>3, <1>4 DEF SamplerInit, ScanInv, ScanOK

\* Every step keeps it.
LEMMA ScanInvStep ==
    ASSUME ScanInv, [SamplerNext]_samplerVars
    PROVE  ScanInv'
<1>1. SamplerInv'
  BY SamplerInvStep DEF ScanInv
<1>2. CASE UNCHANGED samplerVars
  <2>1. ResultsOK'
    BY <1>2 DEF samplerVars, ScanInv, ResultsOK
  <2>2. TodoOK'
    BY <1>2 DEF samplerVars, ScanInv, TodoOK, Waits
  <2>3. ScanOK'
    BY <1>2 DEF samplerVars, ScanInv, ScanOK, Roomy, Found, Seen, Forward, Wrapped, OnceBut
  <2>4. GroupsOK'
    BY <1>2 DEF samplerVars, ScanInv, GroupsOK
  <2> QED
    BY <1>1, <2>1, <2>2, <2>3, <2>4 DEF ScanInv
<1>3. CASE SamplerNext
  BY <1>1, <1>3, ResultsKeep, TodoKeeps, GroupsKeep, ScanKeeps DEF ScanInv
<1> QED
  BY <1>2, <1>3

\* A budget that is larger than the candidates of an expression loses none of its matches,
\* wherever its scans begin, and only the one in the random row can be found twice.
THEOREM ScansMissNothing == SamplerSpec => []ScansFindAll
<1>1. ScanInv => ScansFindAll
  <2> SUFFICES ASSUME ScanInv, s.pc = "next", Roomy
               PROVE  /\ Range(Found) = accepts[Head(s.todo)] /\ OnceBut(Found, s.random)
    BY DEF ScansFindAll, Roomy, Found, OnceBut
  <2>1. /\ Range(Found) = accepts[Head(s.todo)] \cap Candidates
        /\ OnceBut(Found, s.random)
    BY DEF ScanInv, ScanOK, Seen, Candidates
  <2>2. accepts[Head(s.todo)] \subseteq Candidates
    BY ScanSets
  <2> QED
    BY <2>1, <2>2
<1>2. ScanInv /\ [SamplerNext]_samplerVars => ScanInv'
  BY ScanInvStep
<1> QED
  BY ScanInvInit, <1>1, <1>2, PTL DEF SamplerSpec
-----------------------------------------------------------------------------
(* The sample                                                              *)

\* What a step makes of the place the sampler is at.
LEMMA PlacesAre ==
    ASSUME ScanInv, SamplerNext
    PROVE  /\ UNCHANGED <<opts, key, labelled>>
           /\ \/ s.pc = "start" /\ s'.pc = "error" /\ s'.results = s.results
              \/ /\ s.pc = "start" /\ s'.pc = "ok" /\ labelled = {} /\ s'.results = s.results
                 /\ s'.matched = s.matched /\ opts.minEach >= 1
              \/ s.pc = "start" /\ s'.pc = "begin" /\ opts.minEach >= 1
              \/ s.pc \in {"begin", "forward", "wrap"} /\ s'.pc \in {"forward", "wrap", "next"}
              \/ NextExpr /\ s.pc = "next" /\ s'.pc \in {"begin", "select"}
              \/ Select /\ s.pc = "select" /\ s'.pc \in {"ok", "panic"}
<1>0. SamplerInv
  BY DEF ScanInv
<1>1. CASE Start
  <2>1. /\ s.pc = "start" /\ s'.results = s.results /\ s'.matched = s.matched
        /\ UNCHANGED <<opts, key, labelled>>
    BY <1>0, <1>1, OthersChange DEF Start
  <2>2. CASE Do([s EXCEPT !.pc = "error"])
    BY <1>0, <2>1, <2>2 DEF Do, SamplerInv, SamplerShape
  <2>3. CASE Do([s EXCEPT !.pc = "ok"]) /\ labelled = {} /\ ~(opts.minEach < 1)
    BY <1>0, <2>1, <2>3 DEF Do, SamplerInv, SamplerShape
  <2>4. CASE /\ \E order \in SetToSeqs(Exprs) : Do([s EXCEPT !.pc = "begin", !.todo = order])
             /\ ~(opts.minEach < 1)
    BY <1>0, <2>1, <2>4 DEF Do, SamplerInv, SamplerShape
  <2> QED
    BY <1>1, <2>2, <2>3, <2>4 DEF Start
<1>2. CASE BeginExpr
  BY <1>0, <1>2, BeginIs
<1>3. CASE FindCandidates
  BY <1>0, <1>3, FetchChanges, FindCandidatesIs
<1>4. CASE NextExpr
  BY <1>0, <1>4, NextIs
<1>5. CASE Select
  <2>1. \/ Do([s EXCEPT !.pc = "ok"]) \/ Do([s EXCEPT !.pc = "panic"])
        \/ \E sample : Do([s EXCEPT !.pc = "ok", !.sample = sample])
    BY <1>5 DEF Select
  <2>2. s'.pc \in {"ok", "panic"} /\ UNCHANGED <<opts, key, labelled>>
    BY <1>0, <2>1 DEF Do, SamplerInv, SamplerShape
  <2> QED
    BY <1>5, <2>2 DEF Select
<1> QED
  BY <1>1, <1>2, <1>3, <1>4, <1>5 DEF SamplerNext

\* The sampler gives up when every expression is tried, or when there is enough.
LEMMA StopsKeeps ==
    ASSUME ScanInv, StopsLate, SamplerNext
    PROVE  StopsLate'
<1>1. CASE NextExpr /\ s'.pc \in {"begin", "select"}
  <2>1. /\ s.todo # <<>> /\ s.pc = "next" /\ s'.matched = MatchedNow /\ s'.tried = s.tried
        /\ UNCHANGED <<opts, labelled>>
        /\ s'.pc = "select" => Enough \/ Tail(s.todo) = <<>>
    BY <1>1, NextIs DEF ScanInv
  <2>2. MinExprs' = MinExprs
    BY <2>1 DEF MinExprs
  <2>3. CASE Enough
    BY <2>1, <2>2, <2>3 DEF Enough, StopsLate
  <2>4. CASE Tail(s.todo) = <<>>
    <3>1. \A i \in DOMAIN s.todo : ~Waits(i)
      BY <2>1, <2>4, HeadIsFirst DEF Waits, ScanInv
    <3>2. Exprs \subseteq s.tried
      BY <2>1, <3>1 DEF ScanInv, TodoOK
    <3>3. s'.tried = s.tried
      BY <2>1
    <3>4. s.tried \subseteq Exprs
      BY DEF ScanInv, ResultsOK
    <3> QED
      BY <3>2, <3>3, <3>4 DEF StopsLate
  <2> QED
    BY <1>1, <2>1, <2>3, <2>4 DEF StopsLate
<1>2. CASE Select /\ s.pc = "select" /\ s'.pc \in {"ok", "panic"}
  <2>1. s'.matched = s.matched /\ s'.tried = s.tried /\ UNCHANGED <<opts, labelled>>
    BY <1>2, OthersChange DEF ScanInv
  <2>2. MinExprs' = MinExprs
    BY <2>1 DEF MinExprs
  <2> QED
    BY <1>2, <2>1, <2>2 DEF StopsLate
<1> QED
  BY <1>1, <1>2, PlacesAre DEF StopsLate

\* There are finitely many matches.
Grouped == {key[e] : e \in s.matched}
LEMMA MatchesAreFinite ==
    ASSUME ScanInv
    PROVE  /\ IsFiniteSet(AllMatches) /\ Total \in Nat /\ IsFiniteSet(Grouped)
           /\ Cardinality(Grouped) \in Nat
           /\ \A k \in Strings : Len(s.results[k]) \in Nat /\ DOMAIN s.results[k] = 1 .. Len(s.results[k])
<1>1. \A k \in Strings : s.results[k] \in Seq(Rows)
  BY DEF ScanInv, SamplerInv, SamplerTypeOK
<1>2. \A k \in Strings : Len(s.results[k]) \in Nat /\ DOMAIN s.results[k] = 1 .. Len(s.results[k])
  BY <1>1
<1>3. ASSUME NEW k \in Strings
      PROVE  IsFiniteSet(Matches(k))
  <2>1. IsFiniteSet({k}) /\ IsFiniteSet(DOMAIN s.results[k])
    <3>1. PICK n \in Nat : DOMAIN s.results[k] = 1 .. n
      BY <1>2
    <3>2. IsFiniteSet(1 .. n)
      BY <3>1, FS_Interval
    <3> QED
      BY <3>1, <3>2, FS_Singleton
  <2> QED
    BY <2>1, FS_Product DEF Matches
<1>4. IsFiniteSet(AllMatches)
  <2> DEFINE f == [k \in Strings |-> Matches(k)]
             T == {Matches(k) : k \in Strings}
  <2>1. f \in Surjection(Strings, T)
    BY DEF Surjection
  <2> HIDE DEF f
  <2>2. IsFiniteSet(T)
    BY <2>1, SamplerAssumption, FS_Surjection
  <2>3. \A t \in T : IsFiniteSet(t)
    BY <1>3
  <2> HIDE DEF T
  <2>4. IsFiniteSet(UNION T)
    BY <2>2, <2>3, FS_UNION
  <2> QED
    BY <2>4 DEF T, AllMatches
<1>5. IsFiniteSet(Grouped)
  <2>1. Grouped \in SUBSET Strings
    BY DEF Grouped, ScanInv, SamplerInv, SamplerShape, SamplerTypeOK
  <2> QED
    BY <2>1, SamplerAssumption, FS_Subset
<1> QED
  BY <1>2, <1>4, <1>5, FS_CardinalityType DEF Total

\* So many matches of each string are so many times the strings of the expressions that
\* have matches, at most.
LEMMA ReservedAreFew ==
    ASSUME ScanInv, NEW reserved \in SUBSET AllMatches, NEW n \in Nat,
           \A k \in Strings : Cardinality(reserved \cap Matches(k)) <= n
    PROVE  Cardinality(reserved) <= Cardinality(Grouped) * n
<1> DEFINE of(k) == reserved \cap Matches(k)
           T == Grouped \X (1 .. n)
           g == [k \in Strings |-> CHOOSE f : f \in Injection(of(k), 1 .. n)]
           h == [m \in reserved |-> <<m[1], g[m[1]][m]>>]
<1>1. IsFiniteSet(reserved) /\ IsFiniteSet(Grouped)
  BY MatchesAreFinite, FS_Subset
<1>2. ASSUME NEW k \in Strings
      PROVE  g[k] \in Injection(of(k), 1 .. n)
  <2> DEFINE c == Cardinality(of(k))
  <2>1. of(k) \in SUBSET reserved
    OBVIOUS
  <2>2. IsFiniteSet(of(k)) /\ c \in Nat /\ c <= n
    BY <1>1, <2>1, FS_Subset, FS_CardinalityType
  <2> HIDE DEF of
  <2>3. IsFiniteSet(1 .. c) /\ Cardinality(1 .. c) = c
    BY <2>2, FS_Interval
  <2>4. ExistsBijection(of(k), 1 .. c)
    BY <2>2, <2>3, FS_SameCardinalityBij
  <2>5. PICK f : f \in Bijection(of(k), 1 .. c)
    BY <2>4 DEF ExistsBijection
  <2>6. 1 .. c \subseteq 1 .. n
    BY <2>2
  <2> HIDE DEF c
  <2>7. f \in [of(k) -> 1 .. c] /\ IsInjective(f)
    BY <2>5 DEF Bijection, Injection
  <2>8. f \in [of(k) -> 1 .. n]
    BY <2>6, <2>7
  <2>9. f \in Injection(of(k), 1 .. n)
    BY <2>7, <2>8 DEF Injection
  <2> QED
    BY <2>9
<1> HIDE DEF g
<1>3. ASSUME NEW m \in reserved
      PROVE  m[1] \in Grouped /\ m[1] \in Strings /\ m \in of(m[1])
  <2>1. PICK k \in Strings : m \in Matches(k)
    BY DEF AllMatches
  <2>2. m[1] = k /\ DOMAIN s.results[k] # {}
    BY <2>1 DEF Matches
  <2>3. s.results[k] # <<>>
    BY <2>2
  <2>4. k \in Grouped
    BY <2>3 DEF Grouped, ScanInv, GroupsOK
  <2> QED
    BY <2>1, <2>2, <2>4
<1> HIDE DEF of
<1>4. \A m \in reserved : g[m[1]][m] \in 1 .. n
  BY <1>2, <1>3 DEF Injection
<1>5. h \in [reserved -> T]
  BY <1>3, <1>4
<1>6. ASSUME NEW m \in reserved, NEW q \in reserved, h[m] = h[q]
      PROVE  m = q
  <2>1. m[1] = q[1] /\ g[m[1]][m] = g[m[1]][q]
    BY <1>6
  <2>2. m \in of(m[1]) /\ q \in of(m[1]) /\ m[1] \in Strings
    BY <1>3, <2>1
  <2> QED
    BY <1>2, <2>1, <2>2 DEF Injection, IsInjective
<1> HIDE DEF h
<1>7. h \in Injection(reserved, T)
  BY <1>5, <1>6 DEF Injection, IsInjective
<1>8. IsFiniteSet(1 .. n) /\ Cardinality(1 .. n) = n
  BY FS_Interval
<1>9. IsFiniteSet(T) /\ Cardinality(T) = Cardinality(Grouped) * n
  BY <1>1, <1>8, FS_Product
<1> HIDE DEF T
<1> QED
  BY <1>7, <1>9, FS_Injection

\* The sample has its reserved matches and its size.
LEMMA SelectKeeps ==
    ASSUME ScanInv, OptionsChecked, Select
    PROVE  SampleIsFair'
<1>1. /\ s.pc = "select" /\ opts.minEach \in Nat /\ opts.minEach >= 1 /\ opts.size \in Nat
  <2>1. s.pc = "select" /\ opts.minEach >= 1
    BY DEF Select, OptionsChecked
  <2>2. opts.minEach \in Int /\ opts.size \in Nat
    BY DEF ScanInv, SamplerInv, SamplerShape
  <2> QED
    BY <2>1, <2>2
<1>2. s'.results = s.results /\ s'.matched = s.matched /\ UNCHANGED <<opts, key>>
  BY OthersChange DEF ScanInv
<1>3. /\ \A k \in Strings : Matches(k)' = Matches(k) /\ Take(k)' = Take(k)
      /\ AllMatches' = AllMatches /\ Total' = Total /\ Grouped' = Grouped
  BY <1>2 DEF Matches, AllMatches, Total, Grouped, Take
<1>4. CASE AllMatches = {}
  <2>1. s'.pc = "ok"
    BY <1>4 DEF Select, Do, ScanInv, SamplerInv, SamplerShape
  <2> QED
    BY <1>3, <1>4, <2>1 DEF SampleIsFair
<1>5. CASE AllMatches # {}
  <2> DEFINE pool(reserved) == AllMatches \ reserved
             needed(reserved) == Least(Least(opts.size, Total) - Cardinality(reserved),
                                       Cardinality(pool(reserved)))
  <2>1. PICK reserved \in SUBSET AllMatches :
            /\ \A k \in Strings : Cardinality(reserved \cap Matches(k)) = Take(k)
            /\ IF needed(reserved) < 0 THEN Do([s EXCEPT !.pc = "panic"])
               ELSE \E picks \in kSubset(needed(reserved), pool(reserved)) :
                      Do([s EXCEPT !.pc = "ok", !.sample = reserved \cup picks])
    BY <1>5 DEF Select, Pool
  <2>2. /\ IsFiniteSet(reserved) /\ Cardinality(reserved) \in Nat /\ Total \in Nat
        /\ Cardinality(reserved) <= Total /\ Cardinality(pool(reserved)) \in Nat
        /\ IsFiniteSet(pool(reserved))
        /\ Cardinality(pool(reserved)) = Total - Cardinality(reserved)
    <3>1. IsFiniteSet(AllMatches) /\ Total \in Nat
      BY MatchesAreFinite
    <3>2. IsFiniteSet(reserved) /\ Cardinality(reserved) <= Total /\ Cardinality(reserved) \in Nat
      BY <3>1, FS_Subset, FS_CardinalityType DEF Total
    <3>3. AllMatches \cap reserved = reserved
      OBVIOUS
    <3>4. /\ IsFiniteSet(AllMatches \ reserved)
          /\ Cardinality(AllMatches \ reserved)
                = Cardinality(AllMatches) - Cardinality(AllMatches \cap reserved)
      BY <3>1, FS_Difference
    <3> QED
      BY <3>1, <3>2, <3>3, <3>4, FS_CardinalityType DEF Total
  <2> HIDE DEF pool
  <2>3. Least(opts.size, Total) \in Nat /\ Least(opts.size, Total) <= Total
        /\ (Least(opts.size, Total) = opts.size \/ Least(opts.size, Total) = Total)
    BY <1>1, <2>2 DEF Least
  <2>4. needed(reserved) = Least(opts.size, Total) - Cardinality(reserved)
    <3>1. PICK n \in Nat, t \in Nat, l \in Nat :
              /\ n = Cardinality(reserved) /\ t = Total /\ l = Least(opts.size, Total)
              /\ l <= t
      BY <2>2, <2>3
    <3>2. Least(l - n, t - n) = l - n
      BY <3>1 DEF Least
    <3> QED
      BY <2>2, <3>1, <3>2
  <2> HIDE DEF needed
  <2>5. CASE needed(reserved) < 0
    <3>1. s'.pc = "panic"
      BY <2>1, <2>5 DEF Do, ScanInv, SamplerInv, SamplerShape
    <3>2. opts.size < Cardinality(reserved)
      BY <1>1, <2>2, <2>3, <2>4, <2>5
    <3>3. \A k \in Strings : Take(k) <= opts.minEach
      BY <1>1, MatchesAreFinite DEF Take
    <3>4. Cardinality(reserved) <= Cardinality(Grouped) * opts.minEach
      BY <1>1, <2>1, <3>3, ReservedAreFew
    <3>5. PICK m \in Nat, k \in Nat, z \in Nat, n \in Nat :
              /\ m = Cardinality(Grouped) /\ k = opts.minEach /\ z = opts.size
              /\ n = Cardinality(reserved)
      BY <1>1, <2>2, MatchesAreFinite
    <3>6. z < n /\ n <= m * k
      BY <3>2, <3>4, <3>5
    <3>7. m * k = k * m /\ k * m \in Nat
      BY <3>5
    <3>8. k * m > z
      BY <3>6, <3>7
    <3> QED
      BY <1>2, <1>3, <3>1, <3>5, <3>8 DEF SampleIsFair, Grouped
  <2>6. CASE ~(needed(reserved) < 0)
    <3>1. PICK picks \in kSubset(needed(reserved), pool(reserved)) :
              Do([s EXCEPT !.pc = "ok", !.sample = reserved \cup picks])
      BY <2>1, <2>6
    <3>2. s'.pc = "ok" /\ s'.sample = reserved \cup picks
      BY <3>1 DEF Do, ScanInv, SamplerInv, SamplerShape
    <3>3. picks \in SUBSET pool(reserved) /\ Cardinality(picks) = needed(reserved)
      BY <3>1 DEF kSubset
    <3>4. IsFiniteSet(picks) /\ reserved \cap picks = {}
      BY <2>2, <3>3, FS_Subset DEF pool
    <3>5. Cardinality(reserved \cup picks) = Cardinality(reserved) + Cardinality(picks) - 0
      BY <2>2, <3>4, FS_Union, FS_EmptySet
    <3>6. Cardinality(s'.sample) = Least(opts.size, Total)
      BY <2>2, <2>3, <2>4, <3>2, <3>3, <3>5
    <3>7. ASSUME NEW k \in Strings
          PROVE  /\ Cardinality(s'.sample \cap Matches(k)) >= Take(k)
                 /\ s.results[k] # <<>> => s'.sample \cap Matches(k) # {}
      <4>1. IsFiniteSet(s'.sample)
        BY <2>2, <3>2, <3>4, FS_Union
      <4>2. /\ IsFiniteSet(s'.sample \cap Matches(k))
            /\ reserved \cap Matches(k) \in SUBSET (s'.sample \cap Matches(k))
        BY <3>2, <4>1, FS_Intersection
      <4>3. /\ Cardinality(reserved \cap Matches(k)) <= Cardinality(s'.sample \cap Matches(k))
            /\ IsFiniteSet(reserved \cap Matches(k))
        BY <4>2, FS_Subset
      <4>4. /\ Cardinality(reserved \cap Matches(k)) \in Nat
            /\ Cardinality(s'.sample \cap Matches(k)) \in Nat
        BY <4>2, <4>3, FS_CardinalityType
      <4>5. Cardinality(s'.sample \cap Matches(k)) >= Take(k)
        BY <2>1, <4>3, <4>4
      <4>6. s.results[k] # <<>> => Take(k) > 0
        <5>1. PICK q \in Seq(Rows) : q = s.results[k]
          BY DEF ScanInv, SamplerInv, SamplerTypeOK
        <5>2. q # <<>> => Len(q) > 0 /\ Len(q) \in Nat
          BY <5>1
        <5> QED
          BY <1>1, <5>1, <5>2 DEF Take
      <4>7. s'.sample \cap Matches(k) = {} => Cardinality(s'.sample \cap Matches(k)) = 0
        BY FS_EmptySet
      <4>8. Take(k) \in Int
        <5>1. Take(k) = Cardinality(reserved \cap Matches(k))
          BY <2>1, Zenon
        <5> QED
          BY <4>4, <5>1
      <4> QED
        BY <4>4, <4>5, <4>6, <4>7, <4>8
    <3>8. \A k \in Strings : Cardinality((s.sample \cap Matches(k))') >= Take(k)'
      BY <1>3, <3>7
    <3>9. ASSUME NEW e \in s.matched
          PROVE  s'.sample \cap Matches(key[e]) # {}
      <4>1. key[e] \in Strings
        BY DEF ScanInv, SamplerInv, SamplerShape, SamplerTypeOK
      <4>2. s.results[key[e]] # <<>>
        BY <4>1 DEF ScanInv, GroupsOK
      <4> QED
        BY <3>7, <4>1, <4>2
    <3>10. \A e \in s'.matched : (s.sample \cap Matches(key[e]))' # {}
      <4>1. \A e \in s.matched : key[e] \in Strings
        BY DEF ScanInv, SamplerInv, SamplerShape, SamplerTypeOK
      <4> QED
        BY <1>2, <1>3, <3>9, <4>1
    <3> QED
      BY <1>2, <1>3, <3>2, <3>6, <3>8, <3>10 DEF SampleIsFair
  <2> QED
    BY <2>5, <2>6
<1> QED
  BY <1>4, <1>5

\* Every step keeps the sample fair.
LEMMA SampleInvStep ==
    ASSUME SampleInv, [SamplerNext]_samplerVars
    PROVE  SampleInv'
<1>1. ScanInv'
  BY ScanInvStep DEF SampleInv
<1>2. CASE UNCHANGED samplerVars
  <2>1. /\ \A k \in Strings : Matches(k)' = Matches(k) /\ Take(k)' = Take(k)
        /\ AllMatches' = AllMatches /\ Total' = Total /\ Grouped' = Grouped
        /\ MinExprs' = MinExprs
    BY <1>2 DEF samplerVars, Matches, AllMatches, Total, Grouped, Take, MinExprs
  <2>2. StopsLate' /\ OptionsChecked'
    BY <1>2, <2>1 DEF samplerVars, SampleInv, StopsLate, OptionsChecked
  <2>3. SampleIsFair'
    <3>1. SampleIsFair
      BY DEF SampleInv
    <3> QED
      BY <1>2, <3>1 DEF samplerVars, SampleIsFair, Matches, AllMatches, Total, Take, Least
  <2> QED
    BY <1>1, <2>2, <2>3 DEF SampleInv
<1>3. CASE SamplerNext
  <2>1. StopsLate'
    BY <1>3, StopsKeeps DEF SampleInv
  <2>2. OptionsChecked'
    BY <1>3, PlacesAre DEF SampleInv, OptionsChecked
  <2>3. SampleIsFair'
    <3>1. CASE Select
      BY <3>1, SelectKeeps DEF SampleInv
    <3>2. CASE s.pc = "start" /\ s'.pc = "ok" /\ s'.results = s.results
      <4>1. \A k \in Strings : s'.results[k] = <<>>
        BY <3>2 DEF SampleInv, ScanInv, GroupsOK
      <4>2. \A k \in Strings : Matches(k)' = {}
        BY <4>1 DEF Matches
      <4>3. AllMatches' = {}
        BY <4>2 DEF AllMatches
      <4> QED
        BY <3>2, <4>3 DEF SampleIsFair
    <3>3. CASE s'.pc \notin {"ok", "panic"}
      BY <3>3 DEF SampleIsFair
    <3> QED
      BY <1>3, <3>1, <3>2, <3>3, PlacesAre DEF SampleInv
  <2> QED
    BY <1>1, <2>1, <2>2, <2>3 DEF SampleInv
<1> QED
  BY <1>2, <1>3

\* At first there is no sample.
LEMMA SampleInvInit == SamplerInit => SampleInv
  BY ScanInvInit DEF SamplerInit, SampleInv, StopsLate, OptionsChecked, SampleIsFair

\* The sampler gives up on expressions only when as many have matches as were asked for.
THEOREM SamplerStopsLate == SamplerSpec => []StopsLate
<1>1. SampleInv => StopsLate
  BY DEF SampleInv
<1>2. SampleInv /\ [SamplerNext]_samplerVars => SampleInv'
  BY SampleInvStep
<1> QED
  BY SampleInvInit, <1>1, <1>2, PTL DEF SamplerSpec

\* A sample has the size that was asked for, or all there is, with the matches reserved
\* for every string: an expression with matches, or another written the same, is in it.
\* Sample panics only when the reserved matches do not fit in.
THEOREM SamplesAreFair == SamplerSpec => []SampleIsFair
<1>1. SampleInv => SampleIsFair
  BY DEF SampleInv
<1>2. SampleInv /\ [SamplerNext]_samplerVars => SampleInv'
  BY SampleInvStep
<1> QED
  BY SampleInvInit, <1>1, <1>2, PTL DEF SamplerSpec
==============================================================================
