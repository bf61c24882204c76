---------------------------- MODULE SequenceLemmas ----------------------------
(***************************************************************************)
(* Lemmas about sequences that are put together from pieces, for the       *)
(* proofs about texts, labels and what is printed: FlattenSeq of one piece *)
(* more, and of two sequences of pieces one after the other.               *)
(***************************************************************************)
EXTENDS Integers, SequencesExt, SequenceTheorems, WellFoundedInduction, TLAPS

\* Induction up to n, for a set.
LEMMA UpTo ==
    ASSUME NEW n \in Nat, NEW S, 0 \in S, \A i \in 0 .. n : i # n /\ i \in S => i + 1 \in S
    PROVE  0 .. n \subseteq S
<1> DEFINE T == {i \in 0 .. n : i \notin S}
<1> SUFFICES ASSUME T # {} PROVE FALSE
  OBVIOUS
<1>1. T \in SUBSET Nat
  OBVIOUS
<1> HIDE DEF T
<1>2. PICK m \in T : \A x \in T : ~(<<x, m>> \in OpToRel(<, Nat))
  BY <1>1, NatLessThanWellFounded, WFMin
<1>3. m \in 0 .. n /\ m \notin S /\ m # 0
  BY DEF T
<1>4. m - 1 \in 0 .. n /\ m - 1 # n /\ m - 1 + 1 = m /\ m - 1 < m /\ m - 1 \in Nat /\ m \in Nat
  BY <1>3
<1>5. m - 1 \notin T
  BY <1>2, <1>4 DEF OpToRel
<1> QED
  BY <1>3, <1>4, <1>5 DEF T

LEMMA FunctionIsSeq ==
    ASSUME NEW S, NEW n \in Nat, NEW f \in [1 .. n -> S]
    PROVE  f \in Seq(S) /\ Len(f) = n
<1>1. f \in UNION {[1 .. m -> S] : m \in Nat}
  OBVIOUS
<1>2. f \in Seq(S)
  BY <1>1, SeqDef
<1>3. Len(f) \in Nat /\ DOMAIN f = 1 .. Len(f)
  BY <1>2, LenProperties
<1>4. 1 .. Len(f) = 1 .. n
  BY <1>3
<1>5. Len(f) = n
  BY <1>3, <1>4
<1> QED
  BY <1>2, <1>5

-----------------------------------------------------------------------------
(* The first and the last of some places                                   *)

LEMMA LeastOf ==
    ASSUME NEW n \in Nat, NEW S \in SUBSET (1 .. n), S # {}
    PROVE  Min(S) \in S /\ \A i \in S : Min(S) <= i
<1>0. S \in SUBSET Nat
  OBVIOUS
<1>1. PICK m \in S : \A i \in S : ~(<<i, m>> \in OpToRel(<, Nat))
  BY <1>0, NatLessThanWellFounded, WFMin
<1>2. ASSUME NEW i \in S
      PROVE  m <= i
  <2>1. i \in Nat /\ m \in Nat
    BY <1>0
  <2>2. ~(i < m)
    BY <1>1, <2>1 DEF OpToRel
  <2> QED
    BY <2>1, <2>2
<1>3. \E x \in S : \A y \in S : x <= y
  BY <1>2
<1> QED
  BY <1>3 DEF Min

\* The last of the places up to n in T.
LEMMA LastUpTo ==
    ASSUME NEW n \in Nat, NEW T \in SUBSET (0 .. n), T # {}
    PROVE  \E m \in T : \A i \in T : i <= m
<1> DEFINE S == {n - i : i \in T}
<1>1. S \in SUBSET Nat /\ S # {}
  <2>1. \A i \in T : n - i \in Nat
    OBVIOUS
  <2> QED
    BY <2>1
<1> HIDE DEF S
<1>2. PICK t \in S : \A d \in S : ~(<<d, t>> \in OpToRel(<, Nat))
  BY <1>1, NatLessThanWellFounded, WFMin
<1>3. PICK m \in T : t = n - m
  BY DEF S
<1>4. ASSUME NEW i \in T
      PROVE  i <= m
  <2>1. n - i \in S
    BY DEF S
  <2>2. ~(n - i < n - m)
    <3>1. n - i \in Nat /\ n - m \in Nat
      BY <1>1, <1>3, <2>1
    <3> QED
      BY <1>2, <1>3, <2>1, <3>1 DEF OpToRel
  <2> QED
    BY <2>2
<1> QED
  BY <1>4

LEMMA LastOf ==
    ASSUME NEW n \in Nat, NEW S \in SUBSET (1 .. n), S # {}
    PROVE  Max(S) \in S /\ \A i \in S : i <= Max(S)
<1>1. S \in SUBSET (0 .. n)
  OBVIOUS
<1>2. \E x \in S : \A y \in S : x >= y
  BY <1>1, LastUpTo
<1>3. Max(S) \in S /\ \A i \in S : Max(S) >= i
  BY <1>2 DEF Max
<1> QED
  BY <1>3

-----------------------------------------------------------------------------
(* Flattening                                                              *)

\* What FlattenSeq recurses with, up to n.
FlatUpTo(s, n, f) ==
    f = [i \in 1 .. n |-> IF i = 1 THEN s[i] ELSE f[i - 1] \o s[i]]

LEMMA FlatGoesOn ==
    ASSUME NEW s, NEW k \in Nat, NEW f, FlatUpTo(s, k, f)
    PROVE  \E g : FlatUpTo(s, k + 1, g)
<1> DEFINE g == [i \in 1 .. k + 1 |-> IF i # k + 1 THEN f[i]
                                      ELSE IF k = 0 THEN s[1] ELSE f[k] \o s[k + 1]]
<1>1. ASSUME NEW i \in 1 .. k + 1
      PROVE  g[i] = IF i = 1 THEN s[i] ELSE g[i - 1] \o s[i]
  <2>1. CASE i = k + 1
    <3>1. k # 0 => g[k] = f[k] /\ i - 1 = k /\ i # 1
      BY <2>1
    <3>2. k = 0 => i = 1
      BY <2>1
    <3>3. g[i] = IF k = 0 THEN s[1] ELSE f[k] \o s[k + 1]
      BY <2>1
    <3> QED
      BY <2>1, <3>1, <3>2, <3>3
  <2>2. CASE i # k + 1
    <3>1. i \in 1 .. k /\ g[i] = f[i]
      BY <2>2
    <3>2. i # 1 => i - 1 \in 1 .. k + 1 /\ i - 1 # k + 1
      BY <3>1
    <3>3. i # 1 => g[i - 1] = f[i - 1]
      BY <3>2
    <3> HIDE DEF g
    <3> QED
      BY <3>1, <3>3 DEF FlatUpTo
  <2> QED
    BY <2>1, <2>2
<1>2. g = [i \in 1 .. k + 1 |-> g[i]]
  OBVIOUS
<1> HIDE DEF g
<1>3. FlatUpTo(s, k + 1, g)
  BY <1>1, <1>2 DEF FlatUpTo
<1> QED
  BY <1>3

LEMMA FlatGoes ==
    ASSUME NEW s, NEW n \in Nat
    PROVE  \E f : FlatUpTo(s, n, f)
<1> DEFINE S == {k \in 0 .. n : \E f : FlatUpTo(s, k, f)}
<1>1. 0 \in S
  <2>1. FlatUpTo(s, 0, [i \in 1 .. 0 |-> i])
    BY DEF FlatUpTo
  <2> QED
    BY <2>1
<1>2. \A i \in 0 .. n : i # n /\ i \in S => i + 1 \in S
  BY FlatGoesOn
<1> HIDE DEF S
<1>3. n \in S
  BY <1>1, <1>2, UpTo
<1> QED
  BY <1>3 DEF S

\* f has what the first pieces make, up to the last: FlattenSeq.
IsFlattened(S, s, f) ==
    /\ f \in [0 .. Len(s) -> Seq(S)]
    /\ f[0] = <<>> /\ FlattenSeq(s) = f[Len(s)]
    /\ \A i \in 0 .. Len(s) : i # Len(s) => f[i + 1] = f[i] \o s[i + 1]

\* FlattenSeq puts one piece after the other.
LEMMA FlattenIs ==
    ASSUME NEW S, NEW s \in Seq(Seq(S))
    PROVE  \E f : IsFlattened(S, s, f)
<1> DEFINE n == Len(s)
<1>1. n \in Nat /\ \A i \in 1 .. n : s[i] \in Seq(S)
  BY LenProperties, ElementOfSeq
<1>2. CASE n = 0
  <2>1. s = <<>>
    BY <1>2, EmptySeq
  <2>2. FlattenSeq(s) = <<>>
    BY <1>2, <2>1 DEF FlattenSeq
  <2> DEFINE f == [i \in 0 .. n |-> <<>>]
  <2>3. f \in [0 .. n -> Seq(S)] /\ f[0] = <<>> /\ f[n] = <<>>
    BY <1>2, EmptySeq
  <2>4. \A i \in 0 .. n : i = n
    BY <1>2
  <2> HIDE DEF f
  <2>5. IsFlattened(S, s, f)
    BY <2>2, <2>3, <2>4 DEF IsFlattened
  <2> QED
    BY <2>5
<1>3. CASE n # 0
  <2>1. \E f : FlatUpTo(s, n, f)
    BY <1>1, FlatGoes
  <2> DEFINE g == CHOOSE f : FlatUpTo(s, n, f)
  <2>2. FlatUpTo(s, n, g)
    BY <2>1
  <2>3. FlattenSeq(s) = g[n]
    BY <1>3 DEF FlattenSeq, FlatUpTo
  <2> HIDE DEF g
  <2> DEFINE f == [i \in 0 .. n |-> IF i = 0 THEN <<>> ELSE g[i]]
  <2>4. ASSUME NEW i \in 0 .. n, i # n
        PROVE  f[i + 1] = f[i] \o s[i + 1] \/ (i = 0 /\ f[i + 1] = s[i + 1])
    <3>1. i + 1 \in 1 .. n /\ f[i + 1] = g[i + 1]
      BY <1>1, <2>4
    <3>2. g[i + 1] = IF i + 1 = 1 THEN s[i + 1] ELSE g[i + 1 - 1] \o s[i + 1]
      <4>1. \A j \in 1 .. n : g[j] = IF j = 1 THEN s[j] ELSE g[j - 1] \o s[j]
        BY <2>2 DEF FlatUpTo
      <4> QED
        BY <3>1, <4>1
    <3>3. i + 1 - 1 = i /\ (i + 1 = 1 <=> i = 0)
      OBVIOUS
    <3>4. i # 0 => f[i] = g[i]
      OBVIOUS
    <3> HIDE DEF f
    <3> QED
      BY <3>1, <3>2, <3>3, <3>4
  <2>5. f[0] = <<>> /\ f[n] = g[n] /\ f = [i \in 0 .. n |-> f[i]]
    BY <1>1, <1>3
  <2> HIDE DEF f
  <2> DEFINE T == {i \in 0 .. n : f[i] \in Seq(S)}
  <2>6. 0 \in T
    <3>1. <<>> \in Seq(S)
      BY EmptySeq
    <3>2. 0 \in 0 .. n /\ f[0] = <<>>
      BY <1>1, <2>5
    <3> QED
      BY <3>1, <3>2
  <2>7. ASSUME NEW i \in 0 .. n, i # n, i \in T
        PROVE  i + 1 \in T
    <3>1. s[i + 1] \in Seq(S) /\ f[i] \in Seq(S) /\ i + 1 \in 0 .. n
      BY <1>1, <2>7
    <3>2. f[i] \o s[i + 1] \in Seq(S)
      BY <3>1, ConcatProperties
    <3> QED
      BY <2>4, <2>7, <3>1, <3>2
  <2> HIDE DEF T
  <2>8. 0 .. n \subseteq T
    BY <1>1, <2>6, <2>7, UpTo
  <2>9. f \in [0 .. n -> Seq(S)]
    BY <2>5, <2>8 DEF T
  <2>10. ASSUME NEW i \in 0 .. n, i # n
         PROVE  f[i + 1] = f[i] \o s[i + 1]
    <3>1. s[i + 1] \in Seq(S)
      BY <1>1, <2>10
    <3>2. <<>> \o s[i + 1] = s[i + 1]
      BY <3>1, ConcatEmptySeq
    <3> QED
      BY <2>4, <2>5, <2>10, <3>2
  <2>11. IsFlattened(S, s, f)
    BY <2>3, <2>5, <2>9, <2>10 DEF IsFlattened
  <2> QED
    BY <2>11
<1> QED
  BY <1>2, <1>3

LEMMA FlattenTyped ==
    ASSUME NEW S, NEW s \in Seq(Seq(S))
    PROVE  FlattenSeq(s) \in Seq(S)
<1>1. PICK f : IsFlattened(S, s, f)
  BY FlattenIs
<1>2. Len(s) \in 0 .. Len(s)
  BY LenProperties
<1> QED
  BY <1>1, <1>2 DEF IsFlattened

LEMMA FlattenEmpty == FlattenSeq(<<>>) = <<>>
  BY DEF FlattenSeq

LEMMA FlattenAppend ==
    ASSUME NEW S, NEW s \in Seq(Seq(S)), NEW e \in Seq(S)
    PROVE  FlattenSeq(Append(s, e)) = FlattenSeq(s) \o e
<1> DEFINE n == Len(s)  t == Append(s, e)
<1>1. /\ n \in Nat /\ t \in Seq(Seq(S)) /\ Len(t) = n + 1 /\ t[n + 1] = e
      /\ \A i \in 1 .. n : t[i] = s[i]
  BY LenProperties, AppendProperties
<1>2. PICK f : IsFlattened(S, s, f)
  BY FlattenIs
<1> HIDE DEF t
<1>3. PICK g : IsFlattened(S, t, g)
  BY <1>1, FlattenIs
<1> HIDE DEF n
<1>4. /\ f[0] = <<>> /\ FlattenSeq(s) = f[n]
      /\ \A i \in 0 .. n : i # n => f[i + 1] = f[i] \o s[i + 1]
  BY <1>2 DEF IsFlattened, n
<1>5. /\ g[0] = <<>> /\ FlattenSeq(t) = g[n + 1]
      /\ \A i \in 0 .. n + 1 : i # n + 1 => g[i + 1] = g[i] \o t[i + 1]
  BY <1>1, <1>3 DEF IsFlattened
<1> DEFINE T == {i \in 0 .. n : f[i] = g[i]}
<1>6. 0 \in T
  BY <1>1, <1>4, <1>5
<1>7. ASSUME NEW i \in 0 .. n, i # n, i \in T
      PROVE  i + 1 \in T
  <2>1. i + 1 \in 1 .. n /\ i \in 0 .. n + 1 /\ i # n + 1 /\ i + 1 \in 0 .. n
    BY <1>1, <1>7
  <2>2. f[i + 1] = f[i] \o s[i + 1] /\ g[i + 1] = g[i] \o t[i + 1] /\ t[i + 1] = s[i + 1]
    BY <1>1, <1>4, <1>5, <1>7, <2>1
  <2> QED
    BY <1>7, <2>1, <2>2
<1> HIDE DEF T
<1>8. 0 .. n \subseteq T
  BY <1>1, <1>6, <1>7, UpTo
<1>9. n \in T /\ n \in 0 .. n + 1 /\ n # n + 1
  BY <1>1, <1>8
<1>10. FlattenSeq(t) = g[n] \o t[n + 1]
  BY <1>5, <1>9
<1> QED
  BY <1>1, <1>4, <1>9, <1>10 DEF T, t

\* Of pieces one after the other, one more.
LEMMA FlattenOneMore ==
    ASSUME NEW S, NEW n \in Nat, NEW f \in [1 .. n + 1 -> Seq(S)],
           NEW g, g = [i \in 1 .. n |-> f[i]]
    PROVE  FlattenSeq(f) = FlattenSeq(g) \o f[n + 1]
<1>1. g \in [1 .. n -> Seq(S)]
  OBVIOUS
<1>2. /\ f \in Seq(Seq(S)) /\ Len(f) = n + 1
      /\ g \in Seq(Seq(S)) /\ Len(g) = n
  BY <1>1, FunctionIsSeq
<1>3. f[n + 1] \in Seq(S) /\ \A i \in 1 .. n : g[i] = f[i]
  OBVIOUS
<1> DEFINE e == f[n + 1]  a == Append(g, e)
<1>4. /\ a \in Seq(Seq(S)) /\ Len(a) = n + 1 /\ a[n + 1] = e
      /\ \A i \in 1 .. n : a[i] = g[i]
  BY <1>2, <1>3, AppendProperties
<1> HIDE DEF a
<1>5. \A i \in 1 .. n + 1 : i \in 1 .. n \/ i = n + 1
  OBVIOUS
<1>6. \A i \in 1 .. n + 1 : a[i] = f[i]
  BY <1>3, <1>4, <1>5
<1>7. a = f
  BY <1>2, <1>4, <1>6, SeqEqual
<1>8. FlattenSeq(a) = FlattenSeq(g) \o e
  BY <1>2, <1>3, FlattenAppend DEF a
<1> QED
  BY <1>7, <1>8

-----------------------------------------------------------------------------
(* Induction along a sequence                                              *)

LEMMA AppendAfterPrefix ==
    ASSUME NEW S, NEW s \in Seq(S), NEW n \in 0 .. Len(s), n # Len(s)
    PROVE  SubSeq(s, 1, n + 1) = Append(SubSeq(s, 1, n), s[n + 1])
<1>1. Len(s) \in Nat /\ \A i \in 1 .. Len(s) : s[i] \in S
  BY LenProperties, ElementOfSeq
<1>2. n + 1 \in 1 .. Len(s) /\ n \in Nat /\ n + 1 - 1 = n
  BY <1>1
<1>3. /\ SubSeq(s, 1, n) \in Seq(S) /\ Len(SubSeq(s, 1, n)) = n
      /\ \A i \in 1 .. n : SubSeq(s, 1, n)[i] = s[i]
  <2>1. \A i \in 1 .. n : s[i] \in S
    BY <1>1, <1>2
  <2> QED
    BY <1>2, <2>1, SubSeqProperties
<1>4. /\ SubSeq(s, 1, n + 1) \in Seq(S) /\ Len(SubSeq(s, 1, n + 1)) = n + 1
      /\ \A i \in 1 .. n + 1 : SubSeq(s, 1, n + 1)[i] = s[i]
  <2>1. \A i \in 1 .. n + 1 : s[i] \in S
    BY <1>1, <1>2
  <2> QED
    BY <1>2, <2>1, SubSeqProperties
<1> DEFINE t == SubSeq(s, 1, n)  u == SubSeq(s, 1, n + 1)
<1> HIDE DEF t, u
<1>5. /\ Append(t, s[n + 1]) \in Seq(S) /\ Len(Append(t, s[n + 1])) = n + 1
      /\ Append(t, s[n + 1])[n + 1] = s[n + 1]
      /\ \A i \in 1 .. n : Append(t, s[n + 1])[i] = t[i]
  BY <1>1, <1>2, <1>3, AppendProperties DEF t
<1>6. \A i \in 1 .. n + 1 : i \in 1 .. n \/ i = n + 1
  BY <1>2
<1>7. \A i \in 1 .. n + 1 : u[i] = Append(t, s[n + 1])[i]
  BY <1>2, <1>3, <1>4, <1>5, <1>6 DEF t, u
<1>8. u = Append(t, s[n + 1])
  BY <1>4, <1>5, <1>7, SeqEqual DEF u
<1> QED
  BY <1>8 DEF t, u

\* A set of sequences that has the empty one, and with a sequence the longer ones.
LEMMA AlongSequences ==
    ASSUME NEW S, NEW P, <<>> \in P,
           \A s \in Seq(S), e \in S : s \in P => Append(s, e) \in P
    PROVE  Seq(S) \subseteq P
<1> SUFFICES ASSUME NEW s \in Seq(S)
             PROVE  s \in P
  OBVIOUS
<1> DEFINE n == Len(s)  T == {i \in 0 .. n : SubSeq(s, 1, i) \in P}
<1>1. n \in Nat /\ \A i \in 1 .. n : s[i] \in S
  BY LenProperties, ElementOfSeq
<1>2. 0 \in T
  <2>1. SubSeq(s, 1, 0) = <<>>
    BY SubSeqEmpty
  <2>2. SubSeq(s, 1, 0) \in P
    BY <2>1
  <2>3. 0 \in 0 .. n
    BY <1>1
  <2> QED
    BY <2>2, <2>3, Zenon
<1>3. ASSUME NEW i \in 0 .. n, i # n, i \in T
      PROVE  i + 1 \in T
  <2>1. SubSeq(s, 1, i + 1) = Append(SubSeq(s, 1, i), s[i + 1])
    BY <1>3, AppendAfterPrefix
  <2>2. s[i + 1] \in S /\ i + 1 \in 0 .. n /\ i \in Nat
    BY <1>1, <1>3
  <2>3. SubSeq(s, 1, i) \in Seq(S)
    <3>1. \A j \in 1 .. i : s[j] \in S
      BY <1>1
    <3> QED
      BY <2>2, <3>1, SubSeqProperties
  <2> QED
    BY <1>3, <2>1, <2>2, <2>3
<1>4. SubSeq(s, 1, n) = s
  BY SubSeqFull
<1> HIDE DEF T, n
<1>5. 0 .. n \subseteq T
  BY <1>1, <1>2, <1>3, UpTo
<1>6. n \in T
  BY <1>1, <1>5
<1>7. SubSeq(s, 1, n) \in P
  BY <1>6 DEF T
<1> QED
  BY <1>4, <1>7

LEMMA ConcatAppend ==
    ASSUME NEW S, NEW s \in Seq(S), NEW t \in Seq(S), NEW e \in S
    PROVE  s \o Append(t, e) = Append(s \o t, e)
<1>1. <<e>> \in Seq(S)
  OBVIOUS
<1>2. Append(t, e) = t \o <<e>> /\ s \o t \in Seq(S)
  BY AppendIsConcat, ConcatProperties
<1>3. Append(s \o t, e) = (s \o t) \o <<e>>
  BY <1>2, AppendIsConcat
<1> QED
  BY <1>1, <1>2, <1>3, ConcatAssociative

LEMMA FlattenConcat ==
    ASSUME NEW S, NEW s \in Seq(Seq(S)), NEW t \in Seq(Seq(S))
    PROVE  FlattenSeq(s \o t) = FlattenSeq(s) \o FlattenSeq(t)
<1> DEFINE P == {u \in Seq(Seq(S)) : FlattenSeq(s \o u) = FlattenSeq(s) \o FlattenSeq(u)}
<1>1. <<>> \in P
  <2>1. <<>> \in Seq(Seq(S)) /\ s \o <<>> = s
    BY EmptySeq, ConcatEmptySeq
  <2>2. FlattenSeq(s) \o <<>> = FlattenSeq(s)
    BY FlattenTyped, ConcatEmptySeq
  <2> QED
    BY <2>1, <2>2, FlattenEmpty
<1>2. ASSUME NEW u \in Seq(Seq(S)), NEW e \in Seq(S), u \in P
      PROVE  Append(u, e) \in P
  <2>1. s \o Append(u, e) = Append(s \o u, e) /\ s \o u \in Seq(Seq(S))
    BY ConcatAppend, ConcatProperties
  <2>2. FlattenSeq(Append(s \o u, e)) = FlattenSeq(s \o u) \o e
    BY <2>1, FlattenAppend
  <2>3. FlattenSeq(Append(u, e)) = FlattenSeq(u) \o e
    BY FlattenAppend
  <2>4. FlattenSeq(s) \in Seq(S) /\ FlattenSeq(u) \in Seq(S)
    BY FlattenTyped
  <2>5. (FlattenSeq(s) \o FlattenSeq(u)) \o e = FlattenSeq(s) \o (FlattenSeq(u) \o e)
    BY <2>4, ConcatAssociative, SMTT(20)
  <2>6. Append(u, e) \in Seq(Seq(S))
    BY AppendProperties
  <2> QED
    BY <1>2, <2>1, <2>2, <2>3, <2>5, <2>6
<1> HIDE DEF P
<1>3. Seq(Seq(S)) \subseteq P
  BY <1>1, <1>2, AlongSequences
<1> QED
  BY <1>3 DEF P

\* Pieces that have nothing, and pieces of one element.
LEMMA FlattenNothing ==
    ASSUME NEW S, NEW p \in Seq(Seq(S)), \A i \in 1 .. Len(p) : p[i] = <<>>
    PROVE  FlattenSeq(p) = <<>>
<1> DEFINE n == Len(p)
<1>1. n \in Nat
  BY LenProperties
<1>2. PICK f : IsFlattened(S, p, f)
  BY FlattenIs
<1>3. /\ f \in [0 .. n -> Seq(S)] /\ f[0] = <<>> /\ FlattenSeq(p) = f[n]
      /\ \A i \in 0 .. n : i # n => f[i + 1] = f[i] \o p[i + 1]
  BY <1>2 DEF IsFlattened
<1> DEFINE T == {i \in 0 .. n : f[i] = <<>>}
<1>4. 0 \in T
  BY <1>1, <1>3
<1> HIDE DEF n
<1>5. ASSUME NEW i \in 0 .. n, i # n, i \in T
      PROVE  i + 1 \in T
  <2>1. i + 1 \in 1 .. n /\ i + 1 \in 0 .. n
    BY <1>1, <1>5
  <2>2. f[i] = <<>> /\ p[i + 1] = <<>>
    BY <1>5, <2>1 DEF n
  <2>3. f[i + 1] = <<>>
    BY <1>3, <1>5, <2>2, EmptySeq, ConcatEmptySeq
  <2> QED
    BY <2>1, <2>3
<1> HIDE DEF T
<1>6. 0 .. n \subseteq T
  BY <1>1, <1>4, <1>5, UpTo
<1>7. n \in T
  BY <1>1, <1>6
<1> QED
  BY <1>3, <1>7 DEF T

LEMMA FlattenSingles ==
    ASSUME NEW S, NEW x \in Seq(S), NEW p \in Seq(Seq(S)), Len(p) = Len(x),
           \A i \in 1 .. Len(p) : p[i] = <<x[i]>>
    PROVE  FlattenSeq(p) = x
<1> DEFINE n == Len(x)
<1>1. n \in Nat /\ \A i \in 1 .. n : x[i] \in S
  BY LenProperties, ElementOfSeq
<1>2. PICK f : IsFlattened(S, p, f)
  BY FlattenIs
<1>3. /\ f \in [0 .. n -> Seq(S)] /\ f[0] = <<>> /\ FlattenSeq(p) = f[n]
      /\ \A i \in 0 .. n : i # n => f[i + 1] = f[i] \o p[i + 1]
  BY <1>2 DEF IsFlattened
<1> DEFINE T == {i \in 0 .. n : f[i] = SubSeq(x, 1, i)}
<1>4. 0 \in T
  <2>1. SubSeq(x, 1, 0) = <<>>
    BY SubSeqEmpty
  <2>2. f[0] = SubSeq(x, 1, 0)
    BY <1>3, <2>1
  <2>3. 0 \in 0 .. n
    BY <1>1
  <2> QED
    BY <2>2, <2>3, Zenon
<1> HIDE DEF n
<1>5. ASSUME NEW i \in 0 .. n, i # n, i \in T
      PROVE  i + 1 \in T
  <2>1. i + 1 \in 1 .. n /\ i + 1 \in 0 .. n
    BY <1>1, <1>5
  <2>2. f[i] = SubSeq(x, 1, i) /\ p[i + 1] = <<x[i + 1]>> /\ x[i + 1] \in S
    BY <1>1, <1>5, <2>1 DEF n
  <2>3. f[i] \in Seq(S)
    BY <1>3
  <2>4. f[i] \o <<x[i + 1]>> = Append(f[i], x[i + 1])
    BY <2>2, <2>3, AppendIsConcat
  <2>5. SubSeq(x, 1, i + 1) = Append(SubSeq(x, 1, i), x[i + 1])
    BY <1>5, AppendAfterPrefix DEF n
  <2>6. f[i + 1] = SubSeq(x, 1, i + 1)
    BY <1>3, <1>5, <2>2, <2>4, <2>5
  <2> QED
    BY <2>1, <2>6
<1> HIDE DEF T
<1>6. 0 .. n \subseteq T
  BY <1>1, <1>4, <1>5, UpTo
<1>7. n \in T
  BY <1>1, <1>6
<1>8. SubSeq(x, 1, n) = x
  BY SubSeqFull DEF n
<1> QED
  BY <1>3, <1>7, <1>8 DEF T
=============================================================================
