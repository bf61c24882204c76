----------------------------- MODULE LabelColumn -----------------------------
(***************************************************************************)
(* The labels column of the corpus: a set of labels in one comma-separated *)
(* field (storage/label.go, and AddLabel, DeleteLabel and ListLabels of    *)
(* storage/sqlite/zombiezen/corpus_store.go).                              *)
(*                                                                         *)
(* A string is a sequence of characters, and of those that are no letters  *)
(* the names; the prefix of a label, which is one of a few words, is one   *)
(* character.  The order of the labels in the column (they are sorted) is  *)
(* one that the set determines.                                            *)
(***************************************************************************)
EXTENDS Integers, SequencesExt

Upper == [A |-> "a", B |-> "b"]
ToLower(c) == IF c \in DOMAIN Upper THEN Upper[c] ELSE c

\* A wrong variant, for mutation: only ", " is replaced.
NormalizeLabelOnce(val) ==
    FlattenSeq([i \in DOMAIN val |->
        CASE val[i] = "comma" ->
                IF i < Len(val) /\ val[i + 1] = "blank" THEN <<"_">> ELSE <<"comma">>
          [] val[i] = "blank" -> IF i > 1 /\ val[i - 1] = "comma" THEN <<>> ELSE <<"_">>
          [] val[i] = "hyphen" -> <<"_">>
          [] OTHER -> <<ToLower(val[i])>>])

\* What each character becomes: ", " is one underscore, and so is any other
\* blank and any hyphen; any other comma goes.
NormalizeLabel(val) ==
    FlattenSeq([i \in DOMAIN val |->
        CASE val[i] = "comma" -> IF i < Len(val) /\ val[i + 1] = "blank" THEN <<"_">> ELSE <<>>
          [] val[i] = "blank" -> IF i > 1 /\ val[i - 1] = "comma" THEN <<>> ELSE <<"_">>
          [] val[i] = "hyphen" -> <<"_">>
          [] OTHER -> <<ToLower(val[i])>>])

\* strings.Join(keys, ",")
Join(labels) ==
    LET joined == FoldSet(LAMBDA l, s : s \o <<"comma">> \o l, <<>>, labels)
    IN IF labels = {} THEN <<>> ELSE Tail(joined)

\* strings.Split(column, ","), for a column that is not empty.
Split(column) ==
    LET cuts == {0, Len(column) + 1} \cup {i \in DOMAIN column : column[i] = "comma"}
    IN {SubSeq(column, c[1] + 1, c[2] - 1) :
            c \in {b \in cuts \X cuts :
                    b[1] < b[2] /\ \A i \in cuts : i <= b[1] \/ b[2] <= i}}

\* The labels that the readers of a column find in it.
LabelsOf(column) == IF column = <<>> THEN {} ELSE Split(column)

\* m: a value for each prefix.
Serialized(m) ==
    {<<p, "colon">> \o NormalizeLabel(m[p]) :
        p \in {q \in DOMAIN m : NormalizeLabel(m[q]) # <<>>}}
SerializeLabels(m) == Join(Serialized(m))

Normalized(labels) == {NormalizeLabel(l) : l \in labels}

AddToColumn(column, labels) == Join(LabelsOf(column) \cup Normalized(labels))
DeleteFromColumn(column, labels) == Join(LabelsOf(column) \ Normalized(labels))
=============================================================================
