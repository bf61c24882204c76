---------------------------- MODULE MCPublication ----------------------------
(* Small instances of Publication.                                         *)
EXTENDS Publication, TLC

CONSTANTS a, b, v, w, t

\* v has two sentences, w one.
MCNumSentences == (v :> 2) @@ (w :> 1)
MCOneSize == (v :> 2)

Row(ls, nlp, ack) == [labels |-> ls, txt |-> t, nlp |-> nlp, nlp_created |-> TRUE,
                      txt_ack |-> ack, nlp_ack |-> ack]

\* One acknowledged document with a label.
MCLabelled == {Row({a}, v, TRUE)}
\* Acknowledged or not.
MCAnyAck == {Row({a}, v, TRUE), Row({}, v, FALSE)}

MCPlain == {NoOptions}
MCAllOptions == [force : BOOLEAN, move : BOOLEAN]

AllSymmetry == Permutations(Docs) \cup Permutations(Procs)
=============================================================================
