------------------------------- MODULE MCBatch -------------------------------
(* Small instances of BatchPublish: v has two sentences, w one.                *)
EXTENDS BatchPublish, TLC

CONSTANTS a, v, w, t, d1, d2

MCNumSentences == (v :> 2) @@ (w :> 1)
MCRow(ack) == [labels |-> {a}, txt |-> t, nlp |-> v, nlp_created |-> TRUE,
               txt_ack |-> ack, nlp_ack |-> ack]
MCAnyAck == {MCRow(TRUE), MCRow(FALSE)}
MCPlain == {NoOptions}
MCOrder == (d1 :> 1) @@ (d2 :> 2)
MCMoving == {[force |-> FALSE, move |-> TRUE]}
=============================================================================
