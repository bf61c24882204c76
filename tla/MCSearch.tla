------------------------------- MODULE MCSearch -------------------------------
(* A small instance of Search: the payload has two sentences; an expression has *)
(* the lemmas of both, or of the first one only.                                *)
EXTENDS Search

CONSTANTS a, v, t

MCOneSize == (v :> 2)

Row(ls, nlp) == [labels |-> ls, txt |-> t, nlp |-> nlp, nlp_created |-> TRUE,
                 txt_ack |-> TRUE, nlp_ack |-> TRUE]
MCLabelled == {Row({a}, v)}
MCPlain == {NoOptions}

First == {<<v, 0>>}

FindThree == [client |-> "find", exprs |-> <<TextSentences>>,
              accepts |-> TextSentences, labels |-> {}, limit |-> 3]
FindTagOnly == [client |-> "find", exprs |-> <<>>, accepts |-> TextSentences,
                labels |-> {}, limit |-> 0]
QueryTwo == [client |-> "query", exprs |-> <<TextSentences, First>>,
             accepts |-> TextSentences, labels |-> {a}, limit |-> 0]
MCRequests == {FindThree, FindTagOnly, QueryTwo}
=============================================================================
