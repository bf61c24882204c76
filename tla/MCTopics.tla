------------------------------- MODULE MCTopics -------------------------------
(* Small instances of Topics.                                                  *)
EXTENDS Topics

CONSTANTS n1, n2, k1, k2

Plain(k) == [key |-> k, flagged |-> FALSE]
Flagged(k) == [key |-> k, flagged |-> TRUE]

\* A file with two topics, one of which holds an expression twice, once flagged.
MCFiles == {<<[name |-> n1, exprs |-> <<Flagged(k1), Plain(k1)>>],
              [name |-> n2, exprs |-> <<Plain(k2)>>]>>}
=============================================================================
