------------------------------- MODULE MCIngest -------------------------------
(* Small instances of Ingest.                                                  *)
EXTENDS Ingest

CONSTANTS a, t, u, d1, d2

MCExtracted == [d \in Docs |-> [labels |-> {a}, txt |-> t]]

Epub(d) == [id |-> d, state |-> "good"]

\* Overlapping directories, one with a copy of a book, and two that cannot be
\* ingested, though the first book of each could, with what is left of them.
MCDirs == {<<Epub(d1), Epub(d2), Epub(d1)>>, <<Epub(d2), Epub(d1)>>,
           <<Epub(d1), [id |-> d2, state |-> "broken"]>>, <<Epub(d1)>>,
           <<Epub(d2), [id |-> d2, state |-> "unreadable"]>>, <<Epub(d2)>>}
=============================================================================
