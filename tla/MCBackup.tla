------------------------------- MODULE MCBackup -------------------------------
(* Small instances of Backup over Curation: two books with one text, which an   *)
(* edit may change.                                                             *)
EXTENDS Backup, TLC

CONSTANTS a, t, t2, v, v2

MCNlpOf == (t :> v) @@ (t2 :> v2)
MCExtracted == [d \in Docs |-> [labels |-> {a}, txt |-> t]]
Symmetry == Permutations(Docs)
=============================================================================
