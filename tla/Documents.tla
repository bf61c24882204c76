------------------------------ MODULE Documents ------------------------------
(***************************************************************************)
(* What the two databases of segrob speak of: documents, identified by a   *)
(* hash of their epub, the labels they carry, and the NLP payloads made    *)
(* from their text.                                                        *)
(***************************************************************************)
CONSTANTS
    Docs,    \* document ids
    Labels,  \* label names
    Nlps     \* NLP payloads (one JSON file each)
=============================================================================
