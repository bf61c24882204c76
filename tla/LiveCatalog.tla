----------------------------- MODULE LiveCatalog -----------------------------
(***************************************************************************)
(* What publication promises to those who search the live database: a      *)
(* document is hidden or shown as one whole NLP payload, it appears and    *)
(* disappears in one step, and it is filed under a whole set of labels or  *)
(* under none, never passing from one set to another without being taken   *)
(* off the index in between.  Publication refines this specification.      *)
(***************************************************************************)
CONSTANTS Docs, Labels, Nlps, Hidden

VARIABLES
    shown,  \* shown[d]: the payload searches find, or Hidden
    filed   \* filed[d]: the labels searches find document d under

vars == <<shown, filed>>

Init ==
    /\ shown = [d \in Docs |-> Hidden]
    /\ filed = [d \in Docs |-> {}]

Appear(d, v) ==
    /\ shown[d] = Hidden
    /\ shown' = [shown EXCEPT ![d] = v]
    /\ UNCHANGED filed

Disappear(d) ==
    /\ shown[d] # Hidden
    /\ shown' = [shown EXCEPT ![d] = Hidden]
    /\ UNCHANGED filed

File(d, ls) ==
    /\ filed[d] = {}
    /\ filed' = [filed EXCEPT ![d] = ls]
    /\ UNCHANGED shown

Unfile(d) ==
    /\ filed' = [filed EXCEPT ![d] = {}]
    /\ UNCHANGED shown

Next == \E d \in Docs :
    \/ \E v \in Nlps : Appear(d, v)
    \/ Disappear(d)
    \/ \E ls \in SUBSET Labels : File(d, ls)
    \/ Unfile(d)

Spec == Init /\ [][Next]_vars
=============================================================================
