----------------------------- MODULE MCCatalogue -----------------------------
(* Instances of Catalogue for TLC. *)
EXTENDS Catalogue, TLC

CONSTANTS n1, n2

(* One item of each kind, all of the same name.                            *)
MCSeed == <<[kind |-> "recipe", name |-> n1],
            [kind |-> "component", name |-> n1],
            [kind |-> "model", name |-> n1]>>

SessionSymmetry == Permutations(Session)
=============================================================================
