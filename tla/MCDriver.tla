------------------------------ MODULE MCDriver ------------------------------
(* Driver for TLC: vms and pages are interchangeable.                      *)
EXTENDS Driver, TLC

Symmetry == Permutations(Vms) \union Permutations(Pages)
=============================================================================
