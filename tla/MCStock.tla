------------------------------- MODULE MCStock --------------------------------
(***************************************************************************)
(* The recipes of the runs of Stock.                                       *)
(***************************************************************************)
EXTENDS Stock, TLC

CONSTANTS k1, k2, bread, s1, w1, d1

\* Everything is made of bread.
MCParts == [e \in Events |-> {bread}]

Same == Permutations(Clerks)
=============================================================================
