------------------------------ MODULE MCDrafts --------------------------------
(***************************************************************************)
(* Two tablets, an account that may be an order already, and the «Nuevo»   *)
(* each tablet may open for it.                                            *)
(***************************************************************************)
EXTENDS Drafts, TLC

CONSTANTS t1, t2, a1, n1, n2, x1, x2

\* The tablets do the same things, the ids they make up are alike, and so are
\* two touches of the same product.
Same == Permutations({t1, t2}) \cup Permutations({n1, n2}) \cup Permutations({x1, x2})
=============================================================================
