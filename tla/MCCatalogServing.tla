-------------------------- MODULE MCCatalogServing --------------------------
(* Three exports: the second misses a product of the first and brings one *)
(* that the third misses; the third brings the first product back. *)
EXTENDS CatalogServing, TLC

CONSTANTS p, q, r

MCItems == (0 :> {p, q}) @@ (1 :> {q, r}) @@ (2 :> {p, q})
=============================================================================
