----------------------------- MODULE MCCatalog -----------------------------
(* Instances of Catalog for TLC.  A bounded set of requests, each served   *)
(* once, bounds the run; requests are interchangeable.                     *)
EXTENDS Catalog, TLC

RequestSymmetry == Permutations(CatalogRequest)

=============================================================================
