----------------------------- MODULE MCCatalog -----------------------------
(***************************************************************************)
(* Instances of Catalog: a listing, its seller, another user, and two      *)
(* overlapping requests of either.                                         *)
(***************************************************************************)
EXTENDS Catalog, TLC

CONSTANTS seller, stranger, r1, r2, r3

\* The requests are interchangeable.
RequestSymmetry == Permutations(Requests)
=============================================================================
