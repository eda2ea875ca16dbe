---------------------------- MODULE MCFactStores ----------------------------
(* TLC instances of FactStores: two texts about one subject, one about     *)
(* another.                                                                *)
EXTENDS FactStores, TLC

CONSTANTS a1, a2, b1, A, B

AboutText == (a1 :> A) @@ (a2 :> A) @@ (b1 :> B)

Symmetry == Permutations(Thread)
=============================================================================
