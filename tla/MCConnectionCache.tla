------------------------- MODULE MCConnectionCache -------------------------
(* An openHAB that may connect to either of two nodes, and two requests to  *)
(* it at a time.                                                            *)
EXTENDS ConnectionCache, TLC

CONSTANTS n1, n2, c1, c2, l1, l2

MCNodeOf == (c1 :> n1) @@ (c2 :> n2)
MCSymmetry == Permutations(Lookup)
=============================================================================
