----------------------------- MODULE MCSessions -----------------------------
(* Constants of the TLC run of Sessions: one tab with two calls, one with one. *)
EXTENDS Sessions, TLC

CONSTANTS t1, t2, c1, c2, c3

MCTabOf  == (c1 :> t1) @@ (c2 :> t1) @@ (c3 :> t2)
Symmetry == Permutations({c1, c2})
=============================================================================
