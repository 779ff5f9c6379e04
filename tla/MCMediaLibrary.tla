--------------------------- MODULE MCMediaLibrary ---------------------------
(* Constants of the TLC run of MediaLibrary. *)
EXTENDS MediaLibrary, TLC

CONSTANTS v1, v2, p1, p2, r1, r2

MCLists  == {<<"url", v1>>, <<v2, v1>>}
Symmetry == Permutations({p1, p2}) \cup Permutations({r1, r2})
=============================================================================
