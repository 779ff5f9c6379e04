------------------------------ MODULE MCLogin ------------------------------
(* Constants of the TLC run of Login. *)
EXTENDS Login, TLC

Symmetry == Permutations(Requests) \cup Permutations(Passwords)
=============================================================================
