---------------------------- MODULE MCAccounts ----------------------------
(* Constants of the TLC run of Accounts. *)
EXTENDS Accounts, TLC

Symmetry == Permutations(Users) \cup Permutations(Requests)
=============================================================================
