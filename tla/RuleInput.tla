----------------------------- MODULE RuleInput -----------------------------
(***************************************************************************)
(* The input at which the pure rules of the system (AccessRules,           *)
(* M3uFormat, StreamArgs) are looked at.  Each of them contributes a set   *)
(* of inputs, records with the name of a rule, and states what the rule    *)
(* does as an invariant.                                                   *)
(***************************************************************************)
VARIABLE input

NoInput == [rule |-> "none"]
=============================================================================
