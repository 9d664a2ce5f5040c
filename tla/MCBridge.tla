------------------------------ MODULE MCBridge ------------------------------
(* Bridge for TLC: requests and transfers differ in nothing but names. *)
EXTENDS Bridge, TLC

AnyName == Permutations(Calls) \cup Permutations(Transfers)
=============================================================================
