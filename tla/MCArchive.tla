----------------------------- MODULE MCArchive -----------------------------
(***************************************************************************)
(* Archive for TLC: downloads differ in nothing but their names.           *)
(***************************************************************************)
EXTENDS Archive, TLC

AnyCall == Permutations(Calls)
=============================================================================
