--------------------------- MODULE MCBalanceCache ---------------------------
(***************************************************************************)
(* BalanceCache for TLC: one wallet, called by its two addresses.          *)
(***************************************************************************)
EXTENDS BalanceCache

CONSTANT w

MCAddresses == {Native(w), Eth(w), Vault}

AnyCall == Permutations(Calls)
=============================================================================
