------------------------------ MODULE MCMarket ------------------------------
(***************************************************************************)
(* Market for TLC: one wallet with all its names and one alias.            *)
(***************************************************************************)
EXTENDS Market

CONSTANTS w, a, b

\* The two addresses of the wallet.
MCAddresses == {Native(w), Eth(w)}

\* The wallet may buy every asset with a memo as well.
MCPurchases == {<<Native(w), x>> : x \in Assets}

AnyCall == Permutations(Calls)
=============================================================================
