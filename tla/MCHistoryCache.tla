--------------------------- MODULE MCHistoryCache ---------------------------
(***************************************************************************)
(* HistoryCache for TLC: two wallets that share an alias, one of them paid *)
(* under its 0x form as well.                                              *)
(***************************************************************************)
EXTENDS HistoryCache

CONSTANTS v, w, u

MCParties ==
    << <<Native(v), Native(w)>>, <<Native(w), Eth(v)>>, <<Native(v), Native(v)>>, <<Native(v), Native(w)>> >>

MCQueries == {Native(v), Eth(v), Alias(u)}

AnyCall == Permutations(Calls)
=============================================================================
