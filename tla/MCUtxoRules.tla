---------------------------- MODULE MCUtxoRules -----------------------------
(***************************************************************************)
(* All wallets of up to three pieces with distinct names, and all          *)
(* transactions of up to two inputs and two outputs, over three-bit words. *)
(***************************************************************************)
EXTENDS UtxoRules

\* The loops of the code cut their sum at every addition: the same as once.
ASSUME WrapsOnce ==
    \A amounts \in SeqOf(Words, 3) :
        FoldSeq(LAMBDA a, n : (a + n) % Word, 0, amounts) = WordSum(amounts)

Named(amounts) == [n \in DOMAIN amounts |-> [coin |-> n, amount |-> amounts[n]]]

MCWallets == {Named(amounts) : amounts \in SeqOf(Words, 3)}

MCTransactions ==
    [inputs : SeqOf(Coins, 2), outputs : SeqOf({0, 1, 3, 7}, 2), fee : {0, 1, 2}]
=============================================================================
