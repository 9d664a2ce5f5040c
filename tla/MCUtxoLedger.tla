---------------------------- MODULE MCUtxoLedger ----------------------------
(***************************************************************************)
(* Instances of UtxoLedger for TLC: two owners, two pieces of one          *)
(* transaction, and words of three bits.                                   *)
(***************************************************************************)
EXTENDS UtxoLedger

CONSTANTS alice, bob, g

Coins(owner, tx, n, amount) ==
    [owner |-> owner, tx |-> tx, index |-> n, amount |-> amount]

MCGenesis == {Coins(alice, g, 0, 2), Coins(alice, g, 1, 1)}

Send(from, to, amount, fee) ==
    [kind |-> "spend", from |-> from, to |-> to, amount |-> amount, fee |-> fee]

\* The larger piece of alice pays without change; if the scan starts with the
\* smaller one, both are needed and leave some.  The sum of the second amount
\* and its fee is no word: it is cut to 0, for which any piece is enough.
MCPayments == {Send(alice, bob, 1, 1), Send(alice, bob, 7, 1)}

Give(from, to, id) == [kind |-> "transfer", from |-> from, to |-> to, id |-> id]

MCMoves == {Give(alice, bob, g), Give(bob, alice, NoId)}

\* Requests differ in nothing but their names.
AnyCall == Permutations(Calls)
=============================================================================
