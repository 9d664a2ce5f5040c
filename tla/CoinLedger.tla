----------------------------- MODULE CoinLedger -----------------------------
(***************************************************************************)
(* What the UTXO ledger promises an owner of coins, without pieces, change *)
(* or steps: one number per address, and payments that happen at once,     *)
(* take no more than is there, and burn exactly their fee.                 *)
(***************************************************************************)
EXTENDS Naturals

CONSTANTS
    Addrs,      \* the owners
    Opening     \* what each of them has at first

VARIABLE balance

Init == balance = Opening

Pay(from, to, amount, fee) ==
    /\ balance[from] >= amount + fee
    /\ LET paid == [balance EXCEPT ![from] = @ - (amount + fee)]
       IN  balance' = [paid EXCEPT ![to] = @ + amount]

Next ==
    \E from, to \in Addrs :
        \E amount \in 0 .. balance[from] :
            \E fee \in 0 .. balance[from] - amount : Pay(from, to, amount, fee)

Spec == Init /\ [][Next]_balance
=============================================================================
