------------------------------ MODULE SwapBook ------------------------------
(***************************************************************************)
(* What the swap vault promises: one balance per account, a swap that      *)
(* moves its amount to the vault at once and never moves more than the     *)
(* sender has, and now and then a balance that is taken over from the Core.*)
(***************************************************************************)
EXTENDS Naturals

CONSTANTS
    Accounts,
    Vault,
    Reports     \* the balances the Core may report

VARIABLE book

Init == book = [a \in Accounts |-> 0]

Swap(a, amount) ==
    /\ a # Vault
    /\ amount <= book[a]
    /\ book' = [book EXCEPT ![a] = @ - amount, ![Vault] = @ + amount]

TakeOver(a) == \E v \in Reports \cup {0} : book' = [book EXCEPT ![a] = v]

Next ==
    \E a \in Accounts :
        \/ TakeOver(a)
        \/ \E amount \in 0 .. book[a] : Swap(a, amount)

Spec == Init /\ [][Next]_book
=============================================================================
