----------------------------- MODULE UtxoRules ------------------------------
(***************************************************************************)
(* The pure rules of pkg/utxo/engine.go: VerifyTransaction, and the        *)
(* transaction that ConsolidateUTXOs builds, with sums as wide as uint64.  *)
(* A behaviour takes a wallet and a transaction and asks for the verdict.  *)
(***************************************************************************)
EXTENDS Naturals, SequencesExt, FiniteSetsExt, WordSums

CONSTANTS
    Coins,          \* what names a piece: TxID and index
    Wallets,        \* lists of pieces to try
    Transactions,   \* transactions to try
    Fee             \* 1000: what a consolidation costs

\* A wallet is one scan of an address, whose keys end in TxID and index: it has
\* no piece twice.
ASSUME RulesAssumption ==
    /\ Fee \in Words
    /\ Wallets \subseteq Seq([coin : Coins, amount : Words])
    /\ \A w \in Wallets : \A m, n \in DOMAIN w : w[m].coin = w[n].coin => m = n
    /\ Transactions \subseteq [inputs : Seq(Coins), outputs : Seq(Words), fee : Words]

VARIABLES
    wallet, tx,
    verdict     \* "asked", "valid", "invalid", or "none" for no transaction

rulesVars == <<wallet, tx, verdict>>

-----------------------------------------------------------------------------
NatSum(amounts) == Total(amounts, DOMAIN amounts)

\* Sums wrap at every addition, which is the same as at the end.
WordSum(amounts) == NatSum(amounts) % Word

Places(in, available) == {n \in DOMAIN available : available[n].coin = in}

\* The first piece that matches counts.
InputValue(in, available) == available[Min(Places(in, available))].amount

\* Faulty variant: the fee is forgotten.
VerifyWithoutFee(t, available) ==
    /\ \A n \in DOMAIN t.inputs : Places(t.inputs[n], available) # {}
    /\ WordSum([n \in DOMAIN t.inputs |-> InputValue(t.inputs[n], available)])
           = WordSum(t.outputs)

VerifyTransaction(t, available) ==
    /\ \A n \in DOMAIN t.inputs : Places(t.inputs[n], available) # {}
    /\ WordSum([n \in DOMAIN t.inputs |-> InputValue(t.inputs[n], available)])
           = (WordSum(t.outputs) + t.fee) % Word

Amounts(pieces) == [n \in DOMAIN pieces |-> pieces[n].amount]

WalletTotal(pieces) == WordSum(Amounts(pieces))

CanConsolidate(pieces) == Len(pieces) >= 2 /\ WalletTotal(pieces) > Fee

\* Faulty variant: the fee is not taken from the output.
ConsolidateForFree(pieces) ==
    [inputs |-> [n \in DOMAIN pieces |-> pieces[n].coin],
     outputs |-> <<WalletTotal(pieces)>>,
     fee |-> Fee]

ConsolidateUTXOs(pieces) ==
    [inputs |-> [n \in DOMAIN pieces |-> pieces[n].coin],
     outputs |-> <<WalletTotal(pieces) - Fee>>,
     fee |-> Fee]

Verdict(t, available) == IF VerifyTransaction(t, available) THEN "valid" ELSE "invalid"

RulesInit ==
    /\ wallet \in Wallets
    /\ tx \in Transactions
    /\ verdict = "asked"

Verify ==
    /\ verdict = "asked"
    /\ verdict' = Verdict(tx, wallet)
    /\ UNCHANGED <<wallet, tx>>

Consolidate ==
    /\ verdict = "asked"
    /\ IF CanConsolidate(wallet)
       THEN /\ tx' = ConsolidateUTXOs(wallet)
            /\ verdict' = Verdict(tx', wallet)
       ELSE /\ verdict' = "none"
            /\ UNCHANGED tx
    /\ UNCHANGED wallet

RulesNext == Verify \/ Consolidate

RulesSpec == RulesInit /\ [][RulesNext]_rulesVars

-----------------------------------------------------------------------------
(* Properties: the same rules over natural numbers and sets of pieces *)

Spent == {n \in DOMAIN wallet : wallet[n].coin \in ToSet(tx.inputs)}

\* The value of the pieces that the transaction destroys, each counted once.
Destroyed == Total(Amounts(wallet), Spent)

Conserves ==
    /\ ToSet(tx.inputs) \subseteq {wallet[n].coin : n \in DOMAIN wallet}
    /\ Destroyed = NatSum(tx.outputs) + tx.fee

\* No sum of this wallet and transaction needs more than a word, and no input
\* is listed twice.
Plain ==
    /\ NatSum(Amounts(wallet)) < Word
    /\ NatSum(tx.outputs) + tx.fee < Word
    /\ IsInjective(tx.inputs)

\* For distinct inputs and sums that fit, exactly the transactions that
\* conserve coins are valid.
VerdictExact ==
    Plain => (verdict = "valid" => Conserves) /\ (verdict = "invalid" => ~Conserves)

\* A consolidation that is built at all passes the verification, also when the
\* sum has wrapped; without that it spends every piece and pays exactly the fee.
ConsolidationValid ==
    [][Consolidate /\ CanConsolidate(wallet) =>
          /\ verdict' = "valid"
          /\ Plain' => Conserves' /\ Spent' = DOMAIN wallet]_rulesVars
=============================================================================
