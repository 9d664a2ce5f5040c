---------------------------- MODULE MCStateSync ----------------------------
(***************************************************************************)
(* StateSync for TLC.  The first block is older than the index: a crawler  *)
(* that is thrown back to it meets a recipient too short to be logged.     *)
(* The second has more transactions of one address than a history keeps, a *)
(* purchase whose amount and asset share a key, and one that pays nothing  *)
(* and whose id is too short for a name.  The third is a shelf block that  *)
(* stops the crawler once its validator, whose alias is too short to be    *)
(* logged, has an identity.                                                *)
(***************************************************************************)
EXTENDS StateSync

CONSTANTS alice, bob, market, v1, pet

Pay(id, from, to) ==
    [id |-> id, from |-> from, to |-> to, paid |-> TRUE, asset |-> pet,
     idOK |-> TRUE, toOK |-> TRUE]

Mined(txs) == [txs |-> txs, miner |-> v1, hashOK |-> TRUE]

MCChain ==
    << Mined(<<[Pay(2, alice, bob) EXCEPT !.toOK = FALSE]>>),
       Mined(<<Pay(3, market, market), Pay(4, bob, market),
               [Pay(5, alice, market) EXCEPT !.paid = FALSE, !.idOK = FALSE]>>),
       Mined(<<Pay(1, alice, bob)>>) >>

\* The Core's history of bob lacks what the crawler may have entered, and may
\* have what the crawler is behind on.
MCAnswers == {<<1>>}
=============================================================================
