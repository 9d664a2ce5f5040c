----------------------------- MODULE StateSync -----------------------------
(***************************************************************************)
(* The chain crawler StartBatchSync (pkg/state/sync.go) with the contract  *)
(* PURCHASE_ASSET it calls (pkg/vm/engine.go).  It fetches the Core's      *)
(* blocks in order and writes each one to the store in about ten separate  *)
(* Puts, latest_height last.  Every Put is a step here, because the        *)
(* process may die between any two of them and then replays the block, and *)
(* because the crawler drops the error of each and goes on.                *)
(*                                                                         *)
(* The Core is external: its chain only grows, and any call to it may      *)
(* fail.  Of an account the model keeps the Core's height at which the     *)
(* account was read, which orders the values a key may hold.  The HTTP     *)
(* handlers of the same process that write keys of the crawler are steps   *)
(* of their own at the end.                                                *)
(***************************************************************************)
EXTENDS Naturals, Sequences, FiniteSets

CONSTANTS
    Chain,          \* the Core's blocks, as far as they will ever be mined
    Addrs,          \* the addresses of the chain
    Miners,         \* the validators' addresses
    ShortNames,     \* those without the 6 characters sync.go slices off
    ShortAliases,   \* those whose "id:" value lacks the 10 that it logs
    TxIds,          \* the ids of its transactions
    Assets,         \* what the memo of a purchase may name
    MarketAddress,  \* the constant of sync.go
    Genesis,        \* the piece name of a transaction without a proper id
    NoValue,        \* a key the store does not hold
    ShelfEvery,     \* 10: blocks between two market assets
    SentinelFrom,   \* 6000: the first block the WASM guard looks at
    HistoryCap,     \* 50: entries of an address history
    LegacyHeight,   \* the "m:height" key an older version left behind
    Visitors,       \* addresses whose keys the handlers write
    Answers,        \* the histories the Core may send to a handler
    MaxFaults       \* bound: failures, crashes and handlers' writes of one behaviour

\* idOK: the id has the 16 characters sync.go slices off; toOK: the recipient
\* has the 10 it logs; paid: Amount > 0; hashOK: the hash is not empty.
Tx == [id : TxIds, from : Addrs, to : Addrs, paid : BOOLEAN, asset : Assets,
       idOK : BOOLEAN, toOK : BOOLEAN]

Block == [txs : Seq(Tx), miner : Miners, hashOK : BOOLEAN]

ASSUME SyncAssumption ==
    /\ Chain \in Seq(Block)
    /\ ShortNames \subseteq Miners /\ ShortAliases \subseteq Miners
    /\ MarketAddress \in Addrs
    /\ ShelfEvery \in Nat \ {0}
    /\ SentinelFrom \in Nat
    /\ HistoryCap \in Nat \ {0}
    /\ LegacyHeight \in 0 .. Len(Chain)
    /\ Visitors \subseteq Addrs
    /\ Answers \subseteq Seq(TxIds)
    /\ MaxFaults \in Nat
    /\ NoValue \notin Assets \cup {"amount"}
    /\ Genesis \notin TxIds

\* Transactions differ in the 16 characters of the id that the crawler uses.
ASSUME UniqueIds ==
    \A b, c \in DOMAIN Chain :
        \A j \in DOMAIN Chain[b].txs, k \in DOMAIN Chain[c].txs :
            Chain[b].txs[j].id = Chain[c].txs[k].id => b = c /\ j = k

VARIABLES
    coreHeight,     \* height of the Core's chain
    mapped,         \* validators whose address has an "id:" key
    latest,         \* "latest_height", 0 while the key is missing
    blocks,         \* heights whose "b:" key holds the whole block
    history,        \* "h:" keys: transaction ids, newest first
    balanceAt,      \* "s:" keys: the Core's height when the balance was read
    nonceAt,        \* "n:" keys: the same for the nonce
    txIndex,        \* "t:" keys
    pieces,         \* raw "utxo:" keys: an amount or the name of an asset
    shelf,          \* "market:" keys: ASSET-h for h in shelf
    rewards,        \* heights whose validator was given a crate
    pc, target, h, i,   \* the crawler: next step, loop bound, block, tx
    got,            \* finalBlock: what the conversion left of block h
    answer,         \* acc: the Core's height when the account was read
    lapsed,         \* history: keys that miss what the crawler had for them
    sold,           \* history: assets a buyer took from the shelf
    faults,         \* history: how many of these there were
    mishaps         \* history: what has made the crawler go back or jump

coreVars  == <<coreHeight, mapped>>
indexVars == <<blocks, history, txIndex, pieces, balanceAt, nonceAt>>
shelfVars == <<shelf, rewards, sold>>
dataVars  == <<got, answer>>
loopVars  == <<target, h, i>>

vars == <<coreVars, latest, indexVars, shelfVars, pc, loopVars, dataVars, lapsed,
          faults, mishaps>>

Steps == {"poll", "fetch", "block", "shelf", "identity", "crate", "tx", "histFrom",
          "histTo", "account", "balance", "nonce", "txIndex", "piece", "vm",
          "commit", "panic", "stopped"}

Txs == Chain[h].txs
tx  == Txs[i]

\* GetLocalHeight: the older key is read while the new one is missing.
LocalHeight == IF latest = 0 THEN LegacyHeight ELSE latest

\* The 16 characters that name a piece; the contract falls back to "GENESIS".
PieceId(t) == IF t.idOK THEN t.id ELSE Genesis

PieceKeys == Addrs \X (TxIds \cup {Genesis})

\* The keys of block b, a purchase by t, and all that t has keys for.
BlockKey(b)    == <<"b", b>>
TxKey(t)       == <<"t", t.id>>
PaidKey(t)     == <<"u", t.to, t.id>>
AssetKey(t)    == <<"u", t.from, PieceId(t)>>
HistoryKey(a)  == <<"h", a>>
BalanceKey(a)  == <<"s", a>>
NonceKey(a)    == <<"n", a>>
KeysOf(t) == {TxKey(t), PaidKey(t), AssetKey(t), HistoryKey(t.from), HistoryKey(t.to),
              BalanceKey(t.from), NonceKey(t.from)}

\* What msgpack may make of block b: a first part of its transactions, each
\* one whole, with or without the hash and the miner.
Whole(b) == [txs |-> Len(Chain[b].txs), hash |-> Chain[b].hashOK, miner |-> TRUE]
Parts(b) == [txs : 0 .. Len(Chain[b].txs), hash : {FALSE, Chain[b].hashOK},
             miner : BOOLEAN]

Init ==
    /\ coreHeight \in LegacyHeight .. Len(Chain)
    /\ mapped = {}
    /\ latest = 0
    /\ blocks = {}
    /\ history = [a \in Addrs |-> <<>>]
    /\ balanceAt = [a \in Addrs |-> 0]
    /\ nonceAt = [a \in Addrs |-> 0]
    /\ txIndex = {}
    /\ pieces = [k \in PieceKeys |-> NoValue]
    /\ shelf = {}
    /\ rewards = {}
    /\ pc = "poll" /\ target = 0 /\ h = 0 /\ i = 0
    /\ got = [txs |-> 0, hash |-> FALSE, miner |-> FALSE]
    /\ answer = 0
    /\ lapsed = {}
    /\ sold = {}
    /\ faults = 0
    /\ mishaps = {}

Fault == faults < MaxFaults /\ faults' = faults + 1

-----------------------------------------------------------------------------
(* The turn of the loop *)

\* Nothing new: sleep and poll again.  A failed GetNetworkInfo sleeps as well.
PollIdle ==
    /\ pc = "poll"
    /\ LocalHeight = coreHeight
    /\ UNCHANGED vars

StartFrom(height) ==
    /\ pc = "poll"
    /\ height < coreHeight
    /\ target' = coreHeight
    /\ h' = height + 1
    /\ pc' = "fetch"
    /\ UNCHANGED <<coreVars, latest, indexVars, shelfVars, i, dataVars, lapsed>>

Poll == StartFrom(LocalHeight) /\ UNCHANGED <<faults, mishaps>>

\* A Get that fails reads as a missing key: the older height, or none at all.
PollReadFails ==
    /\ Fault
    /\ \E height \in {LegacyHeight, 0} \ {LocalHeight} : StartFrom(height)
    /\ mishaps' = mishaps \cup {"oldHeight"}

\* Faulty variant: the goroutine returns.
FetchFailsReturns ==
    /\ pc = "fetch"
    /\ Fault
    /\ pc' = "stopped"
    /\ UNCHANGED <<coreVars, latest, indexVars, shelfVars, loopVars, dataVars, lapsed,
                   mishaps>>

FetchFails ==
    /\ pc = "fetch"
    /\ Fault
    /\ pc' = "poll"
    /\ UNCHANGED <<coreVars, latest, indexVars, shelfVars, loopVars, dataVars, lapsed,
                   mishaps>>

\* From SentinelFrom on the WASM guard looks at the block, and its verdict is
\* anybody's guess here: a block it rejects ends the goroutine.
Fetched ==
    /\ pc = "fetch"
    /\ pc' = "block" \/ (h >= SentinelFrom /\ pc' = "stopped")
    /\ UNCHANGED <<coreVars, latest, indexVars, shelfVars, loopVars, answer, mishaps>>

Fetch == Fetched /\ got' = Whole(h) /\ UNCHANGED <<lapsed, faults>>

\* The errors of the conversion are dropped: the crawler goes on with a part
\* of the block, and nothing is ever written for the transactions it lacks.
FetchGarbled ==
    /\ Fetched
    /\ Fault
    /\ got' \in Parts(h) \ {Whole(h)}
    /\ lapsed' = lapsed \cup {BlockKey(h)}
                        \cup UNION {KeysOf(Txs[k]) : k \in got'.txs + 1 .. Len(Txs)}

-----------------------------------------------------------------------------
(* The Puts.  Their errors are dropped, so the crawler takes the same way   *)
(* whether they succeed or not.                                             *)

\* The step that follows a Put.  MintGachaAsset reads the first character of
\* the hash, and the crawler slices id, recipient and alias: it panics where
\* they are too short.
After ==
    CASE pc = "block" /\ h % ShelfEvery # 0 -> "tx"
      [] pc = "block" /\ h % ShelfEvery = 0 -> IF got.hash THEN "shelf" ELSE "panic"
      [] pc = "shelf"    -> "identity"
      [] pc = "crate"    -> IF Chain[h].miner \in ShortAliases THEN "panic" ELSE "tx"
      [] pc = "histFrom" -> "histTo"
      [] pc = "histTo"   -> "account"
      [] pc = "balance"  -> "nonce"
      [] pc = "nonce"    -> "txIndex"
      [] pc = "txIndex"  -> IF ~tx.paid THEN "vm" ELSE IF tx.idOK THEN "piece" ELSE "panic"
      [] pc = "piece"    -> IF tx.toOK THEN "vm" ELSE "panic"
      [] pc = "vm"       -> "tx"
      [] pc = "commit"   -> IF h < target THEN "fetch" ELSE "poll"

GoOn ==
    /\ pc' = After
    /\ i' = CASE pc = "block" -> 1 [] pc = "vm" -> i + 1 [] OTHER -> i
    /\ h' = IF pc = "commit" THEN h + 1 ELSE h
    /\ UNCHANGED <<coreVars, target, dataVars>>

Stored(key) == GoOn /\ lapsed' = lapsed \ {key} /\ UNCHANGED <<faults, mishaps>>

\* Faulty variant: the height is saved together with the block.
PutBlockAndHeight ==
    /\ pc = "block"
    /\ blocks' = blocks \cup {h}
    /\ latest' = h
    /\ Stored(BlockKey(h))
    /\ UNCHANGED <<history, txIndex, pieces, balanceAt, nonceAt, shelfVars>>

\* SaveBlock and the Put of the same block: nothing here tells them apart.
PutBlock ==
    /\ pc = "block"
    /\ IF got = Whole(h)
       THEN blocks' = blocks \cup {h} /\ Stored(BlockKey(h))
       ELSE blocks' = blocks \ {h} /\ GoOn /\ UNCHANGED <<lapsed, faults, mishaps>>
    /\ UNCHANGED <<latest, history, txIndex, pieces, balanceAt, nonceAt, shelfVars>>

PutShelf ==
    /\ pc = "shelf"
    /\ shelf' = shelf \cup {h}
    /\ GoOn
    /\ UNCHANGED <<latest, indexVars, rewards, sold, lapsed, faults, mishaps>>

\* The validator's identity, if it has one by now; none, if the Get fails.
GetIdentity ==
    /\ pc = "identity"
    /\ pc' = IF ~got.miner \/ Chain[h].miner \notin mapped THEN "tx"
             ELSE IF Chain[h].miner \in ShortNames THEN "panic" ELSE "crate"
    /\ UNCHANGED <<coreVars, latest, indexVars, shelfVars, loopVars, dataVars, lapsed,
                   faults, mishaps>>

IdentityReadFails ==
    /\ pc = "identity"
    /\ Fault
    /\ pc' = "tx"
    /\ UNCHANGED <<coreVars, latest, indexVars, shelfVars, loopVars, dataVars, lapsed,
                   mishaps>>

PutReward ==
    /\ pc = "crate"
    /\ rewards' = rewards \cup {h}
    /\ GoOn
    /\ UNCHANGED <<latest, indexVars, shelf, sold, lapsed, faults, mishaps>>

NextTx ==
    /\ pc = "tx"
    /\ pc' = IF i <= got.txs THEN "histFrom" ELSE "commit"
    /\ UNCHANGED <<coreVars, latest, indexVars, shelfVars, loopVars, dataVars, lapsed,
                   faults, mishaps>>

Has(hist, id) == \E j \in DOMAIN hist : hist[j] = id

\* Faulty variants: no check for a repeat; no limit.
RememberAlways(hist, id) ==
    LET longer == <<id>> \o hist
    IN  IF Len(longer) > HistoryCap THEN SubSeq(longer, 1, HistoryCap) ELSE longer
RememberAll(hist, id) == IF Has(hist, id) THEN hist ELSE <<id>> \o hist

\* Prepend the transaction unless the address already has it; keep the newest.
Remember(hist, id) ==
    IF Has(hist, id) THEN hist
    ELSE LET longer == <<id>> \o hist
         IN  IF Len(longer) > HistoryCap THEN SubSeq(longer, 1, HistoryCap)
             ELSE longer

\* The address whose history is at hand: sender first, then recipient.
Owner == IF pc = "histFrom" THEN tx.from ELSE tx.to

PutHistory ==
    /\ pc \in {"histFrom", "histTo"}
    /\ history' = [history EXCEPT ![Owner] = Remember(@, tx.id)]
    /\ GoOn
    /\ UNCHANGED <<latest, blocks, txIndex, pieces, balanceAt, nonceAt, shelfVars, lapsed,
                   faults, mishaps>>

\* The error of the Get is dropped as well: the transaction starts a history.
HistoryReadFails ==
    /\ pc \in {"histFrom", "histTo"}
    /\ Fault
    /\ history' = [history EXCEPT ![Owner] = Remember(<<>>, tx.id)]
    /\ lapsed' = lapsed \cup {HistoryKey(Owner)}
    /\ GoOn
    /\ UNCHANGED <<latest, blocks, txIndex, pieces, balanceAt, nonceAt, shelfVars, mishaps>>

\* GetAccount answers with the Core's present state, not that of block h.
GetAccount ==
    /\ pc = "account"
    /\ answer' = coreHeight
    /\ pc' = "balance"
    /\ UNCHANGED <<coreVars, latest, indexVars, shelfVars, loopVars, got, lapsed, faults,
                   mishaps>>

AccountFails ==
    /\ pc = "account"
    /\ Fault
    /\ lapsed' = lapsed \cup {BalanceKey(tx.from), NonceKey(tx.from)}
    /\ pc' = "txIndex"
    /\ UNCHANGED <<coreVars, latest, indexVars, shelfVars, loopVars, dataVars, mishaps>>

PutBalance ==
    /\ pc = "balance"
    /\ balanceAt' = [balanceAt EXCEPT ![tx.from] = answer]
    /\ Stored(BalanceKey(tx.from))
    /\ UNCHANGED <<latest, blocks, history, txIndex, pieces, nonceAt, shelfVars>>

\* Faulty variant: the nonce is written only while there is none.
PutNonceOnce ==
    /\ pc = "nonce"
    /\ nonceAt' = [nonceAt EXCEPT ![tx.from] = IF @ = 0 THEN answer ELSE @]
    /\ Stored(NonceKey(tx.from))
    /\ UNCHANGED <<latest, blocks, history, txIndex, pieces, balanceAt, shelfVars>>

\* The nonce comes from the same answer as the balance.
PutNonce ==
    /\ pc = "nonce"
    /\ nonceAt' = [nonceAt EXCEPT ![tx.from] = answer]
    /\ Stored(NonceKey(tx.from))
    /\ UNCHANGED <<latest, blocks, history, txIndex, pieces, balanceAt, shelfVars>>

PutTx ==
    /\ pc = "txIndex"
    /\ txIndex' = txIndex \cup {tx.id}
    /\ Stored(TxKey(tx))
    /\ UNCHANGED <<latest, blocks, history, pieces, balanceAt, nonceAt, shelfVars>>

PutPiece ==
    /\ pc = "piece"
    /\ pieces' = [pieces EXCEPT ![<<tx.to, tx.id>>] = "amount"]
    /\ Stored(PaidKey(tx))
    /\ UNCHANGED <<latest, blocks, history, txIndex, balanceAt, nonceAt, shelfVars>>

\* A transaction to the market: PURCHASE_ASSET gives the asset named by the
\* memo to the sender.  When its PutRaw fails, the error is only logged.
ExecuteNative ==
    /\ pc = "vm"
    /\ IF tx.to = MarketAddress
       THEN /\ pieces' = [pieces EXCEPT ![<<tx.from, PieceId(tx)>>] = tx.asset]
            /\ Stored(AssetKey(tx))
       ELSE GoOn /\ UNCHANGED <<pieces, lapsed, faults, mishaps>>
    /\ UNCHANGED <<latest, blocks, history, txIndex, balanceAt, nonceAt, shelfVars>>

\* Faulty variants: the height is that of the target; the height is that of the
\* block before.
CommitTarget ==
    /\ pc = "commit"
    /\ latest' = target
    /\ GoOn
    /\ UNCHANGED <<indexVars, shelfVars, lapsed, faults, mishaps>>
CommitBefore ==
    /\ pc = "commit"
    /\ latest' = h - 1
    /\ GoOn
    /\ UNCHANGED <<indexVars, shelfVars, lapsed, faults, mishaps>>

Commit ==
    /\ pc = "commit"
    /\ latest' = h
    /\ GoOn
    /\ UNCHANGED <<indexVars, shelfVars, lapsed, faults, mishaps>>

\* The keys of the Put at hand that a property speaks of.
Unwritten ==
    CASE pc = "block"   -> {BlockKey(h)}
      [] pc \in {"histFrom", "histTo"} -> {HistoryKey(Owner)}
      [] pc = "balance" -> {BalanceKey(tx.from)}
      [] pc = "nonce"   -> {NonceKey(tx.from)}
      [] pc = "txIndex" -> {TxKey(tx)}
      [] pc = "piece"   -> {PaidKey(tx)}
      [] pc = "vm"      -> {AssetKey(tx)}
      [] OTHER          -> {}

\* A Put fails and nobody notices; that of the height makes the next commit a
\* jump, or a replay.
PutFails ==
    /\ pc \in Steps \ {"poll", "fetch", "identity", "tx", "account", "panic", "stopped"}
    /\ pc \in {"histFrom", "histTo"} => ~Has(history[Owner], tx.id)
    /\ pc = "vm" => tx.to = MarketAddress
    /\ Fault
    /\ lapsed' = lapsed \cup Unwritten
    /\ mishaps' = IF pc = "commit" THEN mishaps \cup {"heightLost"} ELSE mishaps
    /\ GoOn
    /\ UNCHANGED <<latest, indexVars, shelfVars>>

\* The process dies at a slice or an index; it is started again.
Panic ==
    /\ pc = "panic"
    /\ mishaps' = mishaps \cup {"crash"}
    /\ pc' = "poll"
    /\ UNCHANGED <<coreVars, latest, indexVars, shelfVars, loopVars, dataVars, lapsed,
                   faults>>

-----------------------------------------------------------------------------
(* The rest of the world *)

Grow ==
    /\ coreHeight < Len(Chain)
    /\ coreHeight' = coreHeight + 1
    /\ UNCHANGED <<mapped, latest, indexVars, shelfVars, pc, loopVars, dataVars, lapsed,
                   faults, mishaps>>

\* HandleCreateWallet writes the identity of a validator's address.
MapValidator(m) ==
    /\ mapped' = mapped \cup {m}
    /\ UNCHANGED <<coreHeight, latest, indexVars, shelfVars, pc, loopVars, dataVars, lapsed,
                   faults, mishaps>>

\* The end of HandleMarketBuy: the asset leaves the shelf.
Sell(asset) ==
    /\ asset \in shelf
    /\ shelf' = shelf \ {asset}
    /\ sold' = sold \cup {asset}
    /\ UNCHANGED <<coreVars, latest, indexVars, rewards, pc, loopVars, dataVars, lapsed,
                   faults, mishaps>>

\* UpdateL2Balance and the two handlers that cache a balance of the Core store
\* a record of their own, made from a state of any age.
StoreBalance(a, height) ==
    /\ Fault
    /\ balanceAt' = [balanceAt EXCEPT ![a] = height]
    /\ lapsed' = lapsed \cup {BalanceKey(a)}
    /\ UNCHANGED <<coreVars, latest, blocks, history, txIndex, pieces, nonceAt, shelfVars,
                   pc, loopVars, dataVars, mishaps>>

\* HandleAddressHistory stores the Core's list as it is.
StoreHistory(a, list) ==
    /\ Fault
    /\ history' = [history EXCEPT ![a] = list]
    /\ lapsed' = lapsed \cup {HistoryKey(a)}
    /\ UNCHANGED <<coreVars, latest, blocks, txIndex, pieces, balanceAt, nonceAt, shelfVars,
                   pc, loopVars, dataVars, mishaps>>

Crash ==
    /\ Fault
    /\ mishaps' = mishaps \cup {"crash"}
    /\ pc' = "poll"
    /\ UNCHANGED <<coreVars, latest, indexVars, shelfVars, loopVars, dataVars, lapsed>>

SyncStep ==
    \/ PollIdle \/ Poll \/ PollReadFails \/ FetchFails \/ Fetch \/ FetchGarbled
    \/ PutBlock \/ PutShelf \/ GetIdentity \/ IdentityReadFails \/ PutReward
    \/ NextTx \/ PutHistory \/ HistoryReadFails \/ GetAccount \/ AccountFails
    \/ PutBalance \/ PutNonce \/ PutTx \/ PutPiece \/ ExecuteNative \/ Commit
    \/ PutFails \/ Panic

Next ==
    \/ SyncStep
    \/ Grow
    \/ \E m \in Miners : MapValidator(m)
    \/ \E asset \in shelf : Sell(asset)
    \/ \E a \in Visitors, height \in 0 .. coreHeight : StoreBalance(a, height)
    \/ \E a \in Visitors, list \in Answers : StoreHistory(a, list)
    \/ Crash

Spec == Init /\ [][Next]_vars

\* The goroutine runs until it returns.
FairSpec == Spec /\ WF_vars(SyncStep)

-----------------------------------------------------------------------------
(* Properties *)

\* Every variable keeps its shape; a history that only the crawler wrote, and
\* never blindly, keeps its limit.
TypeOK ==
    /\ coreHeight \in LegacyHeight .. Len(Chain)
    /\ mapped \subseteq Miners
    /\ latest \in 0 .. Len(Chain)
    /\ blocks \subseteq 1 .. Len(Chain)
    /\ history \in [Addrs -> Seq(TxIds)]
    /\ \A a \in Addrs : HistoryKey(a) \in lapsed \/ Len(history[a]) <= HistoryCap
    /\ balanceAt \in [Addrs -> 0 .. Len(Chain)]
    /\ nonceAt \in [Addrs -> 0 .. Len(Chain)]
    /\ txIndex \subseteq TxIds
    /\ pieces \in [PieceKeys -> Assets \cup {"amount", NoValue}]
    /\ shelf \subseteq 1 .. Len(Chain)
    /\ rewards \subseteq 1 .. Len(Chain)
    /\ pc \in Steps
    /\ target \in 0 .. Len(Chain)
    /\ h \in 0 .. Len(Chain) + 1
    /\ i \in Nat
    /\ got \in [txs : Nat, hash : BOOLEAN, miner : BOOLEAN]
    /\ answer \in 0 .. Len(Chain)
    /\ sold \subseteq 1 .. Len(Chain)
    /\ faults \in 0 .. MaxFaults
    /\ mishaps \subseteq {"crash", "oldHeight", "heightLost"}

\* The blocks this index answers for.
Committed == LegacyHeight + 1 .. latest

\* What the crawler derives from transaction t is in the store, but for the
\* keys whose own write went wrong.  A crawler that was thrown back to an old
\* height may be about to write the asset of a purchase again.
Listed(t) == t.id \in txIndex \/ TxKey(t) \in lapsed
PaidOut(t) == t.paid => pieces[<<t.to, t.id>>] # NoValue \/ PaidKey(t) \in lapsed
Delivered(t) ==
    t.to = MarketAddress /\ t.idOK => \/ pieces[<<t.from, t.id>>] = t.asset
                                      \/ AssetKey(t) \in lapsed
                                      \/ "oldHeight" \in mishaps

\* latest_height is written last: whatever crashes, replays and failures came
\* before, a committed block and all its transactions are in the store except
\* for the keys whose own write failed, and a purchase has kept its asset
\* although the same key may hold an amount for a while.
IndexComplete ==
    \A b \in Committed :
        /\ b \in blocks \/ BlockKey(b) \in lapsed
        /\ \A k \in DOMAIN Chain[b].txs :
              LET t == Chain[b].txs[k] IN Listed(t) /\ PaidOut(t) /\ Delivered(t)

\* Unless its last write by the crawler went wrong or a handler wrote the key
\* since, a balance or a nonce is that after the sender's last committed
\* transaction or newer, also when a crash fell between the two Puts.
AccountFresh ==
    \A b \in Committed : \A k \in DOMAIN Chain[b].txs :
        LET a == Chain[b].txs[k].from
        IN  /\ BalanceKey(a) \in lapsed \/ balanceAt[a] >= b
            /\ NonceKey(a) \in lapsed \/ nonceAt[a] >= b

\* The places of the transactions of an address in the committed blocks, and
\* those of them that are newer than place p.
Places == UNION {{b} \X DOMAIN Chain[b].txs : b \in DOMAIN Chain}
TxAt(p) == Chain[p[1]].txs[p[2]]
Own(a) == {p \in Places : p[1] \in Committed /\ a \in {TxAt(p).from, TxAt(p).to}}
Newer(a, p) == {q \in Own(a) : q[1] > p[1] \/ (q[1] = p[1] /\ q[2] > p[2])}

UpToCap(n) == IF n < HistoryCap THEN n ELSE HistoryCap

\* The blocks on which the crawler has begun.
Begun == blocks \cup {b \in DOMAIN Chain : BlockKey(b) \in lapsed}

\* Until the work on the next block begins, a history on which no access of
\* the crawler has failed and that no handler has stored is exactly the newest
\* transactions of its address, newest first and without repeats: one that n
\* newer ones follow is entry n + 1.  That is so although blocks were replayed,
\* and the limit may have pushed out entries of the replayed block.
HistoryExact ==
    mishaps \subseteq {"crash"} /\ Begun \subseteq Committed =>
        \A a \in Addrs : HistoryKey(a) \notin lapsed =>
            /\ Len(history[a]) = UpToCap(Cardinality(Own(a)))
            /\ \A p \in Own(a) :
                  LET n == Cardinality(Newer(a, p))
                  IN  n < HistoryCap => history[a][n + 1] = TxAt(p).id

\* While no crash and no lost height makes the crawler repeat a block, an asset
\* that was bought does not come back to the shelf: no other failure of a call
\* or a write does.
SoldStaysSold == mishaps = {} => shelf \cap sold = {}

\* The height the crawler starts from grows one block at a time.  It falls back
\* only after a failed read of it, and jumps only after that or over blocks
\* whose height could not be saved.
NeverSkips ==
    [][/\ LocalHeight' < LocalHeight => "oldHeight" \in mishaps
       /\ LocalHeight' > LocalHeight + 1 =>
             mishaps \cap {"oldHeight", "heightLost"} # {}]_vars

\* A block the crawler cannot get past: a slice or an index panics at every
\* replay.
Blocking(b) ==
    \/ \E k \in DOMAIN Chain[b].txs :
          LET t == Chain[b].txs[k] IN t.paid /\ ~(t.idOK /\ t.toOK)
    \/ /\ b % ShelfEvery = 0
       /\ ~Chain[b].hashOK \/ Chain[b].miner \in mapped \cap (ShortNames \cup ShortAliases)

\* Whatever fails, the crawler gets again and again to the Core's height, or to
\* the block before one that it cannot get past, unless the guard ends it.
CatchesUp ==
    []<>(\/ LocalHeight = coreHeight
         \/ pc = "stopped" /\ h >= SentinelFrom
         \/ Blocking(LocalHeight + 1))

=============================================================================
