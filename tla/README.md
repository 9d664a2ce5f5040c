# BVM Nexus in TLA+

BVM Nexus (`src/`) is a gateway in front of an L1 node, "the Core". It keeps an
index of the Core's chain in a LevelDB store, accepts L2 transactions over HTTP
and relays them to the Core in batches, and runs a small economy (coin pieces
called UTXOs, a market of assets, a swap vault, a bridge) on the same store.
One process, many goroutines: the HTTP handlers run concurrently with each
other and with the background loops, and the only lock that spans more than one
store call is the mempool's.

## 1. Inventory

| Component | State | Operations | Interacts with |
|---|---|---|---|
| L2 mempool, `pkg/mempool/engine.go` | `queue` (memory, mutex) | `AddL2`, `Add`, `Flush` | reads the identity registry, written by handlers, drained by the relayer |
| Relayer, `pkg/mempool/relayer.go` | the batch of the current turn (memory) | sleep, flush, post, requeue | mempool, Core `/api/mempool/batch` |
| State sync, `pkg/state/sync.go` | `latest_height`, blocks, history, nonces, balances, tx index, market shelf, rewards (store) | one turn per block, about ten store writes each | Core, VM, every reader of the store |
| Native VM, `pkg/vm/engine.go` | UTXO keys (store) | `PURCHASE_ASSET` | called by state sync |
| UTXO ledger, `pkg/utxo`, `pkg/rpc/utxo_handler.go` | `utxo:` pieces, `index:utxo:` lists (store) | verify, spend, consolidate, transfer | mempool, identity registry |
| Market, `pkg/rpc/market_handler.go` | `market:` shelf, `utxo:` assets, `user:assets:` lists (store) | list, buy, inventory, repair | state sync fills the shelf, Core is paid |
| Swap vault, `pkg/rpc/dex_handler.go` | `s:` balance cache (store) | swap, add and remove liquidity | mempool, wallet metadata, state sync writes the same keys |
| Bridge, `pkg/rpc/bridge_handler.go` | `bridge_processed:` marks (store) | mint | Core `/api/send` |
| Identity, `pkg/rpc/wallet_handler.go` | `id:` keys (store) | create wallet, resolve, metadata | mempool, UTXO ledger, market, sync |
| Query handlers, `pkg/rpc/handlers.go`, `stats.go` | `h:` and `s:` caches (store), mining statistics (memory, partly locked) | history, state, hash reports | state sync writes the same keys |
| Peers, `pkg/p2p/bootstrap.go` | `peers.json` (file) | bootstrap, save, clean | one goroutine per known peer and the cleaner, no lock |
| Snapshot, `pkg/snapshot` | the archive file | create every 1000 blocks, download | state sync, HTTP |
| Proxies, renderer, discovery, CLI, key generator | none | | Core |

### What is hard here

* No transaction spans two store calls. A handler that reads, decides and
  writes interleaves with every other handler, and a crash may come between
  any two of its writes.
* The Core answers late, partly, or not at all; posts are retried without an id
  by which the Core could recognise a repeat.
* State sync replays the block it was working on after a restart: every write
  of its body must bear being done twice, and those that undo what a handler
  did in between do not.
* The same keys are written by several components in different shapes.


### What makes each component correct

* **Mempool and relayer**: an accepted transaction reaches the Core in order
  and once as long as nothing fails; every failure accounts for at most one
  repeat; a transaction is forgotten only for a named reason; the recipient that
  was resolved at acceptance is the one the Core sees; nothing is retried for
  ever.
* **State sync and VM**: a committed block is in the store with everything that
  is derived from it, but for keys whose own write went wrong, whatever crashes
  and replays came before; the height grows one block at a time, falls only when
  a read of it fails, and jumps only then or over heights that could not be saved;
  a history on which no access failed and that no handler stored is exact up to
  its limit; an account is as fresh as its last committed transaction until a
  write of it fails or a handler writes it; the crawler catches up, but for blocks
  at which it panics or that the guard rejects.
* **UTXO ledger**: no spend loses a coin, and a crash only what a transfer carried
  between its two store calls; beyond that the owners together lose no more than
  the fees; undisturbed requests are payments at one stroke. A verdict of
  `VerifyTransaction` is that of natural-number arithmetic, within stated limits.
* **Bridge**: a mark stands for released coins; coins are released once per
  transfer, but for overlap and faults.
* **Market and identity**: what a list names is stored; an owner finds what was
  bought or repaired, under either address; a listing is paid for once, but for
  overlap and faults; a sold asset stays off the shelf until it is listed again.
* **Swap vault**: no account ever shows more than the Core reported of it, and
  the vault no more than was reported and credited; a debit is cut short
  only for a named reason; undisturbed swaps happen at one stroke.
* **History cache**: lists never mix wallets, and a transaction that the crawler
  entered is lost to the limit of a list, an older answer of the Core or a copied
  list only.
* **Peers**: no address is listed twice; a record stays until it expires, but for
  overlapping writers and a crash in the middle of a write; then it leaves.
* **Snapshot**: a download is one whole archive of one version of the database,
  unless it met a writer or the last writer was disturbed.
* **Mining statistics**: the dashboard is empty only while a report of no
  duration, or next to none, is younger than a minute, and its count of miners is
  one that was true.

## 2. Plan

The order follows the weight of a component for what the gateway promises: what
users submit first, then the index they read, then what they own.

| Step | Modules | Composition and abstract specification | State |
|---|---|---|---|
| 1 | `NexusMempool`, `Relayer` | mempool + registry + relayer + Core; implements `Outbox` | checked; safety and refinement proved |
| 2 | `StateSync` | crawler + VM + shelf + Core + the handlers that write its keys | checked; all safety proved |
| 3 | `WordSums`, `UtxoLedger`, `UtxoRules` | spends + transfers over one store; implements `CoinLedger` | checked; safety, refinement and rules proved |
| 4 | `Bridge` | handler + Core | checked, invariants proved |
| 5 | `Identity`, `Market` | buyers + repairs + crawler + wallets | checked, invariants proved |
| 6 | `BalanceCache` | swaps + look-ups + crawler + wallets; implements `SwapBook` | checked; invariants and refinement proved |
| 7 | `HistoryCache` | the handler's read-ask-write over the lists that the crawler writes, with the copies under other names, over `Identity` | checked, invariants proved |
| 8 | `Archive` | crawler and downloads over one archive file that lies in the directory it archives | checked, invariants proved |
| 9 | `MiningStats` | reports under the lock and the read of the map past it; a rate over a duration of zero or next to it | checked, proved |
| 10 | `Peers` | goroutines that read, change and write one file | checked, invariants proved |

Every safety property and every refinement that a run checks is also a theorem;
what the prover cannot reach is named at the end of section 5.

## 3. The modules and the code

In all modules one store call, one call of the Core and one turn of a loop are
one action, because nothing in the code makes two of them atomic. The exception
is the mempool, whose mutex makes each of its methods one step. A crash is an
action; what the store holds survives it, what a goroutine holds does not.
Definitions whose comment starts with "Faulty variant" are not part of any
specification: they are the mistakes against which the properties are tested.

**Errors of the store** are modelled in `StateSync` and `Bridge`, each read and
write of which may fail. The other modules assume that a store call of a process
that goes on succeeds; their code ignores most of these errors, and what a failed
call then loses is not covered by their properties.

**`NexusMempool`** (`pkg/mempool/engine.go`). `queue` is `m.Queue`; `identity`
is the set of `id:` keys as `AddL2` reads it. `AddL2` is the method with its
limit and its look-up of recipients that start with `@` or `0x`; `Flush` and
`CreateWallet` are the others.

**`Relayer`** (`pkg/mempool/relayer.go`) extends it with the goroutine:
`StartPost` is `Flush`, `CoreTakes`/`ReplyOK`/`ReplyFails` the post,
`Requeue`/`RequeueDone` the loop over the failed batch. `Submit` stands for the
three handlers that call `AddL2`. The Core may take any prefix of a batch and
then fail, take all of it and have its answer lost, or answer 200.
**`Outbox`** is the promise: a held transaction, the count of its copies, the
count of failures.

**`StateSync`** (`pkg/state/sync.go`, `pkg/vm/engine.go`). One action per Put of
`StartBatchSync`, named after what it writes, with `pc` as the place in the loop,
`h` and `i` its counters, `target` the height that the poll saw. A balance or
nonce is modelled by the Core's height at which it was read, which is all that
freshness depends on: `GetAccount` reads it, `PutBalance` and `PutNonce` store it.
The errors that the crawler drops are actions: `PutFails` is a failing write,
whichever is at hand (that of `PURCHASE_ASSET`, which is only logged, among them);
`PollReadFails` a failing read of `latest_height`, which counts as a missing key;
`HistoryReadFails` and `IdentityReadFails` the other two reads; `FetchGarbled` a
msgpack conversion that leaves a part of the block (`got`). The history variable
`lapsed` has the keys that lack what the crawler had for them, until it next
writes them well; `mishaps` names what has made the crawler go back or jump.
`StoreBalance` and `StoreHistory` are the handlers that write keys of the crawler
(their writes count towards the bound `MaxFaults`); what they store is anything a
handler could hold, and `BalanceCache` and `HistoryCache` have them in full.
`Sell` is the `Delete` at the end of a sale, `MapValidator` the identity that the
reward looks for. `Panic` is the death of the process where the code slices a
short id, recipient, validator's address or alias, or takes the first character of
an empty hash (`After`, `GetIdentity`): it restarts at the same block. An alias
comes from the wallet library and would have to be shorter than ten characters for
the last slice to panic; nothing in `src/` says that it is not.

**`UtxoLedger`** (`pkg/rpc/utxo_handler.go`, `pkg/utxo/engine.go`, `store.go`).
`store` holds the pieces, `index` the `index:utxo:` lists as counts. A spend is
`StartSpend` (the scan of `SpendUTXO`), `MintTo`, `MintChange`, `RemoveInput` per
input, `Report`; a transfer is `StartTransfer`, `Take`, `Save` and the four calls
of `UpdateUTXOIndex`. The order of the scan is arbitrary. Sums wrap at `Word`; the
sum itself is the number of units that its terms have (`Total`, in
**`WordSums`**), so that facts about sums are facts about the sizes of finite
sets. `Genesis` is any finite set of well-formed pieces of different coins. The
bare amounts and names that the crawler and the VM store under `utxo:` are no such
pieces: the scan skips what does not parse, and they are modelled where they are
written. The record that `TransferAssetToUser` stores there
(`market_handler.go:91-99`) does parse, into a piece without id, owner or amount.
Such a nameless piece counts for nothing, and the key under which it is removed
again is not its own; a spend may begin with it (an empty list of inputs in
`SpendUTXO`) and a transfer may find it (the second disjunct of `StartTransfer`).
`CutOff` and `lost` are what a transfer carried that a crash cut off between its
two store calls: it is in nobody's hands. **`CoinLedger`** is one number per
owner. **`UtxoRules`** has the pure functions `VerifyTransaction` and
`ConsolidateUTXOs`, which no handler calls. The loops of the code wrap at every
addition and the model once, at the end (`WordSum`); `MCUtxoRules` has TLC compare
the two. A wallet is one scan of an address, whose keys end in the id and index of
a piece, and so has no piece twice.

**`Bridge`** (`pkg/rpc/bridge_handler.go`). `Pass`/`ReadFails`/`Refuse` are the
look-up, `CoreTakes`/`CoreRefuses`/`AnswerArrives`/`AnswerLost` the post,
`Mark`/`MarkFails` the Put. An order of a process that has died may still arrive.

**`Identity`** (`pkg/rpc/wallet_handler.go`) is the registry as market and cache
read it, with all the names of a wallet; `NexusMempool` has the part of it that
`AddL2` reads. **`Market`** (`pkg/rpc/market_handler.go`): a purchase is
`Look`, `Pay`, `Resolve`, `PutItem`, `GetIds`, `PutIds`, `Unlist`; a repair is
`StartRepair`, `Fetch` and, per purchase it was told of, `Recover` and the same
steps from `Resolve` on, since both call `TransferAssetToUser`. `List` and
`Purchase` are what `StateSync` does to the same keys. `Visible` is what
`HandleGetInventory` collects.

**`BalanceCache`** (`pkg/rpc/dex_handler.go`, `wallet_handler.go`, `handlers.go`).
`cell` is an `s:` key with the shape of its value: handlers store a record, the
crawler a bare number, and a reader that expects a record takes anything else for
zero. `ReadMeta`/`Ask`/`Answered`/`PutMeta` are `BuildWalletMetadata` and
`HandleGetState`; `ReadFrom` to `PutVault` are the two calls of `UpdateL2Balance`.
The nonce is left out: where it decides whether the Core is asked, both ways are
possible. An answer of the Core without a balance counts for zero, and for
`HandleGetState` for what it has read (`Told`); the vault's own key may be a
sender too, and a name of no wallet stands for any unknown string. Amounts are
naturals, because what passes the check is at most a balance. `Passes` is the
check that the three handlers begin with. **`SwapBook`** is one number per
account; `Book` adds to the vault what is debited and not yet credited, and `Calm`
names the steps that do not get in each other's way.

**`HistoryCache`** (`pkg/rpc/handlers.go`, `pkg/state/sync.go`). A request is
`Start` (one look-up of the name), `Read`, `Ask`, `Put` and `PutCopy`, the last
when the name stood for another; the crawler is `CrawlGet` and `CrawlPut` per
party and `Commit`. The Core answers with what it has mined for the very name it
is asked for. `StateSync` has the crawler's order of writes and of entries; here
a block has one transaction and a list is a set. The limit is kept (`Kept`), but
which entries are the last of a list is left open, since a list that came from
the Core has the Core's order.

**`Peers`** (`pkg/p2p/bootstrap.go`, `cmd/nexusd/main.go`). `Boot` is
`AutoBootstrap`, `Load` the read and the check of `savePeerToNexus`, `Clean`
those of `CleanInactivePeers`; `Truncate` and `Write` are the two halves of
`os.WriteFile`. A write behind another writer's may leave a tail, which does not
parse. Nothing ever refreshes `LastSeen`: a peer leaves three days after it was
saved, however alive it is, and comes back at a later start only if its goroutine
had read the file before. Peers found by mDNS are plain addresses, which are
greeted and not saved; `HandleRegisterPeer` and `HandleUpdatePeers` store nothing.
The names of this module and of `MiningStats` carry the component (`PeersNext`,
`StatsOK`), so that one module can extend both.

**`Archive`** (`pkg/snapshot`, `MonitorArchive`). `Create` truncates and lists,
`CopyTables` and `CopyManifest` are the walk (a table is what was listed, the
manifest what is current), `CopyFails` its early returns, `Close` the deferred
trailers; a file that went after its header leaves the archive without the tar
trailer (`"cut"`). The archive sorts last in its own directory and is copied into itself,
up to the size in its header, which is part of `Close`. `Open` fixes the size
that a download announces; `Serve` reads what the file has at that place by then.

**`MiningStats`** (`pkg/rpc/stats.go`, `handlers.go`). `Enter` and `Report` are
the two halves of `UpdateStat` under the lock; `GetGlobalHashrate` waits for the
lock, `CountMiners` does not, and Go does not say which of them comes first. Of a
hashrate the model keeps whether it is a number and whether it is too large to be
added up: a division by zero or by next to nothing may make it either
(`Quotients`, `Overflows`).

## 4. The runs

| Run | Bounds | What it shows |
|---|---|---|
| `relayer` | 3 transactions, queue of 2, 1 wallet and 1 alias, 2 failures | order, repeats, loss and resolution under every interleaving; retries end; `Outbox` is implemented |
| `sync` | 3 blocks over an older height key, 5 transactions, history of 2, shelf every 3rd block, a short id, recipient and alias, 2 faults or writes of handlers | what is committed is there but for the accesses that went wrong; which histories and accounts are right; a bought asset stays off the shelf; the height skips nothing and catches up |
| `utxo` | 3 requests over 2 pieces and nameless ones, words of 3 bits, 1 crash | what may be lost and what may not; `CoinLedger` is implemented until requests share a piece |
| `utxo_rules` | wallets of 3 pieces, 2 inputs, 2 outputs, words of 3 bits | verdicts against sets and naturals |
| `bridge` | 4 reports of 2 transfers, 2 faults | released once, but for overlap and faults |
| `bridge_twice` | 3 reports of 1 transfer, no fault | overlapping reports release twice |
| `market` | 2 requests, 2 assets listed twice, 2 names of a wallet, 1 fault | delivery, visibility, one payment per listing, complete repairs |
| `cache` | 2 requests by one wallet, under either address, or by the vault; 2 changes in the Core, 1 crash | bounds of the cached balances; `SwapBook` is implemented by undisturbed requests |
| `history` | 2 requests, 4 blocks, 2 wallets with a common alias, lists of 2, 1 crash | lists never mix wallets; what the limit and a request may take |
| `peers` | 3 addresses, 2 of them multiaddresses, 4 days, 1 crash | records stay three days and no longer |
| `archive` | 2 downloads, 1 archive of the crawler, 1 compaction, 1 crash | what spoils a download |
| `stats` | 2 miners, 1 dashboard, 2 minutes in halves | what an empty dashboard and its count can come from |

Why the bounds suffice: what is at stake are races of two requests over one key, a
third actor that changes the same key in between, and a fault at any point; each
passing run has room for one of each. The queue of two is filled again behind a
batch of two; the second failure falls on a batch that has been put back once. A
history of two is overrun within one block, so that a replay meets a list from
which its own entries were cut, and two faults let it fail again there. The
handlers write the keys of the address that both later blocks name. Of the panics,
that of a short alias stops the crawler for good once the validator is mapped,
that of an empty hash comes with a garbled block, and that of a short recipient
when a failed read throws the crawler back to the first block; an id is short only
where nothing is paid and nothing may panic. Three bits are enough for amount plus
fee to wrap while the pieces do not. Two listings let an asset return while a slow
buyer is at work. Requests differ in nothing but their names, so that permuting
them (the `SYMMETRY` of the configurations) is sound; the action properties of
these runs mention no name either, and no liveness is checked under symmetry. Runs
whose requests are served once end there and switch off the deadlock check, and so
does `peers`, which ends with the clock; `relayer`, `sync` and `stats` go on for
ever and keep it on. The clock of `peers` runs one day past the lifetime, so that
a record that is a day younger than the oldest expires too; that of `stats` two
windows, so that a miner is counted, dropped and counted again.

The violation (`bridge_twice`) is a statement of the repository's own comments that the code
does not keep; `PROJECT.json` quotes it under "findings".

**Fairness.** `WF(RelayerStep)`, `WF(SyncStep)` and `WF(CleanerStep)`: all are
`for` loops in a goroutine that nothing stops, and Go schedules every goroutine
that can run. It is an assumption that each call of the Core ends, with an answer
or an error: the code sets no timeout. Nothing is assumed of handlers, the Core's
growth, faults or crashes, but that faults are bounded in a behaviour: a Core that
refuses for ever delays for ever, in the code too.

## 5. The proofs

Proved for all values of the constants that satisfy the named assumptions, any
number of requests, blocks, transactions and faults:

* **`RelayerProofs`**: `TypeCorrect` (in it that the requeue loop keeps the limit
  of the queue) from `TypeOK` alone, which is inductive. `FaultFreeOrder` needs
  `LoopInv`, which ties the place in the loop to the batch: a batch is left over
  only in a post or a requeue, and a requeue only happens after a failure. Two
  lemmas about `SubSeq` say that what the Core took and what it did not make up
  the batch. `RecipientKept` calls a transaction genuine if it comes from an accepted
  one by looking its recipient up (`Comes`); all that is queued, in the batch or
  at the Core is genuine (`OriginInv`), and a second look-up keeps it so.
  `LossHasCause` goes step by step. `ImplementsOutbox` maps every step to one of
  `Outbox` or a stutter, given `PromiseInv`: what is held has distinct ids, and an id
  that still waits has at most one copy at the Core per failure so far; the copies
  are counted with the library's facts on finite sets.
* **`StateSyncProofs`**: `TypeCorrect` with `CrawlInv` (unless a read or a write
  of the height has failed, the block at work is the one after the saved height).
  `HeightByOne` follows, as only the commit changes the height. For the next two
  theorems `WorkInv` says of every transaction before the counter, and of the one
  at work up to the program counter, that each of its keys is written or in
  `lapsed`. `CommittedIsComplete` takes from it what the transaction has left;
  what was committed is only overwritten with the same, which needs `UniqueIds`,
  that transactions differ in the 16 characters of the id that name a piece. After
  a failed read of the height the crawler goes through committed blocks again, and
  a purchase's key holds an amount for a while: `Delivered` excepts that case.
  `AccountsCoverBlocks` takes that the answer at hand is as new as the block at
  work. `BoughtIsGone` needs that without a crash or a lost height no asset is put
  on the shelf twice (`ShelvedBefore`). `HistoriesAreExact` numbers the
  transactions of an address in the order of the chain (`RankOf`), for addresses
  whose history no failed access and no handler has touched, and for behaviours in
  which no height was lost; `HistoryExact` says of the entries what their numbers
  are, so that nothing has to be computed by recursion. Between two commits a
  history has one of two forms (`HistoryInv`). It is straight: its entries have
  consecutive numbers, up to where the current pass or an earlier one has come. Or
  it is broken: an earlier pass came so far that the limit cut entries of this
  block, the replay enters them again on top, and below them lie those of the
  earlier pass. The last entries of the replay push the latter out, so that the
  history is straight when the block is committed.
* **`UtxoLedgerProofs`**: `TypeCorrect` with `StageInv` (what a request has picked
  and still has to remove at each stage). `NoCoinVanishes` adds `NothingVanishes`
  itself: pieces leave the store only by a spend whose outputs are minted, or into
  the hands of a transfer, and a minted output is stored in the step that mints
  it. `OwnersNeverPoorer` follows from it: every coin has one face value, which
  all its pieces show (`HoldInv`), and a spend has found the total it reckons
  with, so that the minted coins are worth at most what is stored, carried, cut
  off with a transfer, or given for what was minted. `ImplementsLedger` shows that
  in calm times a coin has one piece at most and that requests have no piece in
  common that they will remove (`Tidy`). Then the step that finds the pieces is a
  payment of `CoinLedger`, and every other step moves an amount from what a
  request has promised an owner to what lies free for him. `VerdictsAreExact` maps
  each position of the inputs to the one piece that it names: when no input is
  listed twice this is a bijection onto the pieces that are destroyed, so that the
  two sums are equal, and the wallet's bound keeps both sides from wrapping.
  `ConsolidationsAreValid` needs no bound for the verdict, since both sides wrap
  in the same way. The lemmas about sums (a union, a renaming, a cover, two terms
  each, one term that changes) come from the library's facts on bijections and
  cardinalities.
* **`BridgeProofs`**: `TypeCorrect`, `MarksAreTrue`, `AtMostOnce` and `Final` from
  one invariant. `StageInv` says that a request past the Core's answer has
  released, and that one that ended left a mark or a fault; `AloneInv` that two
  live reports of a transfer have raced, and that a live report of a marked
  transfer has raced or met a fault.
* **`MarketProofs`**: `TypeCorrect` with `StageInv` (what a request has chosen at
  each stage: a repair looked at no listing, a buyer's listing is not a later one
  than the asset has). `ListedStored` needs that what is on its way into a list is
  stored under the address of that list (`ListInv`). `SoldStaysOff` is inductive
  given `StageInv`: only a listing puts an asset back, and it counts one more than
  any buyer can have read. `OwnerFindsAll` needs that the registry always pairs the
  two addresses of a wallet or has neither (`Paired`), so that what handler and
  inventory look up in opposite directions lies in one set of addresses, and for
  every request that what it is done with is visible (`Sees`). `OnePayment` needs
  that an unspoilt asset has one live buyer, who has paid or has not (`SaleInv`).
* **`BalanceCacheProofs`**: `TypeCorrect`. `BalancesBacked` bounds not only what a
  key holds but what a request has read or was told and is about to write
  (`HeldBacked`).
  `CutsHaveCause` needs what an undisturbed swap may count on at each stage: that
  its sender has the amount, and that what it read is still so (`Counted`); a swap
  under a plain name was checked against the key that it debits (`PlainKey`).
  `ImplementsBook` shows from the same invariant that a calm debit is a swap of
  `SwapBook`, a calm credit changes nothing in the book, and a calm write of the
  crawler or of a look-up takes over a balance of the Core.
* **`HistoryCacheProofs`**: `TypeCorrect` needs that the registry leads from a
  name of a wallet only to names of the same wallet (`IdInv`, kept by every
  creation), and hence that a request's key and its query belong together
  (`QueryInv`). `EntriesKept` calls a list safe for a name if it has all that the
  crawler has entered for it, but for what may be overwritten and what the limit
  cuts: the store is, and so is what the crawler and the requests are about to
  store (`KeepInv`).
* **`NodeProofs`** has the three small components. *Peers*: `PeersTypes`;
  `RecordsStay` from the invariant that without a clash there is one writer, that
  what it holds has every record in force, and that what it has truncated is blank
  until it writes (`KeepInv`). `BootInv` says that no bootstrap goroutine is at
  work before `AutoBootstrap`, so that a start takes no writer's place. *Archive*:
  `ArchiveTypes` with `PlaceInv` (where a writer is in the file). For
  `BadDownloadsHaveCause`, a writing that nobody has disturbed has one writer, who
  has written what the current version of the database has (`WriteInv`), and a
  download without an excuse reads a sound archive that nobody writes (`ReadInv`).
  *Mining statistics*: `Backed` from three facts: a hashrate that is no number or
  too large stems from the last report of its miner (`ReportInv`), a sum that was
  empty was taken within the window of such a report (`SumInv`), and the set of
  known miners only grows while a dashboard counts it (`SizeInv`).

Three things came to light in proving. The definition of `After` in `BalanceCache` was a
CASE whose guards overlapped, of which TLC took the first and the language any; it
is stated with `Passes` now. And the history variables of that module were sets
of requests whose amounts had to be summed; `debited` and `credited` are totals
now, which say the same and can be reasoned about. And the verdict of
`VerifyTransaction` is exact only for a wallet without repeated pieces: it takes
the first match, while the set of destroyed pieces has all of them. The keys of
the store see to that (`store.go:19-22`), and `RulesAssumption` names it.

Only model-checked: liveness (`EventuallySettled`, `CatchesUp`, `InactiveLeaves`),
which is out of the prover's reach, and that a sum which wraps at every addition
is the sum that wraps once (`WrapsOnce`, for up to three words), which is an
induction over the words.

## 6. Disagreements that have no run

Met while modelling, and visible in the models as behaviour:

* `relayer.go:25` says that a batch is put back "so that it is not lost"; the loop
  ignores the answer of `AddL2`, which refuses a transaction when handlers have
  filled the queue meanwhile (`Requeue`; `NoSilentLoss` names this loss).
* `market_handler.go:247` and `:258` announce that a repair stores only what is
  not recorded yet; the key that is looked up at `:257` hashes the clock, so that
  everything is stored again (`Recover`).
* `dex_handler.go:29` and `:36` check and then move a balance; for a 0x address
  the check is about the resolved account and the debit about the record of the
  0x address itself, which stops at zero (`ReadMeta`, `ReadFrom`).
* `stats.go:46` counts the miners of the last minute only; `active_miners`
  (`handlers.go:692`) counts every miner that ever reported (`CountMiners`).

* `sync.go:123` slices the id of a transaction before the VM's length check
  (`vm/engine.go:42`) is reached, so that the check protects nothing for a paid
  purchase (`Panic`).
* `utxo_handler.go:186` calls "Atomic Swap" what is a Delete and then a Put
  (`Take`, `Save`).
* `utxo/engine.go:29` announces the law of conservation; an input that is listed
  twice counts twice, and sums wrap. `VerdictExact` states the verdict with both.
* `market_handler.go:84` says "always bvmf"; the look-up of a native address
  gives its 0x form back (`ResolveToBVM`). `:142` reads a `user:` key that
  nothing writes.
* `market_handler.go:178` and `:183` look for the amounts and names that the
  crawler and the VM store under `utxo:`, which do not parse and are passed over;
  the records that the market itself stores there parse into empty pieces.
* `wallet_handler.go:119` says that its key is in step with `sync.go`, which
  stores a bare number there (`Crawl`).
* `main.go:138-139` reports on another address than `DexVaultAddr`.

## 7. What is not modelled

Proxies, look-ups, status pages and the renderer change no state; a request to the
Core through the proxy that takes more than 15 seconds is answered with 502
whatever becomes of it. The archive of a height is written after the height is
saved (`sync.go:155`), so that a crash may skip it for a thousand blocks: no
promise of the code says how recent an archive is. The DHT, the boot node and
message encryption are calls of libraries. Game items and ownership signatures
have no caller. The key generator is a one-shot script. Left out of modelled
components: requests that are refused before they change anything; the wording of
answers and logs; the missing timeouts of HTTP calls (fairness assumes their end);
reorganisations of the Core's chain, which the crawler never looks for; ids taken
from the clock, which are assumed distinct; the store's errors outside `StateSync`
and `Bridge`, such as a failing Put behind a balance or a write of `peers.json`
that fails once the file is truncated; the sign of an amount of 2^63 and more when
it is passed on as `int64`.
