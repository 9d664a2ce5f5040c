-------------------------- MODULE StateSyncProofs --------------------------
(***************************************************************************)
(* Proofs about the crawler, for every chain of the Core, every placement  *)
(* of crashes, failed calls and failed writes, every other writer of its   *)
(* keys, and every height an older version left.                           *)
(***************************************************************************)
EXTENDS StateSync, SequenceTheorems, FiniteSetTheorems, TLAPS

USE SyncAssumption

-----------------------------------------------------------------------------
(* The loop *)

Working == Steps \ {"poll", "panic", "stopped"}
InBlock == Working \ {"fetch", "block"}
InLoop  == InBlock \ {"shelf", "identity", "crate"}
InTx    == InLoop \ {"tx", "commit"}
Puts    == Working \ {"fetch", "identity", "tx", "account"}

Lost == {"oldHeight", "heightLost"}

\* The crawler works on a transaction of a block that the Core has.  Unless it
\* was thrown back the block is beyond the saved height, and unless a height
\* was lost it is the next one.
CrawlInv ==
    /\ LocalHeight <= coreHeight
    /\ "oldHeight" \notin mishaps /\ latest # 0 => latest > LegacyHeight
    /\ pc \in Working => h > 0 /\ h <= target /\ target <= coreHeight
    /\ pc \in Working /\ "oldHeight" \notin mishaps => h > LocalHeight
    /\ pc \in Working /\ mishaps \cap Lost = {} => h <= LocalHeight + 1
    /\ pc \in Working \ {"fetch"} => got.txs <= Len(Txs)
    /\ pc \in InBlock => i > 0
    /\ pc \in {"shelf", "identity", "crate"} => i = 1
    /\ pc \in InTx => i <= got.txs
    /\ pc = "commit" => i > got.txs

\* What of TypeOK the control of the crawler needs, and the rest.
ControlOK ==
    /\ coreHeight \in LegacyHeight .. Len(Chain)
    /\ latest \in 0 .. Len(Chain)
    /\ pc \in Steps
    /\ target \in 0 .. Len(Chain)
    /\ h \in 0 .. Len(Chain) + 1
    /\ i \in Nat
    /\ got \in [txs : Nat, hash : BOOLEAN, miner : BOOLEAN]
    /\ answer \in 0 .. Len(Chain)

DataOK ==
    /\ mapped \subseteq Miners
    /\ blocks \subseteq 1 .. Len(Chain)
    /\ history \in [Addrs -> Seq(TxIds)]
    /\ \A a \in Addrs : HistoryKey(a) \in lapsed \/ Len(history[a]) <= HistoryCap
    /\ balanceAt \in [Addrs -> 0 .. Len(Chain)]
    /\ nonceAt \in [Addrs -> 0 .. Len(Chain)]
    /\ txIndex \subseteq TxIds
    /\ pieces \in [PieceKeys -> Assets \cup {"amount", NoValue}]
    /\ shelf \subseteq 1 .. Len(Chain)
    /\ rewards \subseteq 1 .. Len(Chain)
    /\ sold \subseteq 1 .. Len(Chain)
    /\ faults \in 0 .. MaxFaults
    /\ mishaps \subseteq {"crash", "oldHeight", "heightLost"}

LEMMA TypeParts == TypeOK <=> ControlOK /\ DataOK
  BY DEF TypeOK, ControlOK, DataOK

\* The blocks of the chain and their transactions have their types.
LEMMA ChainTypes ==
  /\ Len(Chain) \in Nat /\ DOMAIN Chain = 1 .. Len(Chain)
  /\ \A b \in 1 .. Len(Chain) :
        /\ Chain[b] \in Block
        /\ Len(Chain[b].txs) \in Nat
        /\ DOMAIN Chain[b].txs = 1 .. Len(Chain[b].txs)
        /\ \A k \in 1 .. Len(Chain[b].txs) : Chain[b].txs[k] \in Tx
<1>1. Len(Chain) \in Nat /\ DOMAIN Chain = 1 .. Len(Chain)
  BY LenProperties
<1>2. ASSUME NEW b \in 1 .. Len(Chain)
      PROVE  /\ Chain[b] \in Block
             /\ Len(Chain[b].txs) \in Nat
             /\ DOMAIN Chain[b].txs = 1 .. Len(Chain[b].txs)
             /\ \A k \in 1 .. Len(Chain[b].txs) : Chain[b].txs[k] \in Tx
  <2>1. Chain[b] \in Block
    BY ElementOfSeq
  <2>2. Chain[b].txs \in Seq(Tx)
    BY <2>1 DEF Block
  <2> QED BY <2>1, <2>2, LenProperties, ElementOfSeq
<1> QED BY <1>1, <1>2

\* An update of a history keeps it a history of at most HistoryCap entries.
LEMMA RememberType ==
  ASSUME NEW hist \in Seq(TxIds), Len(hist) <= HistoryCap, NEW id \in TxIds
  PROVE  Remember(hist, id) \in Seq(TxIds) /\ Len(Remember(hist, id)) <= HistoryCap
<1> DEFINE longer == <<id>> \o hist
<1>1. longer \in Seq(TxIds) /\ Len(longer) \in Nat
  BY ConcatProperties, LenProperties
<1>2. CASE Has(hist, id)
  BY <1>2 DEF Remember
<1>3. CASE ~Has(hist, id) /\ Len(longer) > HistoryCap
  <2>1. \A j \in 1 .. HistoryCap : longer[j] \in TxIds
    BY <1>1, <1>3, ElementOfSeq
  <2> HIDE DEF longer
  <2>2. SubSeq(longer, 1, HistoryCap) \in Seq(TxIds)
        /\ Len(SubSeq(longer, 1, HistoryCap)) = HistoryCap
    BY <2>1, SubSeqProperties
  <2> USE DEF longer
  <2> QED BY <1>3, <2>2 DEF Remember
<1>4. CASE ~Has(hist, id) /\ ~(Len(longer) > HistoryCap)
  BY <1>1, <1>4 DEF Remember
<1> QED BY <1>2, <1>3, <1>4

LEMMA RememberSeq ==
  ASSUME NEW hist \in Seq(TxIds), NEW id \in TxIds
  PROVE  Remember(hist, id) \in Seq(TxIds)
<1> DEFINE longer == <<id>> \o hist
<1>1. longer \in Seq(TxIds) /\ Len(longer) \in Nat
  BY ConcatProperties, LenProperties
<1>2. Len(longer) > HistoryCap => SubSeq(longer, 1, HistoryCap) \in Seq(TxIds)
  <2>1. Len(longer) > HistoryCap => \A j \in 1 .. HistoryCap : longer[j] \in TxIds
    BY <1>1, ElementOfSeq
  <2> HIDE DEF longer
  <2> QED BY <2>1, SubSeqProperties
<1> QED BY <1>1, <1>2 DEF Remember

LEMMA CrawlInit == Init => TypeOK /\ CrawlInv
<1> SUFFICES ASSUME Init PROVE TypeOK /\ CrawlInv
  OBVIOUS
<1>1. ControlOK
  BY ChainTypes DEF Init, ControlOK, Steps
<1>2. DataOK
  <2>1. history \in [Addrs -> Seq(TxIds)] /\ \A a \in Addrs : Len(history[a]) <= HistoryCap
    BY EmptySeq DEF Init
  <2>2. pieces \in [PieceKeys -> Assets \cup {"amount", NoValue}]
    BY DEF Init
  <2>3. balanceAt \in [Addrs -> 0 .. Len(Chain)] /\ nonceAt \in [Addrs -> 0 .. Len(Chain)]
    BY ChainTypes DEF Init
  <2> QED BY <2>1, <2>2, <2>3, ChainTypes DEF Init, DataOK
<1>3. CrawlInv
  BY ChainTypes DEF Init, CrawlInv, LocalHeight, Working, InBlock, InLoop, InTx
<1> QED BY <1>1, <1>2, <1>3, TypeParts

\* What the crawler reads while it works on a transaction has its type.
LEMMA CurrentTx ==
  ASSUME ControlOK, CrawlInv, pc \in Working
  PROVE  /\ h \in 1 .. Len(Chain)
         /\ Len(Txs) \in Nat /\ DOMAIN Txs = 1 .. Len(Txs)
         /\ Chain[h] \in Block
         /\ \A k \in DOMAIN Txs : Txs[k] \in Tx
         /\ pc \in InTx => i \in DOMAIN Txs /\ tx \in Tx /\ Owner \in Addrs
<1>1. h \in 1 .. Len(Chain)
  BY ChainTypes DEF CrawlInv, ControlOK
<1>2. pc \in InTx => i \in 1 .. Len(Txs)
  <2>1. i \in Nat /\ got.txs \in Nat /\ Len(Txs) \in Nat
    BY <1>1, ChainTypes DEF ControlOK, Txs
  <2> QED BY <2>1 DEF CrawlInv, InTx, InLoop, InBlock
<1>3. pc \in InTx => tx \in Tx
  BY <1>1, <1>2, ChainTypes DEF Txs, tx
<1> QED BY <1>1, <1>2, <1>3, ChainTypes DEF Txs, Owner, Tx

\* The way on from each Put.
LEMMA Way ==
  ASSUME GoOn
  PROVE  /\ UNCHANGED <<coreHeight, mapped, target, got, answer>>
         /\ pc = "block" => /\ i' = 1 /\ h' = h /\ pc' \in {"tx", "shelf", "panic"}
         /\ pc = "shelf" => i' = i /\ h' = h /\ pc' = "identity"
         /\ pc = "crate" => i' = i /\ h' = h /\ pc' \in {"tx", "panic"}
         /\ pc = "histFrom" => i' = i /\ h' = h /\ pc' = "histTo"
         /\ pc = "histTo" => i' = i /\ h' = h /\ pc' = "account"
         /\ pc = "balance" => i' = i /\ h' = h /\ pc' = "nonce"
         /\ pc = "nonce" => i' = i /\ h' = h /\ pc' = "txIndex"
         /\ pc = "txIndex" => /\ i' = i /\ h' = h /\ pc' \in {"vm", "piece", "panic"}
                              /\ pc' = "vm" => ~tx.paid
         /\ pc = "piece" => i' = i /\ h' = h /\ pc' \in {"vm", "panic"}
         /\ pc = "vm" => i' = i + 1 /\ h' = h /\ pc' = "tx"
         /\ pc = "commit" => /\ i' = i /\ h' = h + 1
                             /\ pc' = IF h < target THEN "fetch" ELSE "poll"
  BY DEF GoOn, After, coreVars, dataVars

\* A Put of the block leaves the crawler in good order.
LEMMA PutCrawl ==
  ASSUME ControlOK, CrawlInv, GoOn, pc \in Puts \ {"commit"}, UNCHANGED <<latest, mishaps>>
  PROVE  ControlOK' /\ CrawlInv'
<1>1. /\ pc \in Working /\ h' = h /\ Txs' = Txs /\ LocalHeight' = LocalHeight
      /\ UNCHANGED <<coreHeight, target, got, answer>>
  BY Way DEF Puts, Working, Steps, Txs, LocalHeight
<1>2. i' \in Nat /\ i' > 0 /\ pc' \in Steps /\ pc' \notin {"fetch", "block", "commit"}
      /\ (pc' \in {"shelf", "identity", "crate"} => i' = 1)
      /\ (pc' \in InTx => pc \in InTx /\ i' = i)
  BY Way DEF ControlOK, CrawlInv, Puts, InTx, InLoop, InBlock, Working, Steps
<1>3. ControlOK'
  BY <1>1, <1>2 DEF ControlOK
<1>4. CrawlInv'
  BY <1>1, <1>2 DEF CrawlInv, ControlOK, Working, InBlock, InLoop, InTx, Steps, Puts
<1> QED BY <1>3, <1>4

\* So does the end of the block, whether its height is saved or lost.
LEMMA CommitCrawl ==
  ASSUME ControlOK, CrawlInv, GoOn, pc = "commit", mishaps \subseteq mishaps',
         \/ latest' = h
         \/ latest' = latest /\ "heightLost" \in mishaps'
  PROVE  ControlOK' /\ CrawlInv'
<1>1. /\ h \in 1 .. Len(Chain) /\ pc \in Working /\ h <= target /\ target <= coreHeight
      /\ h' = h + 1 /\ i' = i /\ UNCHANGED <<coreHeight, target, got, answer>>
      /\ pc' = IF h < target THEN "fetch" ELSE "poll"
  BY Way, CurrentTx DEF Working, Steps, CrawlInv
<1>2. ControlOK'
  BY <1>1 DEF ControlOK, Steps
<1>3. LocalHeight \in Nat /\ LocalHeight' \in Nat /\ coreHeight \in Nat /\ target \in Nat
      /\ h \in Nat
  BY <1>1, <1>2, ChainTypes DEF ControlOK, LocalHeight
<1>4. \/ LocalHeight' = h
      \/ LocalHeight' = LocalHeight /\ "heightLost" \in mishaps'
  <2>1. h # 0
    BY <1>1, ChainTypes
  <2>2. latest' = h => LocalHeight' = h
    BY <2>1 DEF LocalHeight
  <2>3. latest' = latest => LocalHeight' = LocalHeight
    BY DEF LocalHeight
  <2> QED BY <2>2, <2>3
<1>5. "oldHeight" \notin mishaps' => LocalHeight < h
  BY <1>1 DEF CrawlInv
<1>6. LocalHeight' <= coreHeight'
  BY <1>1, <1>3, <1>4 DEF CrawlInv
<1>7. "oldHeight" \notin mishaps' /\ latest' # 0 => latest' > LegacyHeight
  <2>1. LocalHeight >= LegacyHeight \/ "oldHeight" \in mishaps'
    BY <1>3, ChainTypes DEF LocalHeight, CrawlInv, ControlOK
  <2> QED BY <1>3, <1>4, <1>5, <2>1, ChainTypes DEF CrawlInv, ControlOK
<1>8. "oldHeight" \notin mishaps' => h' > LocalHeight'
  BY <1>1, <1>3, <1>4, <1>5
<1>9. mishaps' \cap Lost = {} => h' <= LocalHeight' + 1
  <2>1. LocalHeight' = h => h' <= LocalHeight' + 1
    BY <1>1, <1>3
  <2>2. "heightLost" \in mishaps' => mishaps' \cap Lost # {}
    BY DEF Lost
  <2> QED BY <1>4, <2>1, <2>2
<1>10. pc' \in Working => h' > 0 /\ h' <= target' /\ target' <= coreHeight'
  BY <1>1, <1>3 DEF Working
<1>11. /\ pc' \notin InBlock /\ pc' \notin InTx /\ pc' \notin Working \ {"fetch"}
       /\ pc' \notin {"shelf", "identity", "crate", "commit"}
  BY <1>1 DEF InTx, InLoop, InBlock, Working
<1> QED BY <1>2, <1>6, <1>7, <1>8, <1>9, <1>10, <1>11 DEF CrawlInv

\* Steps that leave the height and the place of the crawler alone.
LEMMA StayCrawl ==
  ASSUME ControlOK, CrawlInv, UNCHANGED <<latest, h, i, target, got>>,
         coreHeight' \in coreHeight .. Len(Chain), answer' \in 0 .. Len(Chain),
         mishaps \subseteq mishaps', pc' \in Steps,
         \/ pc' = pc
         \/ pc' \in {"poll", "panic", "stopped"}
         \/ pc = "identity" /\ pc' \in {"crate", "tx"}
         \/ pc = "tx" /\ i <= got.txs /\ pc' = "histFrom"
         \/ pc = "tx" /\ i > got.txs /\ pc' = "commit"
         \/ pc = "account" /\ pc' \in {"balance", "txIndex"}
  PROVE  ControlOK' /\ CrawlInv'
<1>1. coreHeight \in Nat /\ coreHeight' \in Nat /\ target \in Nat /\ LocalHeight \in Nat
      /\ coreHeight' >= coreHeight /\ LocalHeight' = LocalHeight /\ Txs' = Txs
  BY ChainTypes DEF ControlOK, LocalHeight, Txs
<1>2. ControlOK'
  BY <1>1, ChainTypes DEF ControlOK
<1>3. /\ pc' \in Working => pc \in Working
      /\ pc' \in Working \ {"fetch"} => pc \in Working \ {"fetch"}
      /\ pc' \in InBlock => pc \in InBlock
      /\ pc' \in {"shelf", "identity", "crate"} => pc \in {"shelf", "identity", "crate"}
      /\ pc' \in InTx => pc \in InTx \/ i <= got.txs
      /\ pc' = "commit" => pc = "commit" \/ i > got.txs
  BY DEF InTx, InLoop, InBlock, Working, Steps
<1>4. LocalHeight' <= coreHeight' /\ (pc' \in Working => target' <= coreHeight')
  BY <1>1, <1>3 DEF CrawlInv
<1> QED BY <1>1, <1>2, <1>3, <1>4 DEF CrawlInv

\* The histories, where the crawler writes one.
LEMMA HistoryType ==
  ASSUME DataOK, ControlOK, CrawlInv, pc \in {"histFrom", "histTo"},
         lapsed \subseteq lapsed',
         \/ history' = [history EXCEPT ![Owner] = Remember(@, tx.id)]
         \/ history' = [history EXCEPT ![Owner] = Remember(<<>>, tx.id)]
  PROVE  /\ history' \in [Addrs -> Seq(TxIds)]
         /\ \A a \in Addrs : HistoryKey(a) \in lapsed' \/ Len(history'[a]) <= HistoryCap
<1>1. Owner \in Addrs /\ tx.id \in TxIds
  BY CurrentTx DEF InTx, InLoop, InBlock, Working, Steps, Tx
<1>2. history \in [Addrs -> Seq(TxIds)] /\ history[Owner] \in Seq(TxIds)
  BY <1>1 DEF DataOK
<1>3. CASE history' = [history EXCEPT ![Owner] = Remember(@, tx.id)]
  <2>1. Remember(history[Owner], tx.id) \in Seq(TxIds)
    BY <1>1, <1>2, RememberSeq
  <2>2. HistoryKey(Owner) \in lapsed \/ Len(Remember(history[Owner], tx.id)) <= HistoryCap
    BY <1>1, <1>2, RememberType DEF DataOK
  <2>3. \A a \in Addrs :
           history'[a] = IF a = Owner THEN Remember(history[Owner], tx.id) ELSE history[a]
    BY <1>2, <1>3
  <2> QED BY <1>2, <1>3, <2>1, <2>2, <2>3 DEF DataOK
<1>4. CASE history' = [history EXCEPT ![Owner] = Remember(<<>>, tx.id)]
  <2>1. Remember(<<>>, tx.id) \in Seq(TxIds) /\ Len(Remember(<<>>, tx.id)) <= HistoryCap
    <3>1. <<>> \in Seq(TxIds) /\ Len(<<>>) <= HistoryCap
      BY EmptySeq
    <3> QED BY <1>1, <3>1, RememberType
  <2>2. \A a \in Addrs :
           history'[a] = IF a = Owner THEN Remember(<<>>, tx.id) ELSE history[a]
    BY <1>2, <1>4
  <2> QED BY <1>2, <1>4, <2>1, <2>2 DEF DataOK
<1> QED BY <1>3, <1>4

LEMMA CrawlStep == TypeOK /\ CrawlInv /\ [Next]_vars => TypeOK' /\ CrawlInv'
<1> SUFFICES ASSUME ControlOK, DataOK, CrawlInv, [Next]_vars
             PROVE  ControlOK' /\ CrawlInv' /\ DataOK'
  BY DEF TypeOK, ControlOK, DataOK
<1> USE DEF coreVars, indexVars, shelfVars, loopVars, dataVars
\* Steps of the control, and of the world outside, that write no key.
<1>q. ASSUME UNCHANGED <<indexVars, shelf, rewards, sold>>, mapped' \subseteq Miners,
             lapsed \subseteq lapsed', faults' \in 0 .. MaxFaults,
             mishaps' \subseteq {"crash", "oldHeight", "heightLost"}
      PROVE  DataOK'
  BY <1>q DEF DataOK
<1>f. Fault => faults' \in 0 .. MaxFaults
  BY DEF Fault, DataOK
<1>m. mapped \subseteq Miners /\ faults \in 0 .. MaxFaults
      /\ mishaps \subseteq {"crash", "oldHeight", "heightLost"} /\ answer \in 0 .. Len(Chain)
      /\ coreHeight \in 0 .. Len(Chain) /\ coreHeight \in coreHeight .. Len(Chain)
      /\ pc \in Steps /\ LocalHeight \in 0 .. Len(Chain)
  BY ChainTypes DEF DataOK, ControlOK, LocalHeight
<1>1. CASE PollIdle \/ UNCHANGED vars
  <2>1. UNCHANGED vars
    BY <1>1 DEF PollIdle
  <2> QED BY <1>m, <1>q, <2>1, StayCrawl DEF vars
<1>2. CASE Poll \/ PollReadFails
  <2>1. PICK height \in {LocalHeight, LegacyHeight, 0} :
           /\ StartFrom(height)
           /\ height # LocalHeight => mishaps' = mishaps \cup {"oldHeight"}
           /\ height = LocalHeight => UNCHANGED mishaps
           /\ faults' \in 0 .. MaxFaults
    BY <1>2, <1>f, <1>m DEF Poll, PollReadFails
  <2>2. DataOK'
    BY <1>m, <1>q, <2>1 DEF StartFrom
  <2>3. ControlOK' /\ CrawlInv'
    <3>1. height \in 0 .. Len(Chain) /\ height < coreHeight /\ pc' = "fetch"
          /\ target' = coreHeight /\ h' = height + 1
          /\ UNCHANGED <<coreHeight, latest, i, got, answer>>
      BY <1>m, <2>1, ChainTypes DEF StartFrom
    <3>2. ControlOK'
      BY <1>m, <3>1, ChainTypes DEF ControlOK, Steps
    <3>3. LocalHeight' = LocalHeight
      BY <3>1 DEF LocalHeight
    <3>4. height # LocalHeight => "oldHeight" \in mishaps'
      BY <2>1
    <3>5. mishaps \subseteq mishaps'
      BY <2>1
    <3>6. pc' \notin InBlock /\ pc' \notin InTx /\ pc' \notin Working \ {"fetch"}
          /\ pc' \notin {"shelf", "identity", "crate", "commit"}
      BY <3>1 DEF InTx, InLoop, InBlock, Working
    <3>7. "oldHeight" \notin mishaps' => h' = LocalHeight' + 1
      BY <3>1, <3>3, <3>4
    <3>8. h' > 0 /\ h' <= target' /\ target' <= coreHeight' /\ LocalHeight' <= coreHeight'
      BY <1>m, <3>1, <3>3 DEF CrawlInv
    <3>9. "oldHeight" \notin mishaps' /\ latest' # 0 => latest' > LegacyHeight
      BY <3>1, <3>5 DEF CrawlInv
    <3>10. "oldHeight" \notin mishaps' => h' > LocalHeight' /\ h' <= LocalHeight' + 1
      BY <1>m, <3>3, <3>7
    <3> QED BY <3>2, <3>6, <3>8, <3>9, <3>10 DEF CrawlInv, Lost
  <2> QED BY <2>2, <2>3
<1>3. CASE FetchFails \/ IdentityReadFails \/ GetIdentity \/ NextTx
  <2>1. /\ UNCHANGED <<coreHeight, latest, mapped, indexVars, shelfVars, loopVars, dataVars,
                       lapsed, mishaps>>
        /\ faults' \in 0 .. MaxFaults
    BY <1>3, <1>f, <1>m DEF FetchFails, IdentityReadFails, GetIdentity, NextTx
  <2>2. /\ pc' \in Steps
        /\ \/ pc' \in {"poll", "panic", "stopped"}
           \/ pc = "identity" /\ pc' \in {"crate", "tx"}
           \/ pc = "tx" /\ i <= got.txs /\ pc' = "histFrom"
           \/ pc = "tx" /\ i > got.txs /\ pc' = "commit"
    BY <1>3 DEF FetchFails, IdentityReadFails, GetIdentity, NextTx, Steps, ControlOK
  <2>3. DataOK'
    BY <1>m, <1>q, <2>1
  <2> QED BY <1>m, <2>1, <2>2, <2>3, StayCrawl
<1>4. CASE Fetch \/ FetchGarbled
  <2>1. /\ Fetched /\ got' \in Parts(h) \cup {Whole(h)} /\ lapsed \subseteq lapsed'
        /\ faults' \in 0 .. MaxFaults
    BY <1>4, <1>f, <1>m DEF Fetch, FetchGarbled
  <2>2. DataOK'
    BY <1>m, <1>q, <2>1 DEF Fetched
  <2>3. h \in 1 .. Len(Chain) /\ Chain[h] \in Block /\ Len(Txs) \in Nat /\ pc = "fetch"
    BY <2>1, CurrentTx DEF Fetched, Working, Steps
  <2>4. got'.txs \in 0 .. Len(Txs) /\ got' \in [txs : Nat, hash : BOOLEAN, miner : BOOLEAN]
    <3>1. Chain[h].hashOK \in BOOLEAN /\ Chain[h].txs = Txs /\ Len(Txs) \in 0 .. Len(Txs)
      BY <2>3 DEF Block, Txs
    <3>2. Whole(h) \in Parts(h)
      BY <3>1 DEF Whole, Parts
    <3>3. got' \in [txs : 0 .. Len(Txs), hash : BOOLEAN, miner : BOOLEAN]
      BY <2>1, <3>1, <3>2 DEF Parts
    <3> QED BY <2>3, <3>3
  <2>5. ControlOK'
    BY <2>1, <2>4 DEF Fetched, ControlOK, Steps
  <2>6. /\ pc' \in {"block", "stopped"} /\ LocalHeight' = LocalHeight /\ Txs' = Txs
        /\ UNCHANGED <<coreHeight, latest, mishaps, target, h, i>>
    BY <2>1 DEF Fetched, LocalHeight, Txs
  <2>7. CrawlInv'
    BY <2>3, <2>4, <2>6 DEF CrawlInv, InTx, InLoop, InBlock, Working, Steps
  <2> QED BY <2>2, <2>5, <2>7
<1>g. GoOn /\ pc \in Puts \ {"commit"} /\ UNCHANGED <<latest, mishaps>>
        => ControlOK' /\ CrawlInv'
  BY PutCrawl
<1>h. pc \in Working => h \in 1 .. Len(Chain)
  BY CurrentTx
<1>t. pc \in InTx => tx \in Tx
  BY CurrentTx DEF InTx, InLoop, InBlock
<1>5. CASE PutBlock
  <2>1. /\ pc = "block" /\ GoOn /\ blocks' \in {blocks \cup {h}, blocks \ {h}}
        /\ UNCHANGED <<mapped, latest, history, txIndex, pieces, balanceAt, nonceAt, shelfVars,
                       faults, mishaps>>
        /\ lapsed' \in {lapsed, lapsed \ {BlockKey(h)}}
    BY <1>5, Way DEF PutBlock, Stored
  <2>2. \A a \in Addrs : HistoryKey(a) # BlockKey(h)
    BY DEF HistoryKey, BlockKey
  <2>3. DataOK'
    BY <1>h, <2>1, <2>2 DEF DataOK, Working, Steps
  <2> QED BY <1>g, <2>1, <2>3 DEF Puts, Working, Steps
<1>6. CASE PutShelf \/ PutReward
  <2>1. /\ pc \in {"shelf", "crate"} /\ GoOn
        /\ shelf' \in {shelf, shelf \cup {h}} /\ rewards' \in {rewards, rewards \cup {h}}
        /\ UNCHANGED <<mapped, latest, indexVars, sold, lapsed, faults, mishaps>>
    BY <1>6, Way DEF PutShelf, PutReward
  <2>2. DataOK'
    BY <1>h, <2>1 DEF DataOK, Working, Steps
  <2> QED BY <1>g, <2>1, <2>2 DEF Puts, Working, Steps
<1>7. CASE PutHistory \/ HistoryReadFails
  <2>1. /\ pc \in {"histFrom", "histTo"} /\ GoOn /\ lapsed \subseteq lapsed'
        /\ faults' \in 0 .. MaxFaults
        /\ UNCHANGED <<mapped, latest, blocks, txIndex, pieces, balanceAt, nonceAt, shelfVars,
                       mishaps>>
        /\ \/ history' = [history EXCEPT ![Owner] = Remember(@, tx.id)]
           \/ history' = [history EXCEPT ![Owner] = Remember(<<>>, tx.id)]
    BY <1>7, <1>f, <1>m, Way DEF PutHistory, HistoryReadFails
  <2>2. /\ history' \in [Addrs -> Seq(TxIds)]
        /\ \A a \in Addrs : HistoryKey(a) \in lapsed' \/ Len(history'[a]) <= HistoryCap
    BY <2>1, HistoryType
  <2>3. DataOK'
    BY <2>1, <2>2 DEF DataOK
  <2> QED BY <1>g, <2>1, <2>3 DEF Puts, Working, Steps
<1>8. CASE GetAccount \/ AccountFails
  <2>1. /\ pc = "account" /\ pc' \in {"balance", "txIndex"} /\ answer' \in {answer, coreHeight}
        /\ lapsed \subseteq lapsed' /\ faults' \in 0 .. MaxFaults
        /\ UNCHANGED <<coreHeight, latest, mapped, indexVars, shelfVars, loopVars, got, mishaps>>
    BY <1>8, <1>f, <1>m DEF GetAccount, AccountFails
  <2>2. DataOK'
    BY <1>m, <1>q, <2>1
  <2> QED BY <1>m, <2>1, <2>2, StayCrawl DEF Steps
<1>9. CASE PutBalance \/ PutNonce
  <2>1. /\ pc \in {"balance", "nonce"} /\ GoOn
        /\ balanceAt' \in {balanceAt, [balanceAt EXCEPT ![tx.from] = answer]}
        /\ nonceAt' \in {nonceAt, [nonceAt EXCEPT ![tx.from] = answer]}
        /\ lapsed' \in {lapsed \ {BalanceKey(tx.from)}, lapsed \ {NonceKey(tx.from)}}
        /\ UNCHANGED <<mapped, latest, blocks, history, txIndex, pieces, shelfVars, faults,
                       mishaps>>
    BY <1>9, Way DEF PutBalance, PutNonce, Stored
  <2>2. \A a \in Addrs : HistoryKey(a) # BalanceKey(tx.from) /\ HistoryKey(a) # NonceKey(tx.from)
    BY DEF HistoryKey, BalanceKey, NonceKey
  <2>3. balanceAt' \in [Addrs -> 0 .. Len(Chain)] /\ nonceAt' \in [Addrs -> 0 .. Len(Chain)]
    <3>1. [balanceAt EXCEPT ![tx.from] = answer] \in [Addrs -> 0 .. Len(Chain)]
      BY <1>m DEF DataOK
    <3>2. [nonceAt EXCEPT ![tx.from] = answer] \in [Addrs -> 0 .. Len(Chain)]
      BY <1>m DEF DataOK
    <3>3. balanceAt \in [Addrs -> 0 .. Len(Chain)] /\ nonceAt \in [Addrs -> 0 .. Len(Chain)]
      BY DEF DataOK
    <3>4. balanceAt' \in [Addrs -> 0 .. Len(Chain)]
      BY <2>1, <3>1, <3>3
    <3> QED BY <2>1, <3>2, <3>3, <3>4
  <2>4. DataOK'
    BY <2>1, <2>2, <2>3 DEF DataOK
  <2> QED BY <1>g, <2>1, <2>4 DEF Puts, Working, Steps
<1>10. CASE PutTx
  <2>1. /\ pc = "txIndex" /\ GoOn /\ txIndex' = txIndex \cup {tx.id}
        /\ lapsed' = lapsed \ {TxKey(tx)}
        /\ UNCHANGED <<mapped, latest, blocks, history, pieces, balanceAt, nonceAt, shelfVars,
                       faults, mishaps>>
    BY <1>10, Way DEF PutTx, Stored
  <2>2. tx.id \in TxIds
    BY <1>t, <2>1 DEF InTx, InLoop, InBlock, Working, Steps, Tx
  <2>3. \A a \in Addrs : HistoryKey(a) # TxKey(tx)
    BY DEF HistoryKey, TxKey
  <2>4. DataOK'
    BY <2>1, <2>2, <2>3 DEF DataOK
  <2> QED BY <1>g, <2>1, <2>4 DEF Puts, Working, Steps
<1>11. CASE PutPiece \/ ExecuteNative
  <2>1. /\ pc \in {"piece", "vm"} /\ GoOn
        /\ \/ pieces' = pieces
           \/ pieces' = [pieces EXCEPT ![<<tx.to, tx.id>>] = "amount"]
           \/ pieces' = [pieces EXCEPT ![<<tx.from, PieceId(tx)>>] = tx.asset]
        /\ lapsed' \in {lapsed, lapsed \ {PaidKey(tx)}, lapsed \ {AssetKey(tx)}}
        /\ UNCHANGED <<mapped, latest, blocks, history, txIndex, balanceAt, nonceAt, shelfVars,
                       faults, mishaps>>
    BY <1>11, Way DEF PutPiece, ExecuteNative, Stored
  <2>2. tx.asset \in Assets
    BY <1>t, <2>1 DEF InTx, InLoop, InBlock, Working, Steps, Tx
  <2>3. pieces' \in [PieceKeys -> Assets \cup {"amount", NoValue}]
    BY <2>1, <2>2 DEF DataOK
  <2>4. \A a \in Addrs : HistoryKey(a) # PaidKey(tx) /\ HistoryKey(a) # AssetKey(tx)
    BY DEF HistoryKey, PaidKey, AssetKey
  <2>5. DataOK'
    BY <2>1, <2>3, <2>4 DEF DataOK
  <2> QED BY <1>g, <2>1, <2>5 DEF Puts, Working, Steps
<1>12. CASE Commit
  <2>1. /\ pc = "commit" /\ GoOn /\ latest' = h
        /\ UNCHANGED <<mapped, indexVars, shelfVars, lapsed, faults, mishaps>>
    BY <1>12, Way DEF Commit
  <2>2. DataOK'
    BY <1>m, <1>q, <2>1
  <2> QED BY <2>1, <2>2, CommitCrawl
<1>13. CASE PutFails
  <2>1. /\ pc \in Puts /\ GoOn /\ lapsed \subseteq lapsed' /\ faults' \in 0 .. MaxFaults
        /\ mishaps' = IF pc = "commit" THEN mishaps \cup {"heightLost"} ELSE mishaps
        /\ UNCHANGED <<mapped, latest, indexVars, shelfVars>>
    BY <1>13, <1>f, Way DEF PutFails, Puts, Working
  <2>2. DataOK'
    BY <1>m, <1>q, <2>1
  <2>3. CASE pc = "commit"
    BY <2>1, <2>2, <2>3, CommitCrawl
  <2>4. CASE pc # "commit"
    BY <1>g, <2>1, <2>2, <2>4
  <2> QED BY <2>3, <2>4
<1>14. CASE Panic \/ Crash
  <2>1. /\ pc' = "poll" /\ mishaps' = mishaps \cup {"crash"} /\ faults' \in 0 .. MaxFaults
        /\ UNCHANGED <<coreHeight, mapped, latest, indexVars, shelfVars, loopVars, dataVars,
                       lapsed>>
    BY <1>14, <1>f, <1>m DEF Panic, Crash
  <2>2. DataOK'
    BY <1>m, <1>q, <2>1
  <2> QED BY <1>m, <2>1, <2>2, StayCrawl DEF Steps
<1>15. CASE Grow \/ \E m \in Miners : MapValidator(m)
  <2>1. /\ UNCHANGED <<latest, indexVars, shelfVars, pc, loopVars, dataVars, lapsed, faults,
                       mishaps>>
        /\ mapped' \subseteq Miners /\ coreHeight' \in coreHeight .. Len(Chain)
    BY <1>15, <1>m, ChainTypes DEF Grow, MapValidator
  <2>2. DataOK'
    BY <1>m, <1>q, <2>1
  <2> QED BY <1>m, <2>1, <2>2, StayCrawl
<1>16. CASE \/ \E asset \in shelf : Sell(asset)
            \/ \E a \in Visitors, height \in 0 .. coreHeight : StoreBalance(a, height)
            \/ \E a \in Visitors, list \in Answers : StoreHistory(a, list)
  <2>1. UNCHANGED <<coreHeight, mapped, latest, pc, loopVars, dataVars, mishaps>>
    BY <1>16 DEF Sell, StoreBalance, StoreHistory
  <2>2. ASSUME NEW asset \in shelf, Sell(asset) PROVE DataOK'
    <3>1. asset \in 1 .. Len(Chain)
      BY DEF DataOK
    <3>2. shelf' \subseteq 1 .. Len(Chain) /\ sold' \subseteq 1 .. Len(Chain)
      BY <2>2, <3>1 DEF Sell, DataOK
    <3> QED BY <2>2, <3>2 DEF Sell, DataOK
  <2>3. ASSUME NEW a \in Visitors, NEW height \in 0 .. coreHeight, StoreBalance(a, height)
        PROVE  DataOK'
    <3>1. height \in 0 .. Len(Chain) /\ a \in Addrs
      BY <1>m
    <3>2. balanceAt' \in [Addrs -> 0 .. Len(Chain)]
      BY <2>3, <3>1 DEF StoreBalance, DataOK
    <3> QED BY <1>f, <2>3, <3>2 DEF StoreBalance, DataOK
  <2>4. ASSUME NEW a \in Visitors, NEW list \in Answers, StoreHistory(a, list) PROVE DataOK'
    <3>1. list \in Seq(TxIds) /\ a \in Addrs
      OBVIOUS
    <3>2. /\ history' \in [Addrs -> Seq(TxIds)] /\ lapsed' = lapsed \cup {HistoryKey(a)}
          /\ \A b \in Addrs : b # a => history'[b] = history[b]
      BY <2>4, <3>1 DEF StoreHistory, DataOK
    <3>3. \A b \in Addrs : HistoryKey(b) \in lapsed' \/ Len(history'[b]) <= HistoryCap
      BY <3>2 DEF DataOK
    <3> QED BY <1>f, <2>4, <3>2, <3>3 DEF StoreHistory, DataOK
  <2> QED BY <1>m, <1>16, <2>1, <2>2, <2>3, <2>4, StayCrawl
<1> QED
  BY <1>1, <1>2, <1>3, <1>4, <1>5, <1>6, <1>7, <1>8, <1>9, <1>10, <1>11, <1>12, <1>13,
     <1>14, <1>15, <1>16
  DEF Next, SyncStep

\* Type correctness of the crawler; no history that it alone wrote exceeds its
\* limit.
THEOREM TypeCorrect == Spec => []TypeOK
  BY CrawlInit, CrawlStep, PTL DEF Spec

\* Only Commit writes latest_height.
LEMMA LatestFrame ==
  ASSUME [Next]_vars, ~Commit PROVE latest' = latest
  BY DEF Next, SyncStep, vars, PollIdle, Poll, PollReadFails, StartFrom, FetchFails, Fetch,
         FetchGarbled, Fetched, PutBlock, PutShelf, GetIdentity, IdentityReadFails,
         PutReward, NextTx, PutHistory, HistoryReadFails, GetAccount, AccountFails,
         PutBalance, PutNonce, PutTx, PutPiece, ExecuteNative, PutFails, Panic, Grow,
         MapValidator, Sell, StoreBalance, StoreHistory, Crash

\* Whatever fails, the saved height grows by one block at a time; it falls only
\* after a failed read of it, and jumps only after that or over blocks whose
\* height was lost.
THEOREM HeightByOne == Spec => NeverSkips
<1> DEFINE Move == /\ LocalHeight' < LocalHeight => "oldHeight" \in mishaps
                   /\ LocalHeight' > LocalHeight + 1 =>
                         mishaps \cap {"oldHeight", "heightLost"} # {}
<1>1. ASSUME TypeOK, CrawlInv, [Next]_vars PROVE Move
  <2>1. LocalHeight \in Nat /\ ControlOK
    BY <1>1, TypeParts, ChainTypes DEF ControlOK, LocalHeight
  <2>2. CASE ~Commit
    <3>1. latest' = latest
      BY <1>1, <2>2, LatestFrame
    <3>2. LocalHeight' = LocalHeight
      BY <3>1 DEF LocalHeight
    <3> QED BY <2>1, <3>2
  <2>3. CASE Commit
    <3>1. latest' = h /\ pc \in Working /\ h \in Nat /\ h > 0
      BY <1>1, <2>1, <2>3, CurrentTx, ChainTypes DEF Commit, Working, Steps
    <3>2. LocalHeight' = h
      BY <3>1 DEF LocalHeight
    <3> QED BY <1>1, <2>1, <3>1, <3>2 DEF CrawlInv, Lost
  <2> QED BY <2>2, <2>3
<1>2. TypeOK /\ CrawlInv /\ [Next]_vars => [Move]_vars
  BY <1>1
<1> QED BY <1>2, CrawlInit, CrawlStep, PTL DEF Spec, NeverSkips

-----------------------------------------------------------------------------
(***************************************************************************)
(* What a step can do.  The crawler's way through a block is a table; what *)
(* the store loses, and what stops being lapsed, are a few lines.          *)
(***************************************************************************)
LEMMA Course ==
  ASSUME ControlOK, CrawlInv, [Next]_vars, pc' \in Working
  PROVE  \/ /\ pc = "poll" /\ pc' = "fetch" /\ latest' = latest
            /\ h' \in {LocalHeight + 1, LegacyHeight + 1, 1}
         \/ /\ pc = "commit" /\ pc' = "fetch" /\ h' = h + 1
            /\ \/ Commit /\ latest' = h
               \/ PutFails /\ latest' = latest
         \/ /\ pc = "fetch" /\ pc' = "block" /\ (Fetch \/ FetchGarbled)
            /\ UNCHANGED <<latest, h, i, answer>>
         \/ /\ pc \in Working /\ UNCHANGED <<latest, h, got>>
            /\ \/ UNCHANGED <<pc, i, answer>>
               \/ /\ pc = "block" /\ pc' \in {"shelf", "tx"} /\ i' = 1
                  /\ PutBlock \/ PutFails
               \/ /\ pc \in {"shelf", "identity", "crate"} /\ i' = i
                  /\ pc' \in {"identity", "crate", "tx"}
               \/ pc = "tx" /\ pc' \in {"histFrom", "commit"} /\ i' = i
               \/ /\ pc = "histFrom" /\ pc' = "histTo" /\ i' = i
                  /\ PutHistory \/ HistoryReadFails \/ PutFails
               \/ /\ pc = "histTo" /\ pc' = "account" /\ i' = i
                  /\ PutHistory \/ HistoryReadFails \/ PutFails
               \/ /\ pc = "account" /\ i' = i
                  /\ \/ GetAccount /\ pc' = "balance"
                     \/ AccountFails /\ pc' = "txIndex"
               \/ /\ pc = "balance" /\ pc' = "nonce" /\ UNCHANGED <<i, answer>>
                  /\ PutBalance \/ PutFails
               \/ /\ pc = "nonce" /\ pc' = "txIndex" /\ UNCHANGED <<i, answer>>
                  /\ PutNonce \/ PutFails
               \/ /\ pc = "txIndex" /\ pc' \in {"vm", "piece"} /\ i' = i
                  /\ pc' = "vm" => ~tx.paid
                  /\ PutTx \/ PutFails
               \/ pc = "piece" /\ pc' = "vm" /\ i' = i /\ (PutPiece \/ PutFails)
               \/ /\ pc = "vm" /\ pc' = "tx" /\ i' = i + 1
                  /\ ExecuteNative \/ PutFails
<1> USE DEF loopVars, dataVars, Working, Steps
<1>1. CASE PollIdle \/ UNCHANGED vars
  BY <1>1 DEF PollIdle, vars
<1>2. CASE Poll \/ PollReadFails
  BY <1>2 DEF Poll, PollReadFails, StartFrom
<1>3. CASE FetchFails \/ Panic \/ Crash
  BY <1>3 DEF FetchFails, Panic, Crash
<1>4. CASE Fetch \/ FetchGarbled
  BY <1>4 DEF Fetch, FetchGarbled, Fetched
<1>5. CASE PutBlock
  BY <1>5, Way DEF PutBlock, Stored
<1>6. CASE PutShelf \/ PutReward
  BY <1>6, Way DEF PutShelf, PutReward
<1>7. CASE GetIdentity \/ IdentityReadFails \/ NextTx
  BY <1>7 DEF GetIdentity, IdentityReadFails, NextTx
<1>8. CASE PutHistory \/ HistoryReadFails
  BY <1>8, Way DEF PutHistory, HistoryReadFails
<1>9. CASE GetAccount \/ AccountFails
  BY <1>9 DEF GetAccount, AccountFails
<1>10. CASE PutBalance \/ PutNonce
  BY <1>10, Way DEF PutBalance, PutNonce, Stored
<1>11. CASE PutTx
  BY <1>11, Way DEF PutTx, Stored
<1>12. CASE PutPiece
  BY <1>12, Way DEF PutPiece, Stored
<1>13. CASE ExecuteNative
  BY <1>13, Way DEF ExecuteNative, Stored
<1>14. CASE Commit
  BY <1>14, Way DEF Commit
<1>15. CASE PutFails
  BY <1>15, Way DEF PutFails
<1>16. CASE \/ Grow \/ \E m \in Miners : MapValidator(m)
            \/ \E asset \in shelf : Sell(asset)
            \/ \E a \in Visitors, height \in 0 .. coreHeight : StoreBalance(a, height)
            \/ \E a \in Visitors, list \in Answers : StoreHistory(a, list)
  BY <1>16 DEF Grow, MapValidator, Sell, StoreBalance, StoreHistory
<1> QED
  BY <1>1, <1>2, <1>3, <1>4, <1>5, <1>6, <1>7, <1>8, <1>9, <1>10, <1>11, <1>12, <1>13,
     <1>14, <1>15, <1>16
  DEF Next, SyncStep

\* What is lapsed, has gone wrong or is stored stays so but for a few writes.
LEMMA Keeps ==
  ASSUME [Next]_vars
  PROVE  /\ mishaps \subseteq mishaps'
         /\ PutBlock \/ blocks' = blocks
         /\ PutTx \/ txIndex' = txIndex
         /\ PutPiece \/ ExecuteNative \/ pieces' = pieces
         /\ PutNonce \/ nonceAt' = nonceAt
         /\ \/ lapsed \subseteq lapsed'
            \/ PutBlock \/ PutBalance \/ PutNonce \/ PutTx \/ PutPiece \/ ExecuteNative
<1> USE DEF indexVars
<1>1. CASE PollIdle \/ Poll \/ PollReadFails \/ FetchFails \/ Fetch \/ FetchGarbled
           \/ UNCHANGED vars
  BY <1>1 DEF vars, PollIdle, Poll, PollReadFails, StartFrom, FetchFails, Fetch, FetchGarbled,
              Fetched
<1>2. CASE PutBlock \/ PutBalance \/ PutNonce \/ PutTx \/ PutPiece \/ ExecuteNative
  BY <1>2 DEF PutBlock, PutBalance, PutNonce, PutTx, PutPiece, ExecuteNative, Stored
<1>3. CASE PutShelf \/ GetIdentity \/ IdentityReadFails \/ PutReward \/ NextTx
  BY <1>3 DEF PutShelf, GetIdentity, IdentityReadFails, PutReward, NextTx
<1>4. CASE PutHistory \/ HistoryReadFails \/ GetAccount \/ AccountFails
  BY <1>4 DEF PutHistory, HistoryReadFails, GetAccount, AccountFails
<1>5. CASE Commit \/ PutFails \/ Panic \/ Crash
  BY <1>5 DEF Commit, PutFails, Panic, Crash
<1>6. CASE \/ Grow \/ \E m \in Miners : MapValidator(m)
           \/ \E asset \in shelf : Sell(asset)
           \/ \E a \in Visitors, height \in 0 .. coreHeight : StoreBalance(a, height)
           \/ \E a \in Visitors, list \in Answers : StoreHistory(a, list)
  BY <1>6 DEF Grow, MapValidator, Sell, StoreBalance, StoreHistory
<1> QED BY <1>1, <1>2, <1>3, <1>4, <1>5, <1>6 DEF Next, SyncStep

\* The Puts of the keys by which a property excuses a failure.
LEMMA Lapses ==
  ASSUME [Next]_vars
  PROVE  /\ PutBlock => lapsed' \in {lapsed, lapsed \ {BlockKey(h)}}
         /\ PutBalance => lapsed' = lapsed \ {BalanceKey(tx.from)}
         /\ PutNonce => lapsed' = lapsed \ {NonceKey(tx.from)}
         /\ PutTx => lapsed' = lapsed \ {TxKey(tx)} /\ txIndex' = txIndex \cup {tx.id}
         /\ PutPiece => lapsed' = lapsed \ {PaidKey(tx)}
         /\ ExecuteNative => \/ lapsed' = lapsed /\ pieces' = pieces
                             \/ lapsed' = lapsed \ {AssetKey(tx)}
  BY DEF PutBlock, PutBalance, PutNonce, PutTx, PutPiece, ExecuteNative, Stored

LEMMA PutPlaces ==
  /\ PutBalance \/ PutNonce \/ PutTx \/ PutPiece \/ ExecuteNative => pc \in InTx
  /\ PutPiece => pc = "piece"
  /\ PutBalance => pc = "balance"
  /\ PutNonce => pc = "nonce"
  BY DEF PutBalance, PutNonce, PutTx, PutPiece, ExecuteNative, InTx, InLoop, InBlock, Working,
         Steps

-----------------------------------------------------------------------------
(***************************************************************************)
(* The index and the accounts.  The properties speak of committed blocks   *)
(* only.  That Commit keeps them needs to know what of the current block   *)
(* has been settled, and that no later step unsettles a transaction: the   *)
(* keys of two transactions differ because their ids do, and the account   *)
(* of a sender is never read at a height below its block.                  *)
(***************************************************************************)
BalanceFresh(a, b) == BalanceKey(a) \in lapsed \/ balanceAt[a] >= b
NonceFresh(a, b)   == NonceKey(a) \in lapsed \/ nonceAt[a] >= b

Held(b) == b \in blocks \/ BlockKey(b) \in lapsed

\* Transaction k of block b has all it should have.
Settled(b, k) ==
    LET t == Chain[b].txs[k]
    IN  /\ Listed(t)
        /\ PaidOut(t)
        /\ Delivered(t)
        /\ BalanceFresh(t.from, b)
        /\ NonceFresh(t.from, b)

\* The blocks the crawler is done with: a height that was lost may leave the
\* saved one behind them.
Finished == Committed \cup IF pc \in Working THEN LegacyHeight + 1 .. h - 1 ELSE {}

FinishedInv == \A b \in Finished : Held(b) /\ \A k \in DOMAIN Chain[b].txs : Settled(b, k)

\* Of the block at work all that lies before transaction i is settled, and what
\* the conversion dropped; of transaction i what its steps have come to.
WorkInv ==
    /\ pc \in Working \ {"fetch"} =>
          /\ got # Whole(h) => BlockKey(h) \in lapsed
          /\ \A k \in DOMAIN Txs : k > got.txs => Settled(h, k)
    /\ pc \in InBlock => Held(h)
    /\ pc \in InLoop => \A k \in DOMAIN Txs : k < i => Settled(h, k)
    /\ pc \in {"balance", "nonce"} => answer >= h /\ answer >= latest
    /\ pc = "nonce" => BalanceFresh(tx.from, h)
    /\ pc \in {"txIndex", "piece", "vm"} => BalanceFresh(tx.from, h) /\ NonceFresh(tx.from, h)
    /\ pc \in {"piece", "vm"} => Listed(tx)
    /\ pc = "vm" => PaidOut(tx)

SyncInv == ControlOK /\ DataOK /\ CrawlInv /\ FinishedInv /\ WorkInv

LEMMA HeldStays ==
  ASSUME SyncInv, [Next]_vars, NEW b, Held(b) PROVE Held(b)'
<1>1. CASE PutBlock
  <2>1. CASE got = Whole(h)
    <3>1. blocks' = blocks \cup {h} /\ lapsed' = lapsed \ {BlockKey(h)}
      BY <1>1, <2>1 DEF PutBlock, Stored
    <3>2. BlockKey(b) = BlockKey(h) => b = h
      BY DEF BlockKey
    <3> QED BY <3>1, <3>2 DEF Held
  <2>2. CASE got # Whole(h)
    <3>1. blocks' = blocks \ {h} /\ lapsed' = lapsed
      BY <1>1, <2>2 DEF PutBlock
    <3>2. BlockKey(h) \in lapsed
      BY <1>1, <2>2 DEF PutBlock, SyncInv, WorkInv, Working, Steps
    <3> QED BY <3>1, <3>2 DEF Held
  <2> QED BY <2>1, <2>2
<1>2. CASE ~PutBlock
  <2>1. blocks' = blocks
    BY <1>2, Keeps
  <2>2. BlockKey(b) \in lapsed => BlockKey(b) \in lapsed'
    BY <1>2, Keeps, Lapses DEF BlockKey, BalanceKey, NonceKey, TxKey, PaidKey, AssetKey
  <2> QED BY <2>1, <2>2 DEF Held
<1> QED BY <1>1, <1>2

LEMMA ListedStays ==
  ASSUME [Next]_vars, NEW t, Listed(t) PROVE Listed(t)'
<1>1. CASE PutTx
  <2>1. lapsed' = lapsed \ {TxKey(tx)} /\ txIndex' = txIndex \cup {tx.id}
    BY <1>1, Lapses
  <2>2. TxKey(t) = TxKey(tx) => t.id = tx.id
    BY DEF TxKey
  <2> QED BY <2>1, <2>2 DEF Listed
<1>2. CASE ~PutTx
  <2>1. txIndex' = txIndex
    BY <1>2, Keeps
  <2>2. TxKey(t) \in lapsed => TxKey(t) \in lapsed'
    BY <1>2, Keeps, Lapses DEF BlockKey, BalanceKey, NonceKey, TxKey, PaidKey, AssetKey
  <2> QED BY <2>1, <2>2 DEF Listed
<1> QED BY <1>1, <1>2

\* What the two Puts of pieces do.
LEMMA PieceWrites ==
  ASSUME SyncInv, [Next]_vars
  PROVE  /\ PutPiece =>
               /\ <<tx.to, tx.id>> \in PieceKeys
               /\ \A key \in PieceKeys :
                     pieces'[key] = IF key = <<tx.to, tx.id>> THEN "amount" ELSE pieces[key]
         /\ ExecuteNative /\ tx.to = MarketAddress =>
               /\ <<tx.from, PieceId(tx)>> \in PieceKeys /\ tx.asset \in Assets
               /\ \A key \in PieceKeys :
                     pieces'[key] = IF key = <<tx.from, PieceId(tx)>> THEN tx.asset
                                    ELSE pieces[key]
         /\ ExecuteNative /\ tx.to # MarketAddress => UNCHANGED <<pieces, lapsed>>
<1>1. pieces \in [PieceKeys -> Assets \cup {"amount", NoValue}]
  BY DEF SyncInv, DataOK
<1>2. PutPiece \/ ExecuteNative => tx \in Tx
  BY CurrentTx, PutPlaces DEF SyncInv, InTx, InLoop, InBlock
<1>3. CASE PutPiece
  <2>1. pieces' = [pieces EXCEPT ![<<tx.to, tx.id>>] = "amount"] /\ pc = "piece"
    BY <1>3 DEF PutPiece
  <2>2. <<tx.to, tx.id>> \in PieceKeys
    BY <1>2, <1>3 DEF PieceKeys, Tx
  <2>3. ~ExecuteNative
    BY <2>1 DEF ExecuteNative
  <2> QED BY <1>1, <2>1, <2>2, <2>3
<1>4. CASE ExecuteNative
  <2>1. ~PutPiece
    BY <1>4 DEF PutPiece, ExecuteNative
  <2>2. CASE tx.to = MarketAddress
    <3>1. pieces' = [pieces EXCEPT ![<<tx.from, PieceId(tx)>>] = tx.asset]
      BY <1>4, <2>2 DEF ExecuteNative
    <3>2. <<tx.from, PieceId(tx)>> \in PieceKeys /\ tx.asset \in Assets
      BY <1>2, <1>4 DEF PieceKeys, Tx, PieceId
    <3> QED BY <1>1, <2>1, <2>2, <3>1, <3>2
  <2>3. CASE tx.to # MarketAddress
    BY <1>4, <2>1, <2>3 DEF ExecuteNative
  <2> QED BY <2>2, <2>3
<1> QED BY <1>3, <1>4

LEMMA PaidStays ==
  ASSUME SyncInv, [Next]_vars, NEW t \in Tx, PaidOut(t) PROVE PaidOut(t)'
<1>1. <<t.to, t.id>> \in PieceKeys
  BY DEF PieceKeys, Tx
<1>2. CASE PutPiece
  <2>1. lapsed' = lapsed \ {PaidKey(tx)}
    BY <1>2, Lapses
  <2>2. PaidKey(t) = PaidKey(tx) => <<t.to, t.id>> = <<tx.to, tx.id>>
    BY DEF PaidKey
  <2>3. pieces'[<<t.to, t.id>>] = IF <<t.to, t.id>> = <<tx.to, tx.id>> THEN "amount"
                                  ELSE pieces[<<t.to, t.id>>]
    BY <1>1, <1>2, PieceWrites
  <2> QED BY <2>1, <2>2, <2>3 DEF PaidOut
<1>3. CASE ExecuteNative /\ tx.to = MarketAddress
  <2>1. lapsed' \in {lapsed, lapsed \ {AssetKey(tx)}}
    BY <1>3, Lapses
  <2>2. PaidKey(t) = AssetKey(tx) => <<t.to, t.id>> = <<tx.from, PieceId(tx)>>
    BY DEF PaidKey, AssetKey
  <2>3. /\ pieces'[<<t.to, t.id>>] = IF <<t.to, t.id>> = <<tx.from, PieceId(tx)>> THEN tx.asset
                                     ELSE pieces[<<t.to, t.id>>]
        /\ tx.asset # NoValue
    BY <1>1, <1>3, PieceWrites
  <2> QED BY <2>1, <2>2, <2>3 DEF PaidOut
<1>4. CASE ExecuteNative /\ tx.to # MarketAddress
  BY <1>4, PieceWrites DEF PaidOut
<1>5. CASE ~PutPiece /\ ~ExecuteNative
  <2>1. pieces' = pieces
    BY <1>5, Keeps
  <2>2. PaidKey(t) \in lapsed => PaidKey(t) \in lapsed'
    BY <1>5, Keeps, Lapses DEF BlockKey, BalanceKey, NonceKey, TxKey, PaidKey
  <2> QED BY <2>1, <2>2 DEF PaidOut
<1> QED BY <1>2, <1>3, <1>4, <1>5

LEMMA BalanceFrame ==
  ASSUME [Next]_vars, ~PutBalance,
         ~(\E a \in Visitors, height \in 0 .. coreHeight : StoreBalance(a, height))
  PROVE  balanceAt' = balanceAt
  BY DEF Next, SyncStep, vars, indexVars, PollIdle, Poll, PollReadFails, StartFrom, FetchFails,
         Fetch, FetchGarbled, Fetched, PutBlock, PutShelf, GetIdentity, IdentityReadFails,
         PutReward, NextTx, PutHistory, HistoryReadFails, GetAccount, AccountFails, PutNonce,
         PutTx, PutPiece, ExecuteNative, Commit, PutFails, Panic, Grow, MapValidator, Sell,
         StoreHistory, Crash

LEMMA FreshStays ==
  ASSUME SyncInv, [Next]_vars, NEW a \in Addrs, NEW b \in Nat,
         pc \in {"balance", "nonce"} => answer >= b
  PROVE  /\ BalanceFresh(a, b) => BalanceFresh(a, b)'
         /\ NonceFresh(a, b) => NonceFresh(a, b)'
<1>1. balanceAt \in [Addrs -> 0 .. Len(Chain)] /\ nonceAt \in [Addrs -> 0 .. Len(Chain)]
  BY DEF SyncInv, DataOK
<1>2. BalanceFresh(a, b) => BalanceFresh(a, b)'
  <2>1. CASE PutBalance
    <3>1. balanceAt' = [balanceAt EXCEPT ![tx.from] = answer] /\ pc = "balance"
      BY <2>1 DEF PutBalance
    <3>2. balanceAt'[a] = IF a = tx.from THEN answer ELSE balanceAt[a]
      BY <1>1, <3>1
    <3>3. lapsed' = lapsed \ {BalanceKey(tx.from)}
      BY <2>1, Lapses
    <3>4. BalanceKey(a) = BalanceKey(tx.from) => a = tx.from
      BY DEF BalanceKey
    <3> QED BY <3>1, <3>2, <3>3, <3>4 DEF BalanceFresh
  <2>2. CASE \E c \in Visitors, height \in 0 .. coreHeight : StoreBalance(c, height)
    <3>1. PICK c \in Visitors, height \in 0 .. coreHeight : StoreBalance(c, height)
      BY <2>2
    <3>2. /\ balanceAt' = [balanceAt EXCEPT ![c] = height]
          /\ lapsed' = lapsed \cup {BalanceKey(c)}
      BY <3>1 DEF StoreBalance
    <3>3. a # c => balanceAt'[a] = balanceAt[a]
      BY <1>1, <3>2
    <3> QED BY <3>2, <3>3 DEF BalanceFresh
  <2>3. CASE ~PutBalance /\
             ~(\E c \in Visitors, height \in 0 .. coreHeight : StoreBalance(c, height))
    <3>1. balanceAt' = balanceAt
      BY <2>3, BalanceFrame
    <3>2. BalanceKey(a) \in lapsed => BalanceKey(a) \in lapsed'
      BY <2>3, Keeps, Lapses DEF BlockKey, BalanceKey, NonceKey, TxKey, PaidKey, AssetKey
    <3> QED BY <3>1, <3>2 DEF BalanceFresh
  <2> QED BY <2>1, <2>2, <2>3
<1>3. NonceFresh(a, b) => NonceFresh(a, b)'
  <2>1. CASE PutNonce
    <3>1. nonceAt' = [nonceAt EXCEPT ![tx.from] = answer] /\ pc = "nonce"
      BY <2>1 DEF PutNonce
    <3>2. nonceAt'[a] = IF a = tx.from THEN answer ELSE nonceAt[a]
      BY <1>1, <3>1
    <3>3. lapsed' = lapsed \ {NonceKey(tx.from)}
      BY <2>1, Lapses
    <3>4. NonceKey(a) = NonceKey(tx.from) => a = tx.from
      BY DEF NonceKey
    <3> QED BY <3>1, <3>2, <3>3, <3>4 DEF NonceFresh
  <2>2. CASE ~PutNonce
    <3>1. nonceAt' = nonceAt
      BY <2>2, Keeps
    <3>2. NonceKey(a) \in lapsed => NonceKey(a) \in lapsed'
      BY <2>2, Keeps, Lapses DEF BlockKey, BalanceKey, NonceKey, TxKey, PaidKey, AssetKey
    <3> QED BY <3>1, <3>2 DEF NonceFresh
  <2> QED BY <2>1, <2>2
<1> QED BY <1>2, <1>3

\* Only the write of an amount for the very transaction undoes a purchase.
LEMMA DeliveredStays ==
  ASSUME SyncInv, [Next]_vars, NEW b \in 1 .. Len(Chain), NEW k \in DOMAIN Chain[b].txs,
         Delivered(Chain[b].txs[k]),
         pc = "piece" => "oldHeight" \in mishaps \/ b # h \/ k # i
  PROVE  Delivered(Chain[b].txs[k])'
<1> DEFINE t == Chain[b].txs[k]
<1> SUFFICES ASSUME t.to = MarketAddress, t.idOK, "oldHeight" \notin mishaps'
             PROVE  pieces'[<<t.from, t.id>>] = t.asset \/ AssetKey(t) \in lapsed'
  BY DEF Delivered
<1>1. t \in Tx
  BY ChainTypes
<1>2. /\ <<t.from, t.id>> \in PieceKeys /\ AssetKey(t) = <<"u", t.from, t.id>>
      /\ t.id # Genesis
  BY <1>1 DEF PieceKeys, Tx, AssetKey, PieceId
<1>3. pieces[<<t.from, t.id>>] = t.asset \/ AssetKey(t) \in lapsed
  <2>1. "oldHeight" \notin mishaps
    BY Keeps
  <2> QED BY <2>1 DEF Delivered
<1>4. pc \in InTx /\ tx.id = t.id => b = h /\ k = i
  <2>1. pc \in InTx => h \in DOMAIN Chain /\ i \in DOMAIN Chain[h].txs /\ tx = Chain[h].txs[i]
    BY CurrentTx, ChainTypes DEF SyncInv, InTx, InLoop, InBlock, tx, Txs
  <2>2. b \in DOMAIN Chain
    BY ChainTypes
  <2> QED BY <2>1, <2>2, UniqueIds
<1>5. CASE PutPiece
  <2>1. lapsed' = lapsed \ {PaidKey(tx)} /\ pc = "piece" /\ pc \in InTx
    BY <1>5, Lapses, PutPlaces
  <2>2. tx.id # t.id
    BY <1>4, <2>1, Keeps
  <2>3. pieces'[<<t.from, t.id>>] = pieces[<<t.from, t.id>>]
    BY <1>2, <1>5, <2>2, PieceWrites
  <2>4. PaidKey(tx) # AssetKey(t)
    BY <1>2, <2>2 DEF PaidKey
  <2> QED BY <1>3, <2>1, <2>3, <2>4
<1>6. CASE ExecuteNative /\ tx.to = MarketAddress
  <2>1. lapsed' \in {lapsed, lapsed \ {AssetKey(tx)}} /\ pc \in InTx
    BY <1>6, Lapses, PutPlaces
  <2>2. CASE <<tx.from, PieceId(tx)>> = <<t.from, t.id>>
    <3>1. tx.id = t.id
      BY <1>2, <2>2 DEF PieceId
    <3>2. tx = t
      BY <1>4, <2>1, <3>1 DEF tx, Txs
    <3>3. pieces'[<<t.from, t.id>>] = t.asset
      BY <1>2, <1>6, <2>2, <3>2, PieceWrites
    <3> QED BY <3>3
  <2>3. CASE <<tx.from, PieceId(tx)>> # <<t.from, t.id>>
    <3>1. pieces'[<<t.from, t.id>>] = pieces[<<t.from, t.id>>]
      BY <1>2, <1>6, <2>3, PieceWrites
    <3>2. AssetKey(tx) # AssetKey(t)
      BY <1>2, <2>3 DEF AssetKey
    <3> QED BY <1>3, <2>1, <3>1, <3>2
  <2> QED BY <2>2, <2>3
<1>7. CASE ExecuteNative /\ tx.to # MarketAddress
  BY <1>3, <1>7, PieceWrites
<1>8. CASE ~PutPiece /\ ~ExecuteNative
  <2>1. pieces' = pieces
    BY <1>8, Keeps
  <2>2. AssetKey(t) \in lapsed => AssetKey(t) \in lapsed'
    BY <1>8, Keeps, Lapses DEF BlockKey, BalanceKey, NonceKey, TxKey, AssetKey
  <2> QED BY <1>3, <2>1, <2>2
<1> QED BY <1>5, <1>6, <1>7, <1>8

\* A settled transaction other than the one at work stays settled.
LEMMA SettledStays ==
  ASSUME SyncInv, [Next]_vars, NEW b \in 1 .. Len(Chain), NEW k \in DOMAIN Chain[b].txs,
         Settled(b, k),
         pc \in {"balance", "nonce"} => answer >= b,
         pc = "piece" => "oldHeight" \in mishaps \/ b # h \/ k # i
  PROVE  Settled(b, k)'
<1> DEFINE t == Chain[b].txs[k]
<1>1. t \in Tx /\ t.from \in Addrs /\ b \in Nat
  BY ChainTypes DEF Tx
<1>2. Listed(t) /\ PaidOut(t) /\ Delivered(t) /\ BalanceFresh(t.from, b) /\ NonceFresh(t.from, b)
  BY DEF Settled
<1>3. Delivered(t)'
  BY <1>2, DeliveredStays
<1> HIDE DEF t
<1>4. Listed(t)' /\ PaidOut(t)'
  BY <1>1, <1>2, ListedStays, PaidStays
<1>5. BalanceFresh(t.from, b)' /\ NonceFresh(t.from, b)'
  BY <1>1, <1>2, FreshStays
<1> QED BY <1>3, <1>4, <1>5 DEF Settled, t

\* The finished blocks, and what of the block at work is not at hand.
LEMMA FinishedBounds ==
  ASSUME SyncInv
  PROVE  /\ \A b \in Finished : b \in 1 .. Len(Chain)
         /\ \A b \in Finished : pc \in {"balance", "nonce"} => answer >= b
         /\ \A b \in Finished : pc \in Working => "oldHeight" \in mishaps \/ b # h
         /\ pc \in Working => h \in 1 .. Len(Chain) /\ DOMAIN Txs = 1 .. Len(Txs)
                              /\ Len(Txs) \in Nat
<1>1. /\ latest \in Nat /\ latest <= Len(Chain) /\ LegacyHeight \in Nat /\ Len(Chain) \in Nat
      /\ h \in Nat /\ h <= Len(Chain) + 1 /\ answer \in Nat
  BY ChainTypes DEF SyncInv, ControlOK
<1>2. pc \in Working => /\ h \in 1 .. Len(Chain) /\ DOMAIN Txs = 1 .. Len(Txs)
                        /\ Len(Txs) \in Nat
  BY CurrentTx DEF SyncInv
<1>3. pc \in Working /\ "oldHeight" \notin mishaps => h > latest
  BY <1>1 DEF SyncInv, CrawlInv, LocalHeight
<1>4. pc \in {"balance", "nonce"} => pc \in Working /\ answer >= h /\ answer >= latest
  BY DEF SyncInv, WorkInv, Working, Steps
<1>5. \A b \in Finished : /\ b \in Nat /\ b > LegacyHeight
                          /\ b <= latest \/ (pc \in Working /\ b < h)
  BY <1>1 DEF Finished, Committed
<1> QED BY <1>1, <1>2, <1>3, <1>4, <1>5

LEMMA FinishedStep ==
  ASSUME SyncInv, [Next]_vars
  PROVE  \A b \in Finished' : b \in Finished \/ (b = h /\ pc = "commit")
<1>1. /\ latest \in Nat /\ LegacyHeight \in Nat /\ h \in Nat
  BY ChainTypes DEF SyncInv, ControlOK
<1>2. CASE pc' \notin Working
  <2>1. Finished' = Committed'
    BY <1>2 DEF Finished
  <2>2. CASE ~Commit
    <3>1. latest' = latest
      BY <2>2, LatestFrame
    <3> QED BY <2>1, <3>1 DEF Finished, Committed
  <2>3. CASE Commit
    <3>1. pc = "commit" /\ latest' = h /\ pc \in Working
      BY <2>3 DEF Commit, Working, Steps
    <3>2. \A b \in LegacyHeight + 1 .. h : b = h \/ b \in LegacyHeight + 1 .. h - 1
      BY <1>1
    <3> QED BY <2>1, <3>1, <3>2 DEF Finished, Committed
  <2> QED BY <2>2, <2>3
<1>3. CASE pc' \in Working /\ pc = "poll"
  <2>1. latest' = latest /\ (h' = latest + 1 \/ h' = LegacyHeight + 1 \/ h' = 1)
    <3>1. h' = LocalHeight + 1 \/ h' = LegacyHeight + 1 \/ h' = 1
      BY <1>3, Course DEF SyncInv, Working
    <3>2. LocalHeight = latest \/ LocalHeight = LegacyHeight
      BY DEF LocalHeight
    <3>3. latest' = latest
      BY <1>3, Course DEF SyncInv, Working
    <3> QED BY <3>1, <3>2, <3>3
  <2>2. \A b \in LegacyHeight + 1 .. h' - 1 : b \in LegacyHeight + 1 .. latest
    <3>1. CASE h' = latest + 1
      BY <1>1, <3>1
    <3>2. CASE h' = LegacyHeight + 1 \/ h' = 1
      BY <1>1, <3>2
    <3> QED BY <2>1, <3>1, <3>2
  <2> QED BY <1>3, <2>1, <2>2 DEF Finished, Committed
<1>4. CASE pc' \in Working /\ pc = "commit" /\ pc' # pc
  <2>1. h' = h + 1 /\ latest' \in {latest, h} /\ pc \in Working
    BY <1>4, Course DEF SyncInv, Working, Steps
  <2>2. \A b \in LegacyHeight + 1 .. h' - 1 : b = h \/ b \in LegacyHeight + 1 .. h - 1
    BY <1>1, <2>1
  <2>3. \A b \in LegacyHeight + 1 .. latest' :
           b = h \/ b \in LegacyHeight + 1 .. h - 1 \/ b \in LegacyHeight + 1 .. latest
    BY <1>1, <2>1
  <2> QED BY <1>4, <2>1, <2>2, <2>3 DEF Finished, Committed
<1>5. CASE pc' \in Working /\ pc # "poll" /\ (pc = "commit" => pc' = pc)
  <2>1. pc \in Working /\ UNCHANGED <<latest, h>>
    BY <1>5, Course DEF SyncInv, Working, Steps
  <2> QED BY <1>5, <2>1 DEF Finished, Committed
<1> QED BY <1>2, <1>3, <1>4, <1>5

LEMMA FinishedInvStep == SyncInv /\ [Next]_vars => FinishedInv'
<1> SUFFICES ASSUME SyncInv, [Next]_vars, NEW b \in Finished'
             PROVE  Held(b)' /\ \A k \in DOMAIN Chain[b].txs : Settled(b, k)'
  BY DEF FinishedInv
<1>1. /\ b \in 1 .. Len(Chain)
      /\ Held(b) /\ \A k \in DOMAIN Chain[b].txs : Settled(b, k)
      /\ pc \in {"balance", "nonce"} => answer >= b
      /\ pc = "piece" => "oldHeight" \in mishaps \/ b # h
  <2>1. CASE b \in Finished
    BY <2>1, FinishedBounds DEF SyncInv, FinishedInv, Working, Steps
  <2>2. CASE b = h /\ pc = "commit"
    <3>1. /\ pc \in Working /\ pc \in InBlock /\ pc \in InLoop /\ pc \in Working \ {"fetch"}
          /\ i > got.txs /\ i \in Nat /\ got.txs \in Nat
      BY <2>2 DEF SyncInv, CrawlInv, ControlOK, InLoop, InBlock, Working, Steps
    <3>2. \A k \in DOMAIN Txs : k > got.txs \/ k < i
      BY <3>1, FinishedBounds
    <3>3. Held(b) /\ \A k \in DOMAIN Txs : Settled(h, k)
      BY <2>2, <3>1, <3>2 DEF SyncInv, WorkInv
    <3> QED BY <2>2, <3>1, <3>3, FinishedBounds DEF Txs
  <2> QED BY <2>1, <2>2, FinishedStep
<1>2. Held(b)'
  BY <1>1, HeldStays
<1>3. ASSUME NEW k \in DOMAIN Chain[b].txs PROVE Settled(b, k)'
  BY <1>1, SettledStays
<1> QED BY <1>2, <1>3

\* How far the step at hand settles the current transaction.
LEMMA CurrentStep ==
  ASSUME SyncInv, [Next]_vars, pc \in InTx, pc' \in Working
  PROVE  /\ UNCHANGED <<latest, h, got>> /\ Txs' = Txs
         /\ pc' \in InTx => i' = i /\ tx' = tx
         /\ pc' \in {"balance", "nonce"} => answer' >= h /\ answer' >= latest
         /\ pc' = "nonce" => BalanceFresh(tx.from, h)'
         /\ pc' \in {"txIndex", "piece", "vm"} =>
               BalanceFresh(tx.from, h)' /\ NonceFresh(tx.from, h)'
         /\ pc' \in {"piece", "vm"} => Listed(tx)'
         /\ pc' = "vm" => PaidOut(tx)'
         /\ pc' = "tx" => \A b \in 1 .. Len(Chain) : \A k \in DOMAIN Chain[b].txs :
                             b = h /\ k = i => Settled(b, k)'
<1> USE DEF Working, Steps
<1>1. /\ ControlOK /\ CrawlInv /\ WorkInv /\ pc \in Working
      /\ pc \notin {"fetch", "block", "poll", "commit", "tx", "shelf", "identity", "crate"}
  BY DEF SyncInv, InTx, InLoop, InBlock
<1>2. UNCHANGED <<latest, h, got>> /\ Txs' = Txs
  BY <1>1, Course DEF Txs
<1>3. pc' \in InTx => i' = i /\ tx' = tx
  BY <1>1, <1>2, Course DEF InTx, InLoop, InBlock, tx
<1>4. PICK t \in Tx, b \in 1 .. Len(Chain), k \in Nat :
         t = tx /\ b = h /\ k = i /\ t = Chain[b].txs[k]
  BY <1>1, CurrentTx DEF tx, Txs
<1>5. t.from \in Addrs /\ b \in Nat
  BY <1>4, ChainTypes DEF Tx
<1>6. pc' \in {"balance", "nonce"} => answer' >= h /\ answer' >= latest
  <2>1. CASE pc = "account"
    <3>1. pc' = "balance" => answer' = coreHeight
      BY <1>1, <2>1, Course DEF GetAccount, AccountFails
    <3>2. pc' # "nonce"
      BY <1>1, <2>1, Course
    <3>3. coreHeight \in Nat /\ h \in Nat /\ latest \in Nat /\ target \in Nat
          /\ LocalHeight \in Nat /\ latest <= LocalHeight
      BY <1>1, ChainTypes DEF ControlOK, LocalHeight
    <3> QED BY <1>1, <3>1, <3>2, <3>3 DEF CrawlInv
  <2>2. CASE pc # "account"
    <3>1. pc' \in {"balance", "nonce"} => pc \in {"balance", "nonce"} /\ answer' = answer
      BY <1>1, <2>2, Course
    <3> QED BY <1>1, <3>1 DEF WorkInv
  <2> QED BY <2>1, <2>2
<1>7. pc \in {"balance", "nonce"} => answer >= b
  BY <1>1, <1>4 DEF WorkInv
<1>8. PutFails => lapsed' = lapsed \cup Unwritten
  BY DEF PutFails
<1>9. pc' = "nonce" => BalanceFresh(t.from, b)'
  <2>1. CASE pc = "nonce"
    BY <1>1, <1>4, <1>5, <1>7, <2>1, FreshStays DEF WorkInv
  <2>2. CASE pc = "balance" /\ PutBalance
    <3>1. balanceAt'[t.from] = answer
      BY <1>4, <1>5, <2>2 DEF PutBalance, SyncInv, DataOK
    <3> QED BY <1>7, <2>2, <3>1 DEF BalanceFresh
  <2>3. CASE pc = "balance" /\ PutFails
    BY <1>4, <1>8, <2>3 DEF Unwritten, BalanceFresh
  <2> QED BY <1>1, <2>1, <2>2, <2>3, Course
<1>10. pc' \in {"txIndex", "piece", "vm"} => BalanceFresh(t.from, b)' /\ NonceFresh(t.from, b)'
  <2>1. CASE pc \in {"txIndex", "piece", "vm"}
    BY <1>1, <1>4, <1>5, <2>1, FreshStays DEF WorkInv
  <2>2. CASE pc = "nonce" /\ PutNonce
    <3>1. nonceAt'[t.from] = answer
      BY <1>4, <1>5, <2>2 DEF PutNonce, SyncInv, DataOK
    <3>2. BalanceFresh(t.from, b)'
      BY <1>1, <1>4, <1>5, <1>7, <2>2, FreshStays DEF WorkInv
    <3> QED BY <1>7, <2>2, <3>1, <3>2 DEF NonceFresh
  <2>3. CASE pc = "nonce" /\ PutFails
    <3>1. BalanceFresh(t.from, b)'
      BY <1>1, <1>4, <1>5, <1>7, <2>3, FreshStays DEF WorkInv
    <3> QED BY <1>4, <1>8, <2>3, <3>1 DEF Unwritten, NonceFresh
  <2>4. CASE pc = "account" /\ AccountFails
    BY <1>4, <2>4 DEF AccountFails, BalanceFresh, NonceFresh
  <2> QED BY <1>1, <2>1, <2>2, <2>3, <2>4, Course
<1>11. pc' \in {"piece", "vm"} => Listed(t)'
  <2>1. CASE pc \in {"piece", "vm"}
    BY <1>1, <1>4, <2>1, ListedStays DEF WorkInv
  <2>2. CASE pc = "txIndex" /\ PutTx
    BY <1>4, <2>2 DEF PutTx, Listed
  <2>3. CASE pc = "txIndex" /\ PutFails
    BY <1>4, <1>8, <2>3 DEF Unwritten, Listed
  <2> QED BY <1>1, <2>1, <2>2, <2>3, Course
<1>12. pc' = "vm" => PaidOut(t)'
  <2>1. CASE pc = "vm"
    BY <1>1, <1>4, <2>1, PaidStays DEF WorkInv
  <2>2. CASE pc = "piece" /\ PutPiece
    <3>1. pieces'[<<t.to, t.id>>] = "amount"
      BY <1>4, <2>2, PieceWrites
    <3> QED BY <3>1 DEF PaidOut
  <2>3. CASE pc = "piece" /\ PutFails
    BY <1>4, <1>8, <2>3 DEF Unwritten, PaidOut
  <2>4. CASE pc = "txIndex" /\ ~tx.paid
    BY <1>4, <2>4 DEF PaidOut
  <2> QED BY <1>1, <2>1, <2>2, <2>3, <2>4, Course
<1>13. pc' = "tx" => Settled(b, k)'
  <2> SUFFICES ASSUME pc' = "tx" PROVE Settled(b, k)'
    OBVIOUS
  <2>1. pc = "vm" /\ (ExecuteNative \/ PutFails)
    BY <1>1, Course
  <2>2. Listed(t)' /\ PaidOut(t)' /\ BalanceFresh(t.from, b)' /\ NonceFresh(t.from, b)'
    BY <1>1, <1>4, <1>5, <2>1, ListedStays, PaidStays, FreshStays DEF WorkInv
  <2>3. Delivered(t)'
    <3>1. CASE t.to = MarketAddress /\ t.idOK /\ ExecuteNative
      <4>1. PieceId(t) = t.id
        BY <3>1 DEF PieceId
      <4>2. pieces'[<<t.from, t.id>>] = t.asset
        BY <1>4, <3>1, <4>1, PieceWrites
      <4> QED BY <4>2 DEF Delivered
    <3>2. CASE PutFails
      BY <1>4, <1>8, <2>1, <3>2 DEF Unwritten, Delivered
    <3>3. CASE ~(t.to = MarketAddress /\ t.idOK)
      BY <3>3 DEF Delivered
    <3> QED BY <2>1, <3>1, <3>2, <3>3
  <2> QED BY <1>4, <2>2, <2>3 DEF Settled
<1>14. /\ pc' = "nonce" => BalanceFresh(tx.from, h)'
       /\ pc' \in {"txIndex", "piece", "vm"} =>
               BalanceFresh(tx.from, h)' /\ NonceFresh(tx.from, h)'
       /\ pc' \in {"piece", "vm"} => Listed(tx)'
       /\ pc' = "vm" => PaidOut(tx)'
  BY <1>2, <1>3, <1>4, <1>9, <1>10, <1>11, <1>12 DEF InTx, InLoop, InBlock
<1>15. pc' = "tx" => \A c \in 1 .. Len(Chain) : \A n \in DOMAIN Chain[c].txs :
                       c = h /\ n = i => Settled(c, n)'
  BY <1>4, <1>13
<1> QED BY <1>2, <1>3, <1>6, <1>14, <1>15

LEMMA FetchStep ==
  ASSUME SyncInv, [Next]_vars, pc = "fetch", pc' = "block", Fetch \/ FetchGarbled
  PROVE  WorkInv'
<1>1. /\ h' = h /\ Txs' = Txs /\ DOMAIN Txs = 1 .. Len(Txs) /\ Len(Txs) \in Nat
      /\ Txs = Chain[h].txs
  BY CurrentTx DEF Fetch, FetchGarbled, Fetched, loopVars, Txs, SyncInv, Working, Steps
<1>2. CASE Fetch
  <2>1. got' = Whole(h)
    BY <1>2 DEF Fetch
  <2>2. \A k \in DOMAIN Txs : ~(k > got'.txs)
    BY <1>1, <2>1 DEF Whole
  <2>3. got' = Whole(h)' /\ (DOMAIN Txs)' = DOMAIN Txs
    BY <1>1, <2>1
  <2> QED BY <2>2, <2>3 DEF WorkInv, InLoop, InBlock
<1>3. CASE FetchGarbled
  <2>1. /\ got'.txs \in Nat
        /\ lapsed' = lapsed \cup {BlockKey(h)}
                            \cup UNION {KeysOf(Txs[k]) : k \in got'.txs + 1 .. Len(Txs)}
    <3>1. got' \in Parts(h)
      BY <1>3 DEF FetchGarbled
    <3> QED BY <1>1, <1>3, <3>1 DEF FetchGarbled, Parts
  <2>2. ASSUME NEW b, NEW k \in DOMAIN Chain[b].txs, b = h, k > got'.txs
        PROVE  Settled(b, k)'
    <3>1. k \in got'.txs + 1 .. Len(Txs)
      BY <1>1, <2>1, <2>2
    <3>2. KeysOf(Chain[b].txs[k]) \subseteq lapsed'
      BY <1>1, <2>1, <2>2, <3>1
    <3> QED BY <3>2 DEF KeysOf, Settled, Listed, PaidOut, Delivered, BalanceFresh, NonceFresh
  <2>3. \A k \in DOMAIN Txs' : k > got'.txs => Settled(h, k)'
    BY <1>1, <2>2 DEF Settled
  <2>4. BlockKey(h)' \in lapsed'
    BY <1>1, <2>1 DEF BlockKey
  <2> QED BY <2>3, <2>4 DEF WorkInv, InLoop, InBlock
<1> QED BY <1>2, <1>3

LEMMA WorkStep ==
  ASSUME SyncInv, [Next]_vars, CrawlInv'
  PROVE  WorkInv'
<1>1. CASE pc' \notin Working \ {"fetch"}
  BY <1>1 DEF WorkInv, InLoop, InBlock, Working, Steps
<1>2. CASE pc = "fetch" /\ pc' = "block" /\ (Fetch \/ FetchGarbled)
  BY <1>2, FetchStep
<1>3. CASE /\ pc' \in Working \ {"fetch"}
           /\ ~(pc = "fetch" /\ pc' = "block" /\ (Fetch \/ FetchGarbled))
  <2>1. /\ pc \in Working \ {"fetch"} /\ UNCHANGED <<latest, h, got>> /\ Txs' = Txs
        /\ ControlOK /\ CrawlInv /\ WorkInv /\ pc \in Steps
    <3>1. pc' \in Working /\ pc' # "fetch" /\ ControlOK /\ CrawlInv /\ WorkInv
      BY <1>3 DEF SyncInv
    <3>2. pc \in Working /\ UNCHANGED <<latest, h, got>>
      BY <1>3, <3>1, Course
    <3>3. pc # "fetch"
      BY <1>3, <3>1, Course
    <3> QED BY <3>1, <3>2, <3>3 DEF Txs, ControlOK
  <2>2. h \in 1 .. Len(Chain) /\ DOMAIN Txs = 1 .. Len(Txs) /\ Len(Txs) \in Nat
        /\ i \in Nat /\ got.txs \in Nat /\ Txs = Chain[h].txs
    BY <2>1, FinishedBounds DEF ControlOK, Txs
  <2>3. pc \in InTx => i <= got.txs
    BY <2>1 DEF CrawlInv
  <2>4. ASSUME NEW b \in 1 .. Len(Chain), NEW k \in DOMAIN Chain[b].txs, b = h,
               Settled(b, k), pc \in InTx => k # i
        PROVE  Settled(b, k)'
    <3>1. pc \in {"balance", "nonce"} => answer >= b
      BY <2>1, <2>4 DEF WorkInv
    <3>2. pc = "piece" => "oldHeight" \in mishaps \/ b # h \/ k # i
      BY <2>4 DEF InTx, InLoop, InBlock, Working, Steps
    <3> QED BY <2>4, <3>1, <3>2, SettledStays
  <2>5. got' # Whole(h') => BlockKey(h') \in lapsed'
    <3>1. got # Whole(h) => BlockKey(h) \in lapsed
      BY <2>1 DEF WorkInv
    <3>2. CASE PutBlock
      <4>1. got # Whole(h) => lapsed' = lapsed
        BY <3>2 DEF PutBlock
      <4> QED BY <2>1, <3>1, <4>1
    <3>3. CASE ~PutBlock
      <4>1. BlockKey(h) \in lapsed => BlockKey(h) \in lapsed'
        BY <3>3, Keeps, Lapses DEF BlockKey, BalanceKey, NonceKey, TxKey, PaidKey, AssetKey
      <4> QED BY <2>1, <3>1, <4>1
    <3> QED BY <3>2, <3>3
  <2>6. ASSUME NEW k \in DOMAIN Txs, k > got.txs PROVE Settled(h, k)'
    <3>1. Settled(h, k)
      BY <2>1, <2>6 DEF WorkInv
    <3>2. pc \in InTx => k # i
      BY <2>2, <2>3, <2>6
    <3> QED BY <2>1, <2>2, <2>4, <3>1, <3>2
  <2>7. pc' \in InBlock => Held(h)'
    <3>1. PICK b \in 1 .. Len(Chain) : b = h
      BY <2>2
    <3>2. CASE pc \in InBlock
      <4>1. Held(b)'
        BY <2>1, <3>1, <3>2, HeldStays DEF WorkInv
      <4> QED BY <2>1, <3>1, <4>1
    <3>3. CASE pc = "block" /\ PutBlock
      <4>1. CASE got = Whole(h)
        BY <2>1, <3>3, <4>1 DEF PutBlock, Held
      <4>2. CASE got # Whole(h)
        BY <2>1, <2>5, <4>2 DEF Held
      <4> QED BY <4>1, <4>2
    <3>4. CASE pc = "block" /\ PutFails
      BY <2>1, <3>4 DEF PutFails, Unwritten, Held, BlockKey
    <3>5. pc \in InBlock \/ pc = "block"
      BY <2>1 DEF InBlock, Working, Steps
    <3>6. pc = "block" /\ pc' \in InBlock => PutBlock \/ PutFails
      BY <1>3, <2>1, Course DEF InBlock, Working, Steps
    <3> QED BY <3>2, <3>3, <3>4, <3>5, <3>6
  <2>8. ASSUME pc' \in InLoop, NEW k \in DOMAIN Txs, k < i' PROVE Settled(h, k)'
    <3>1. CASE pc \notin InLoop
      <4>1. i' = 1
        BY <1>3, <2>1, <2>8, <3>1, Course DEF CrawlInv, InLoop, InBlock, Working, Steps
      <4> QED BY <2>2, <2>8, <4>1
    <3>2. CASE pc \in InLoop /\ k < i
      <4>1. Settled(h, k)
        BY <2>1, <3>2 DEF WorkInv
      <4> QED BY <2>1, <2>2, <2>4, <3>2, <4>1
    <3>3. CASE pc \in InLoop /\ ~(k < i)
      <4>1. pc = "vm" /\ i' = i + 1 /\ pc' = "tx"
        BY <1>3, <2>1, <2>2, <2>8, <3>3, Course DEF InLoop, InBlock, Working, Steps
      <4>2. k = i /\ pc \in InTx /\ pc' \in Working
        BY <2>2, <2>8, <3>3, <4>1 DEF InTx, InLoop, InBlock, Working, Steps
      <4>3. \A b \in 1 .. Len(Chain) : \A n \in DOMAIN Chain[b].txs :
               b = h /\ n = i => Settled(b, n)'
        BY <4>1, <4>2, CurrentStep
      <4> QED BY <2>1, <2>2, <4>2, <4>3
    <3> QED BY <3>1, <3>2, <3>3
  <2>9. /\ pc' \in {"balance", "nonce"} => answer' >= h' /\ answer' >= latest'
        /\ pc' = "nonce" => BalanceFresh(tx.from, h)'
        /\ pc' \in {"txIndex", "piece", "vm"} =>
              BalanceFresh(tx.from, h)' /\ NonceFresh(tx.from, h)'
        /\ pc' \in {"piece", "vm"} => Listed(tx)'
        /\ pc' = "vm" => PaidOut(tx)'
    <3>1. CASE pc \in InTx
      BY <1>3, <2>1, <3>1, CurrentStep
    <3>2. CASE pc \notin InTx
      <4>1. pc' \notin {"balance", "nonce", "txIndex", "piece", "vm"}
        BY <1>3, <2>1, <3>2, Course DEF InTx, InLoop, InBlock, Working, Steps
      <4> QED BY <4>1
    <3> QED BY <3>1, <3>2
  <2>10. \A k \in DOMAIN Txs' : (k > got'.txs => Settled(h, k)')
                               /\ (pc' \in InLoop /\ k < i' => Settled(h, k)')
    BY <2>1, <2>6, <2>8
  <2> QED BY <2>5, <2>7, <2>9, <2>10 DEF WorkInv
<1> QED
  <2>1. CASE pc' \in Working
    BY <1>1, <1>2, <1>3
  <2> QED BY <1>1, <2>1

LEMMA SyncInit == Init => SyncInv
<1> SUFFICES ASSUME Init PROVE SyncInv
  OBVIOUS
<1>1. Finished = {}
  BY ChainTypes DEF Init, Finished, Committed, Working
<1> QED
  BY <1>1, CrawlInit, TypeParts
  DEF Init, SyncInv, FinishedInv, WorkInv, InBlock, InLoop, Working

LEMMA SyncNext == SyncInv /\ [Next]_vars => SyncInv'
<1> SUFFICES ASSUME SyncInv, [Next]_vars PROVE SyncInv'
  OBVIOUS
<1>1. TypeOK' /\ CrawlInv'
  BY CrawlStep, TypeParts DEF SyncInv
<1>2. ControlOK' /\ DataOK'
  BY <1>1 DEF TypeOK, ControlOK, DataOK
<1>3. FinishedInv' /\ WorkInv'
  BY <1>1, FinishedInvStep, WorkStep
<1> QED BY <1>1, <1>2, <1>3 DEF SyncInv

\* Whatever crashed, was replayed or failed before, a committed block and its
\* transactions are in the store but for the keys whose own write went wrong.
THEOREM CommittedIsComplete == Spec => []IndexComplete
<1>1. SyncInv => IndexComplete
  BY DEF SyncInv, FinishedInv, Finished, IndexComplete, Settled, Held
<1> QED BY SyncInit, SyncNext, <1>1, PTL DEF Spec

\* A balance and a nonce cover every committed block, unless the crawler's last
\* write went wrong or a handler wrote the key since.
THEOREM AccountsCoverBlocks == Spec => []AccountFresh
<1>1. SyncInv => AccountFresh
  BY DEF SyncInv, FinishedInv, Finished, AccountFresh, Settled, BalanceFresh, NonceFresh
<1> QED BY SyncInit, SyncNext, <1>1, PTL DEF Spec

-----------------------------------------------------------------------------
(***************************************************************************)
(* The shelf.  While nothing has made the crawler repeat a block, whatever *)
(* was on the shelf or was bought from it belongs to a saved block, or to  *)
(* the current one after its PutShelf: no block puts its asset there twice.*)
(***************************************************************************)
AfterShelf == (InBlock \ {"shelf"}) \cup {"panic"}

ShelvedBefore ==
    \A x \in shelf \cup sold : x <= LocalHeight \/ (x = h /\ pc \in AfterShelf)

ShelfInv == SyncInv /\ SoldStaysSold /\ (mishaps = {} => ShelvedBefore)

LEMMA ShelfInit == Init => ShelfInv
  BY SyncInit DEF Init, ShelfInv, ShelvedBefore, SoldStaysSold

\* After its PutShelf the crawler goes on with the block, saves it, or has met
\* with a mishap.
LEMMA ShelfCourse ==
  ASSUME [Next]_vars, mishaps' = {}, pc \in AfterShelf
  PROVE  \/ pc' \in AfterShelf /\ UNCHANGED <<h, latest>>
         \/ pc = "commit" /\ Commit
<1> USE DEF loopVars, AfterShelf, InBlock, Working, Steps
<1>1. CASE PollIdle \/ Poll \/ PollReadFails \/ FetchFails \/ Fetch \/ FetchGarbled
           \/ UNCHANGED vars
  BY <1>1 DEF vars, PollIdle, Poll, PollReadFails, StartFrom, FetchFails, Fetch, FetchGarbled,
              Fetched
<1>2. CASE PutBlock \/ PutShelf \/ PutReward
  BY <1>2, Way DEF PutBlock, PutShelf, PutReward
<1>3. CASE GetIdentity \/ IdentityReadFails \/ NextTx \/ GetAccount \/ AccountFails
  BY <1>3 DEF GetIdentity, IdentityReadFails, NextTx, GetAccount, AccountFails
<1>4. CASE PutHistory \/ HistoryReadFails
  BY <1>4, Way DEF PutHistory, HistoryReadFails
<1>5. CASE PutBalance \/ PutNonce \/ PutTx \/ PutPiece \/ ExecuteNative
  BY <1>5, Way DEF PutBalance, PutNonce, PutTx, PutPiece, ExecuteNative, Stored
<1>6. CASE Commit
  BY <1>6 DEF Commit
<1>7. CASE PutFails
  BY <1>7, Way DEF PutFails
<1>8. CASE Panic \/ Crash
  BY <1>8 DEF Panic, Crash
<1>9. CASE \/ Grow \/ \E m \in Miners : MapValidator(m)
           \/ \E asset \in shelf : Sell(asset)
           \/ \E a \in Visitors, height \in 0 .. coreHeight : StoreBalance(a, height)
           \/ \E a \in Visitors, list \in Answers : StoreHistory(a, list)
  BY <1>9 DEF Grow, MapValidator, Sell, StoreBalance, StoreHistory
<1> QED BY <1>1, <1>2, <1>3, <1>4, <1>5, <1>6, <1>7, <1>8, <1>9 DEF Next, SyncStep

\* Only PutShelf puts something on the shelf, and only a sale takes it off.
LEMMA ShelfFrame ==
  ASSUME [Next]_vars, ~PutShelf
  PROVE  UNCHANGED <<shelf, sold>> \/ \E asset \in shelf : Sell(asset)
<1> USE DEF shelfVars
<1>1. CASE PollIdle \/ Poll \/ PollReadFails \/ FetchFails \/ Fetch \/ FetchGarbled
           \/ UNCHANGED vars
  BY <1>1 DEF vars, PollIdle, Poll, PollReadFails, StartFrom, FetchFails, Fetch, FetchGarbled,
              Fetched
<1>2. CASE PutBlock \/ PutReward \/ GetIdentity \/ IdentityReadFails \/ NextTx \/ GetAccount
           \/ AccountFails \/ PutHistory \/ HistoryReadFails
  BY <1>2 DEF PutBlock, PutReward, GetIdentity, IdentityReadFails, NextTx, GetAccount,
              AccountFails, PutHistory, HistoryReadFails
<1>3. CASE PutBalance \/ PutNonce \/ PutTx \/ PutPiece \/ ExecuteNative \/ Commit \/ PutFails
           \/ Panic \/ Crash
  BY <1>3 DEF PutBalance, PutNonce, PutTx, PutPiece, ExecuteNative, Commit, PutFails, Panic,
              Crash
<1>4. CASE \/ Grow \/ \E m \in Miners : MapValidator(m)
           \/ \E a \in Visitors, height \in 0 .. coreHeight : StoreBalance(a, height)
           \/ \E a \in Visitors, list \in Answers : StoreHistory(a, list)
  BY <1>4 DEF Grow, MapValidator, StoreBalance, StoreHistory
<1> QED BY <1>1, <1>2, <1>3, <1>4 DEF Next, SyncStep

LEMMA ShelfStep == ShelfInv /\ [Next]_vars => ShelfInv'
<1> SUFFICES ASSUME ShelfInv, [Next]_vars
             PROVE  mishaps' = {} => shelf' \cap sold' = {} /\ ShelvedBefore'
  BY SyncNext DEF ShelfInv, SoldStaysSold
<1> SUFFICES ASSUME mishaps' = {} PROVE shelf' \cap sold' = {} /\ ShelvedBefore'
  OBVIOUS
<1>1. /\ SyncInv /\ ControlOK /\ CrawlInv /\ mishaps = {} /\ ShelvedBefore
      /\ shelf \cap sold = {}
  BY Keeps DEF ShelfInv, SyncInv, SoldStaysSold
<1>2. LocalHeight \in Nat /\ h \in Nat /\ latest \in Nat /\ shelf \subseteq Nat /\ sold \subseteq Nat
  BY <1>1, ChainTypes DEF SyncInv, ControlOK, DataOK, LocalHeight
<1>3. pc \in Working => h > LocalHeight
  BY <1>1 DEF CrawlInv
<1>4. ASSUME NEW x \in shelf \cup sold
      PROVE  x <= LocalHeight' \/ (x = h' /\ pc' \in AfterShelf)
  <2>1. CASE x <= LocalHeight /\ ~Commit
    <3>1. LocalHeight' = LocalHeight
      BY <2>1, LatestFrame DEF LocalHeight
    <3> QED BY <2>1, <3>1
  <2>2. CASE Commit
    <3>1. latest' = h /\ pc \in Working
      BY <2>2 DEF Commit, Working, Steps
    <3>2. LocalHeight' = h
      BY <1>2, <1>3, <3>1 DEF LocalHeight
    <3>3. x <= LocalHeight \/ x = h
      BY <1>1 DEF ShelvedBefore
    <3> QED BY <1>2, <1>3, <3>1, <3>2, <3>3
  <2>3. CASE ~(x <= LocalHeight) /\ ~Commit
    <3>1. x = h /\ pc \in AfterShelf
      BY <1>1, <2>3 DEF ShelvedBefore
    <3> QED BY <2>3, <3>1, ShelfCourse
  <2> QED BY <2>1, <2>2, <2>3
<1>5. CASE PutShelf
  <2>1. /\ pc = "shelf" /\ pc' = "identity" /\ shelf' = shelf \cup {h}
        /\ UNCHANGED <<latest, sold, h>>
    BY <1>5, Way DEF PutShelf
  <2>2. h \notin sold
    BY <1>1, <1>2, <1>3, <2>1 DEF ShelvedBefore, AfterShelf, InBlock, Working, Steps
  <2>3. pc' \in AfterShelf
    BY <2>1 DEF AfterShelf, InBlock, Working, Steps
  <2> QED BY <1>1, <1>4, <2>1, <2>2, <2>3 DEF ShelvedBefore
<1>6. CASE \E asset \in shelf : Sell(asset)
  <2>1. PICK asset \in shelf : shelf' = shelf \ {asset} /\ sold' = sold \cup {asset}
    BY <1>6 DEF Sell
  <2> QED BY <1>1, <1>4, <2>1 DEF ShelvedBefore
<1>7. CASE UNCHANGED <<shelf, sold>>
  BY <1>1, <1>4, <1>7 DEF ShelvedBefore
<1> QED BY <1>5, <1>6, <1>7, ShelfFrame

\* While no block is repeated, an asset that was bought never comes back to the
\* shelf, however many calls, reads and writes fail.
THEOREM BoughtIsGone == Spec => []SoldStaysSold
<1>1. ShelfInv => SoldStaysSold
  BY DEF ShelfInv
<1> QED BY ShelfInit, ShelfStep, <1>1, PTL DEF Spec

-----------------------------------------------------------------------------
(***************************************************************************)
(* The histories.  The transactions of an address are numbered: the rank   *)
(* of a place is how many of them there are up to it.  A history then is a *)
(* list of ranks, and what the crawler does to it is arithmetic on them.   *)
(*                                                                         *)
(* Let c transactions of the address be committed, and q be those up to    *)
(* the place that this pass over the block has reached.  The history of an *)
(* address is always of one of two forms:                                  *)
(*    straight   r, r-1, r-2, ...                                          *)
(*    broken     j, j-1, ..., c+1, m, m-1, ...                             *)
(* It is broken when an earlier pass got as far as m, the limit has pushed *)
(* out what that pass entered first, and the present pass enters it again: *)
(* c+1 to j so far.  What is left of the earlier pass then leaves the list *)
(* before j reaches m, so the history is straight when the block is done.  *)
(***************************************************************************)
Mine(a) == {p \in Places : p[1] > LegacyHeight /\ a \in {TxAt(p).from, TxAt(p).to}}

\* The transactions of a up to number k of block b, and how many they are.  An
\* entry has a rank when it shows the transaction of that rank.
Upto(a, b, k) == {p \in Mine(a) : p[1] < b \/ (p[1] = b /\ p[2] <= k)}

Rank(a, b, k) == Cardinality(Upto(a, b, k))

RankOf(a, p) == Rank(a, p[1], p[2])

Ranked(a, id, r) == \E p \in Mine(a) : TxAt(p).id = id /\ RankOf(a, p) = r

LEMMA PlaceFacts ==
  ASSUME NEW p \in Places
  PROVE  /\ p = <<p[1], p[2]>> /\ p[1] \in 1 .. Len(Chain)
         /\ p[2] \in 1 .. Len(Chain[p[1]].txs)
         /\ TxAt(p) \in Tx
<1>1. PICK b \in DOMAIN Chain : p \in {b} \X DOMAIN Chain[b].txs
  BY DEF Places
<1> QED BY <1>1, ChainTypes DEF TxAt

LEMMA PlacesFinite == IsFiniteSet(Places)
<1> DEFINE D == DOMAIN Chain
           Of(b) == {b} \X DOMAIN Chain[b].txs
           f == [b \in D |-> Of(b)]
           T == {Of(b) : b \in D}
<1>1. IsFiniteSet(D)
  BY ChainTypes, FS_Interval
<1>2. f \in Surjection(D, T)
  BY DEF Surjection
<1>3. IsFiniteSet(T)
  <2> HIDE DEF f, D, T
  <2> QED BY <1>1, <1>2, FS_Surjection
<1>4. ASSUME NEW b \in D PROVE IsFiniteSet(Of(b))
  <2>1. IsFiniteSet({b})
    BY FS_Singleton
  <2>2. DOMAIN Chain[b].txs = 1 .. Len(Chain[b].txs) /\ Len(Chain[b].txs) \in Int
    BY <1>4, ChainTypes
  <2>3. IsFiniteSet(DOMAIN Chain[b].txs)
    BY <2>2, FS_Interval
  <2> QED BY <2>1, <2>3, FS_Product
<1>5. \A S \in T : IsFiniteSet(S)
  BY <1>4
<1>6. IsFiniteSet(UNION T)
  <2> HIDE DEF T
  <2> QED BY <1>3, <1>5, FS_UNION
<1> QED BY <1>6 DEF Places

LEMMA RankNat ==
  ASSUME NEW a, NEW b, NEW k
  PROVE  IsFiniteSet(Upto(a, b, k)) /\ Rank(a, b, k) \in Nat
<1>1. Upto(a, b, k) \subseteq Places
  BY DEF Upto, Mine
<1> QED BY <1>1, PlacesFinite, FS_Subset, FS_CardinalityType DEF Rank

\* Ranks grow along the chain.
LEMMA RankGrows ==
  ASSUME NEW a, NEW b, NEW k, NEW d, NEW n, Upto(a, b, k) \subseteq Upto(a, d, n)
  PROVE  Rank(a, b, k) <= Rank(a, d, n)
  BY RankNat, FS_Subset DEF Rank

\* The rank of a place is greater than that of any earlier position.
LEMMA RankAbove ==
  ASSUME NEW a, NEW p \in Mine(a), NEW b, NEW k,
         Upto(a, b, k) \subseteq Upto(a, p[1], p[2]), p \notin Upto(a, b, k)
  PROVE  Rank(a, b, k) < RankOf(a, p)
<1>1. p \in Upto(a, p[1], p[2])
  BY PlaceFacts DEF Upto, Mine
<1>2. Upto(a, b, k) # Upto(a, p[1], p[2])
  BY <1>1
<1>3. Rank(a, b, k) <= RankOf(a, p) /\ Rank(a, b, k) # RankOf(a, p)
  BY <1>2, RankNat, FS_Subset DEF Rank, RankOf
<1> QED BY <1>3, RankNat DEF RankOf

\* Different places of an address have different ranks.
LEMMA RankUnique ==
  ASSUME NEW a, NEW p \in Mine(a), NEW s \in Mine(a), RankOf(a, p) = RankOf(a, s)
  PROVE  p = s
<1>1. /\ p = <<p[1], p[2]>> /\ p[1] \in Nat /\ p[2] \in Nat
      /\ s = <<s[1], s[2]>> /\ s[1] \in Nat /\ s[2] \in Nat
  BY PlaceFacts, ChainTypes DEF Mine
<1>2. ASSUME NEW u \in Mine(a), NEW v \in Mine(a), RankOf(a, u) = RankOf(a, v),
             u[1] \in Nat, u[2] \in Nat, v[1] \in Nat, v[2] \in Nat
      PROVE  ~(u[1] < v[1] \/ (u[1] = v[1] /\ u[2] < v[2]))
  <2> SUFFICES ASSUME u[1] < v[1] \/ (u[1] = v[1] /\ u[2] < v[2]) PROVE FALSE
    OBVIOUS
  <2>1. ASSUME NEW w \in Upto(a, u[1], u[2]) PROVE w \in Upto(a, v[1], v[2])
    <3>1. w \in Mine(a) /\ w[1] \in Nat /\ w[2] \in Nat
          /\ (w[1] < u[1] \/ (w[1] = u[1] /\ w[2] <= u[2]))
      BY PlaceFacts, ChainTypes DEF Upto, Mine
    <3>2. w[1] < v[1] \/ (w[1] = v[1] /\ w[2] <= v[2])
      BY <1>2, <3>1
    <3> QED BY <3>1, <3>2 DEF Upto
  <2>2. v \notin Upto(a, u[1], u[2])
    BY <1>2 DEF Upto
  <2>3. RankOf(a, u) < RankOf(a, v)
    BY <2>1, <2>2, RankAbove DEF RankOf
  <2>4. RankOf(a, u) \in Nat
    BY RankNat DEF RankOf
  <2> QED BY <1>2, <2>3, <2>4
<1>3. p[1] = s[1] /\ p[2] = s[2]
  BY <1>1, <1>2
<1> QED BY <1>1, <1>3

\* An id belongs to one place only.
LEMMA OnePlace ==
  ASSUME NEW p \in Places, NEW s \in Places, TxAt(p).id = TxAt(s).id
  PROVE  p = s
<1>1. /\ p = <<p[1], p[2]>> /\ p[1] \in DOMAIN Chain /\ p[2] \in DOMAIN Chain[p[1]].txs
      /\ s = <<s[1], s[2]>> /\ s[1] \in DOMAIN Chain /\ s[2] \in DOMAIN Chain[s[1]].txs
  BY PlaceFacts, ChainTypes
<1>2. p[1] = s[1] /\ p[2] = s[2]
  BY <1>1, UniqueIds DEF TxAt
<1> QED BY <1>1, <1>2

\* One transaction further the rank is one more if it is of the address, and
\* the same if it is not.
LEMMA NextRank ==
  ASSUME NEW a, NEW b \in 1 .. Len(Chain), b > LegacyHeight,
         NEW k \in 1 .. Len(Chain[b].txs)
  PROVE  /\ a \in {Chain[b].txs[k].from, Chain[b].txs[k].to}
                => <<b, k>> \in Mine(a) /\ Rank(a, b, k) = Rank(a, b, k - 1) + 1
         /\ a \notin {Chain[b].txs[k].from, Chain[b].txs[k].to}
                => Rank(a, b, k) = Rank(a, b, k - 1)
<1>1. <<b, k>> \in Places
  BY ChainTypes DEF Places
<1>2. \A p \in Mine(a) : p \in Places /\ p = <<p[1], p[2]>> /\ p[1] \in Nat /\ p[2] \in Nat
  BY PlaceFacts, ChainTypes DEF Mine
<1>k. k \in Nat /\ k > 0 /\ b \in Nat
  BY ChainTypes
<1>3. Upto(a, b, k) \ Upto(a, b, k - 1) = {p \in Mine(a) : p = <<b, k>>}
  <2>1. \A p \in Mine(a) : (p[1] < b \/ (p[1] = b /\ p[2] <= k))
                              /\ ~(p[1] < b \/ (p[1] = b /\ p[2] <= k - 1))
                           <=> p[1] = b /\ p[2] = k
    BY <1>2, <1>k
  <2> QED BY <1>2, <2>1 DEF Upto
<1>4. Upto(a, b, k - 1) \subseteq Upto(a, b, k)
  BY <1>2, <1>k DEF Upto
<1>5. CASE a \in {Chain[b].txs[k].from, Chain[b].txs[k].to}
  <2>1. <<b, k>> \in Mine(a)
    BY <1>1, <1>5 DEF Mine, TxAt
  <2>2. Upto(a, b, k) = Upto(a, b, k - 1) \cup {<<b, k>>} /\ <<b, k>> \notin Upto(a, b, k - 1)
    BY <1>3, <1>4, <2>1
  <2>3. Rank(a, b, k) = Rank(a, b, k - 1) + 1
    BY <2>2, RankNat, FS_AddElement DEF Rank
  <2> QED BY <1>5, <2>1, <2>3
<1>6. CASE a \notin {Chain[b].txs[k].from, Chain[b].txs[k].to}
  <2>1. <<b, k>> \notin Mine(a)
    BY <1>6 DEF Mine, TxAt
  <2>2. Upto(a, b, k) = Upto(a, b, k - 1)
    BY <1>3, <1>4, <2>1
  <2> QED BY <1>6, <2>2 DEF Rank
<1> QED BY <1>5, <1>6

\* A block that is passed is followed by the next one.
LEMMA BlockRank ==
  ASSUME NEW a, NEW b \in 1 .. Len(Chain), NEW k \in Nat
  PROVE  /\ Rank(a, b, k) <= Rank(a, b + 1, 0)
         /\ Rank(a, b, 0) <= Rank(a, b, k)
         /\ k >= Len(Chain[b].txs) => Rank(a, b, k) = Rank(a, b + 1, 0)
<1>1. \A p \in Mine(a) : /\ p[1] \in Nat /\ p[2] \in Nat /\ p[2] > 0
                         /\ p[1] = b => p[2] <= Len(Chain[b].txs)
  BY PlaceFacts, ChainTypes DEF Mine
<1>2. b \in Nat /\ Len(Chain[b].txs) \in Nat
  BY ChainTypes
<1>3. Upto(a, b, k) \subseteq Upto(a, b + 1, 0)
  BY <1>1, <1>2 DEF Upto
<1>4. Upto(a, b, 0) \subseteq Upto(a, b, k)
  BY <1>1, <1>2 DEF Upto
<1>5. ASSUME k >= Len(Chain[b].txs) PROVE Upto(a, b, k) = Upto(a, b + 1, 0)
  <2>1. \A p \in Mine(a) : p[1] < b + 1 \/ (p[1] = b + 1 /\ p[2] <= 0)
                           <=> p[1] < b \/ (p[1] = b /\ p[2] <= k)
    BY <1>1, <1>2, <1>5
  <2> QED BY <2>1 DEF Upto
<1> QED BY <1>3, <1>4, <1>5, RankGrows DEF Rank

-----------------------------------------------------------------------------
(* The two forms of a history, when c entries were committed before the    *)
(* block at work and the current pass has come to number q.                *)

\* The numbers r, r - 1, ... from the newest entry on: r is where the pass, or
\* an earlier one, has come.
Straight(a, hist, c, q, r) ==
    /\ q <= r
    /\ c < q /\ q < r => r <= c + HistoryCap
    /\ Len(hist) = UpToCap(r)
    /\ \A l \in DOMAIN hist : Ranked(a, hist[l], r + 1 - l)

\* An earlier pass came to m and so pushed out c + 1; passes since then have
\* entered c + 1 to j again, above m, m - 1, ....
Broken(a, hist, c, q, j, m) ==
    /\ q <= j
    /\ j < c + HistoryCap /\ c + HistoryCap < m
    /\ Len(hist) = HistoryCap
    /\ \A l \in DOMAIN hist :
          Ranked(a, hist[l], IF l <= j - c THEN j + 1 - l ELSE m + 1 + (j - c) - l)

\* No pass has got further than n.
Fits(a, hist, c, q, n) ==
    \/ \E r \in c .. n : Straight(a, hist, c, q, r)
    \/ \E j, m \in c + 1 .. n : Broken(a, hist, c, q, j, m)

\* An entry shows a place exactly when it has its rank.
LEMMA SameRank ==
  ASSUME NEW a, NEW p \in Mine(a), NEW id, NEW r, Ranked(a, id, r)
  PROVE  id = TxAt(p).id <=> r = RankOf(a, p)
<1>1. PICK s \in Mine(a) : TxAt(s).id = id /\ RankOf(a, s) = r
  BY DEF Ranked
<1> QED BY <1>1, RankUnique, OnePlace DEF Mine

\* An update with a new id puts it first and moves the others down by one, the
\* last of a full history out of it.
LEMMA RememberNew ==
  ASSUME NEW hist \in Seq(TxIds), Len(hist) <= HistoryCap, NEW id \in TxIds,
         ~Has(hist, id)
  PROVE  LET new == Remember(hist, id)
         IN  /\ Len(hist) \in Nat /\ DOMAIN hist = 1 .. Len(hist)
             /\ Len(new) = UpToCap(Len(hist) + 1)
             /\ DOMAIN new = 1 .. Len(new)
             /\ new[1] = id
             /\ \A l \in DOMAIN new : l # 1 => l - 1 \in DOMAIN hist /\ new[l] = hist[l - 1]
<1> DEFINE longer == <<id>> \o hist
           new == Remember(hist, id)
<1>1. Len(hist) \in Nat /\ DOMAIN hist = 1 .. Len(hist)
  BY LenProperties
<1>2. /\ longer \in Seq(TxIds) /\ Len(longer) = Len(hist) + 1
      /\ DOMAIN longer = 1 .. Len(hist) + 1
      /\ \A l \in 1 .. Len(hist) + 1 : longer[l] = IF l <= 1 THEN id ELSE hist[l - 1]
  <2>1. <<id>> \in Seq(TxIds) /\ Len(<<id>>) = 1 /\ <<id>>[1] = id
    OBVIOUS
  <2>2. /\ longer \in Seq(TxIds) /\ Len(longer) = 1 + Len(hist)
        /\ \A l \in 1 .. 1 + Len(hist) : longer[l] = IF l <= 1 THEN <<id>>[l] ELSE hist[l - 1]
    BY <2>1, ConcatProperties
  <2>3. DOMAIN longer = 1 .. Len(longer)
    BY <2>2, LenProperties
  <2> HIDE DEF longer
  <2> QED BY <1>1, <2>1, <2>2, <2>3
<1>3. CASE Len(longer) > HistoryCap
  <2>1. \A l \in 1 .. HistoryCap : longer[l] \in TxIds
    BY <1>1, <1>2, <1>3, ElementOfSeq
  <2>2. new = SubSeq(longer, 1, HistoryCap)
    BY <1>3 DEF Remember
  <2> HIDE DEF longer, new
  <2>3. /\ new \in Seq(TxIds) /\ Len(new) = HistoryCap
        /\ \A l \in 1 .. HistoryCap : new[l] = longer[l]
    BY <2>1, <2>2, SubSeqProperties
  <2>4. DOMAIN new = 1 .. HistoryCap
    BY <2>3, LenProperties
  <2>5. Len(hist) = HistoryCap
    BY <1>1, <1>2, <1>3
  <2> QED BY <1>1, <1>2, <2>3, <2>4, <2>5 DEF UpToCap, new
<1>4. CASE ~(Len(longer) > HistoryCap)
  <2>1. new = longer
    BY <1>4 DEF Remember
  <2> HIDE DEF longer, new
  <2> QED BY <1>1, <1>2, <1>4, <2>1 DEF UpToCap, new
<1> QED BY <1>3, <1>4

\* A transaction that this pass has been at is in the history.
LEMMA SeenIsThere ==
  ASSUME NEW a, NEW hist \in Seq(TxIds), NEW c \in Nat, NEW n \in Nat,
         NEW p \in Mine(a), RankOf(a, p) > c, Fits(a, hist, c, RankOf(a, p), n)
  PROVE  Remember(hist, TxAt(p).id) = hist
<1> DEFINE q == RankOf(a, p)
<1>1. q \in Nat /\ DOMAIN hist = 1 .. Len(hist) /\ Len(hist) \in Nat
  BY RankNat, LenProperties DEF RankOf
<1>2. ASSUME NEW l \in DOMAIN hist, Ranked(a, hist[l], q)
      PROVE  Has(hist, TxAt(p).id)
  BY <1>2, SameRank DEF Has
<1> HIDE DEF q
<1>3. ASSUME NEW r \in c .. n, Straight(a, hist, c, q, r)
      PROVE  Has(hist, TxAt(p).id)
  <2>1. r + 1 - q \in 1 .. Len(hist)
    BY <1>1, <1>3 DEF Straight, UpToCap, q
  <2>2. r + 1 - (r + 1 - q) = q
    BY <1>1
  <2> QED BY <1>1, <1>2, <1>3, <2>1, <2>2 DEF Straight
<1>4. ASSUME NEW j \in c + 1 .. n, NEW m \in c + 1 .. n, Broken(a, hist, c, q, j, m)
      PROVE  Has(hist, TxAt(p).id)
  <2>1. j + 1 - q \in 1 .. Len(hist) /\ j + 1 - q <= j - c
    BY <1>1, <1>4 DEF Broken, q
  <2>2. j + 1 - (j + 1 - q) = q
    BY <1>1
  <2> QED BY <1>1, <1>2, <1>4, <2>1, <2>2 DEF Broken
<1>5. Has(hist, TxAt(p).id)
  BY <1>3, <1>4 DEF Fits, q
<1> QED BY <1>5 DEF Remember

\* What the update of a history does when the pass comes to the next
\* transaction of the address.
LEMMA UpdateFits ==
  ASSUME NEW a, NEW hist \in Seq(TxIds), Len(hist) <= HistoryCap,
         NEW c \in Nat, NEW q \in Nat, NEW n \in Nat, c <= q, q + 1 <= n,
         NEW p \in Mine(a), RankOf(a, p) = q + 1, Fits(a, hist, c, q, n)
  PROVE  Fits(a, Remember(hist, TxAt(p).id), c, q + 1, n)
<1> DEFINE id == TxAt(p).id
           new == Remember(hist, id)
<1>1. id \in TxIds
  BY PlaceFacts DEF Mine, Tx
<1>2. DOMAIN hist = 1 .. Len(hist) /\ Len(hist) \in Nat
  BY LenProperties
<1>3. Ranked(a, id, q + 1)
  BY DEF Ranked
<1>4. \A l \in DOMAIN hist : \A x : Ranked(a, hist[l], x) => (hist[l] = id <=> x = q + 1)
  BY SameRank
<1>5. Has(hist, id) => new = hist
  BY DEF Remember
<1>6. ~Has(hist, id) =>
         /\ Len(new) = UpToCap(Len(hist) + 1)
         /\ DOMAIN new = 1 .. Len(new)
         /\ new[1] = id
         /\ \A l \in DOMAIN new : l # 1 => l - 1 \in DOMAIN hist /\ new[l] = hist[l - 1]
  BY <1>1, RememberNew
<1> HIDE DEF id, new
<1>7. ASSUME NEW r \in c .. n, Straight(a, hist, c, q, r)
      PROVE  Fits(a, new, c, q + 1, n)
  <2>1. /\ q <= r /\ (c < q /\ q < r => r <= c + HistoryCap)
        /\ Len(hist) = UpToCap(r)
        /\ \A l \in DOMAIN hist : Ranked(a, hist[l], r + 1 - l)
    BY <1>7 DEF Straight
  <2>2. CASE q < r /\ r <= c + HistoryCap
    <3>1. r - q \in DOMAIN hist /\ r + 1 - (r - q) = q + 1
      BY <1>2, <2>1, <2>2 DEF UpToCap
    <3>2. hist[r - q] = id
      BY <1>4, <2>1, <3>1
    <3>3. new = hist
      BY <1>5, <3>1, <3>2 DEF Has
    <3>4. Straight(a, new, c, q + 1, r)
      BY <2>1, <2>2, <3>3 DEF Straight
    <3> QED BY <3>4 DEF Fits
  <2>3. CASE q < r /\ ~(r <= c + HistoryCap)
    <3>1. q = c /\ Len(hist) = HistoryCap
      BY <2>1, <2>3 DEF UpToCap
    <3>2. \A l \in DOMAIN hist : r + 1 - l # q + 1
      BY <1>2, <2>3, <3>1
    <3>3. ~Has(hist, id)
      <4>1. ASSUME NEW l \in DOMAIN hist PROVE hist[l] # id
        <5>1. Ranked(a, hist[l], r + 1 - l) /\ r + 1 - l # q + 1
          BY <2>1, <3>2
        <5> QED BY <1>4, <5>1
      <4> QED BY <4>1 DEF Has
    <3>4. Len(new) = HistoryCap /\ DOMAIN new = 1 .. HistoryCap
      <4>1. UpToCap(Len(hist) + 1) = HistoryCap
        BY <3>1 DEF UpToCap
      <4>2. Len(new) = UpToCap(Len(hist) + 1) /\ DOMAIN new = 1 .. Len(new)
        BY <1>6, <3>3
      <4> QED BY <4>1, <4>2
    <3>5. CASE HistoryCap = 1
      <4>1. Len(new) = UpToCap(c + 1)
        BY <3>4, <3>5 DEF UpToCap
      <4>2. \A l \in DOMAIN new : Ranked(a, new[l], c + 1 + 1 - l)
        <5>1. \A l \in DOMAIN new : l = 1 /\ c + 1 + 1 - l = q + 1
          BY <3>1, <3>4, <3>5
        <5> QED BY <1>3, <1>6, <3>3, <5>1
      <4>3. Straight(a, new, c, q + 1, c + 1)
        BY <3>1, <4>1, <4>2 DEF Straight
      <4> QED BY <3>1, <4>3 DEF Fits
    <3>6. CASE HistoryCap > 1
      <4>1. ASSUME NEW l \in DOMAIN new
            PROVE  Ranked(a, new[l], IF l <= c + 1 - c THEN c + 1 + 1 - l
                                     ELSE r + 1 + (c + 1 - c) - l)
        <5>1. CASE l = 1
          <6>1. c + 1 + 1 - l = q + 1 /\ l <= c + 1 - c
            BY <3>1, <5>1
          <6> QED BY <1>3, <1>6, <3>3, <5>1, <6>1
        <5>2. CASE l # 1
          <6>1. l \in Nat /\ ~(l <= c + 1 - c) /\ r + 1 + (c + 1 - c) - l = r + 1 - (l - 1)
            BY <3>4, <4>1, <5>2
          <6>2. Ranked(a, new[l], r + 1 - (l - 1))
            BY <1>6, <2>1, <3>3, <5>2
          <6> QED BY <6>1, <6>2
        <5> QED BY <5>1, <5>2
      <4>2. Broken(a, new, c, q + 1, c + 1, r)
        BY <2>3, <3>1, <3>4, <3>6, <4>1 DEF Broken
      <4> QED BY <2>3, <3>1, <4>2 DEF Fits
    <3> QED BY <3>5, <3>6
  <2>4. CASE q = r
    <3>1. \A l \in DOMAIN hist : r + 1 - l # q + 1
      BY <1>2, <2>4
    <3>2. ~Has(hist, id)
      <4>1. ASSUME NEW l \in DOMAIN hist PROVE hist[l] # id
        <5>1. Ranked(a, hist[l], r + 1 - l) /\ r + 1 - l # q + 1
          BY <2>1, <3>1
        <5> QED BY <1>4, <5>1
      <4> QED BY <4>1 DEF Has
    <3>3. Len(new) = UpToCap(r + 1) /\ DOMAIN new = 1 .. Len(new) /\ Len(new) \in Nat
      <4>1. UpToCap(Len(hist) + 1) = UpToCap(r + 1) /\ UpToCap(r + 1) \in Nat
        BY <2>1 DEF UpToCap
      <4>2. Len(new) = UpToCap(Len(hist) + 1) /\ DOMAIN new = 1 .. Len(new)
        BY <1>6, <3>2
      <4> QED BY <4>1, <4>2
    <3>4. ASSUME NEW l \in DOMAIN new PROVE Ranked(a, new[l], r + 1 + 1 - l)
      <4>1. CASE l = 1
        <5>1. r + 1 + 1 - l = q + 1
          BY <2>4, <4>1
        <5> QED BY <1>3, <1>6, <3>2, <4>1, <5>1
      <4>2. CASE l # 1
        <5>1. r + 1 + 1 - l = r + 1 - (l - 1)
          BY <3>3, <3>4
        <5>2. Ranked(a, new[l], r + 1 - (l - 1))
          BY <1>6, <2>1, <3>2, <4>2
        <5> QED BY <5>1, <5>2
      <4> QED BY <4>1, <4>2
    <3>5. Straight(a, new, c, q + 1, r + 1)
      BY <2>4, <3>3, <3>4 DEF Straight
    <3>6. r + 1 \in c .. n
      BY <2>4
    <3> QED BY <3>5, <3>6 DEF Fits
  <2> QED BY <2>1, <2>2, <2>3, <2>4
<1>8. ASSUME NEW j \in c + 1 .. n, NEW m \in c + 1 .. n, Broken(a, hist, c, q, j, m)
      PROVE  Fits(a, new, c, q + 1, n)
  <2>1. /\ q <= j /\ j < c + HistoryCap /\ c + HistoryCap < m
        /\ Len(hist) = HistoryCap
        /\ \A l \in DOMAIN hist :
              Ranked(a, hist[l], IF l <= j - c THEN j + 1 - l ELSE m + 1 + (j - c) - l)
    BY <1>8 DEF Broken
  <2>2. CASE q < j
    <3>1. j - q \in DOMAIN hist /\ j - q <= j - c /\ j + 1 - (j - q) = q + 1
      BY <1>2, <2>1, <2>2
    <3>2. hist[j - q] = id
      BY <1>4, <2>1, <3>1
    <3>3. new = hist
      BY <1>5, <3>1, <3>2 DEF Has
    <3>4. Broken(a, new, c, q + 1, j, m)
      BY <2>1, <2>2, <3>3 DEF Broken
    <3> QED BY <3>4 DEF Fits
  <2>3. CASE q = j
    <3>1. \A l \in DOMAIN hist :
             (IF l <= j - c THEN j + 1 - l ELSE m + 1 + (j - c) - l) # q + 1
      BY <1>2, <2>1, <2>3
    <3>2. ~Has(hist, id)
      <4>1. ASSUME NEW l \in DOMAIN hist PROVE hist[l] # id
        <5>1. \E x : Ranked(a, hist[l], x) /\ x # q + 1
          BY <2>1, <3>1
        <5> QED BY <1>4, <5>1
      <4> QED BY <4>1 DEF Has
    <3>3. Len(new) = HistoryCap /\ DOMAIN new = 1 .. HistoryCap
      <4>1. UpToCap(Len(hist) + 1) = HistoryCap
        BY <2>1 DEF UpToCap
      <4>2. Len(new) = UpToCap(Len(hist) + 1) /\ DOMAIN new = 1 .. Len(new)
        BY <1>6, <3>2
      <4> QED BY <4>1, <4>2
    <3>4. ASSUME NEW l \in DOMAIN new
          PROVE  Ranked(a, new[l], IF l <= j + 1 - c THEN j + 1 + 1 - l
                                   ELSE m + 1 + (j + 1 - c) - l)
      <4>1. CASE l = 1
        <5>1. j + 1 + 1 - l = q + 1 /\ l <= j + 1 - c
          BY <2>3, <4>1
        <5> QED BY <1>3, <1>6, <3>2, <4>1, <5>1
      <4>2. CASE l # 1
        <5>1. l \in Nat
          BY <3>3, <3>4
        <5>2. /\ l <= j + 1 - c <=> l - 1 <= j - c
              /\ j + 1 + 1 - l = j + 1 - (l - 1)
          BY <5>1
        <5>4. m + 1 + (j + 1 - c) - l = m + 1 + (j - c) - (l - 1)
          BY <5>1
        <5>3. Ranked(a, new[l], IF l - 1 <= j - c THEN j + 1 - (l - 1)
                                ELSE m + 1 + (j - c) - (l - 1))
          BY <1>6, <2>1, <3>2, <4>2
        <5> QED BY <5>2, <5>3, <5>4
      <4> QED BY <4>1, <4>2
    <3>5. CASE j + 1 < c + HistoryCap
      <4>1. Broken(a, new, c, q + 1, j + 1, m)
        BY <2>1, <2>3, <3>3, <3>4, <3>5 DEF Broken
      <4>2. j + 1 \in c + 1 .. n
        BY <2>3
      <4> QED BY <4>1, <4>2 DEF Fits
    <3>6. CASE ~(j + 1 < c + HistoryCap)
      <4>1. j + 1 = c + HistoryCap
        BY <2>1, <3>6
      <4>2. \A l \in DOMAIN new : l <= j + 1 - c
        BY <3>3, <4>1
      <4>3. \A l \in DOMAIN new : Ranked(a, new[l], j + 1 + 1 - l)
        BY <3>4, <4>2
      <4>4. Len(new) = UpToCap(j + 1)
        BY <3>3, <4>1 DEF UpToCap
      <4>5. Straight(a, new, c, q + 1, j + 1)
        BY <2>3, <4>3, <4>4 DEF Straight
      <4>6. j + 1 \in c .. n
        BY <2>3
      <4> QED BY <4>5, <4>6 DEF Fits
    <3> QED BY <3>5, <3>6
  <2> QED BY <2>1, <2>2, <2>3
<1> QED BY <1>7, <1>8 DEF Fits, new, id

\* A pass may start anew at any time, and the next one may get further.
LEMMA FitsAgain ==
  ASSUME NEW a, NEW hist, NEW c \in Nat, NEW q \in Nat, NEW n \in Nat,
         NEW s \in {c, q}, NEW x \in Nat,
         c <= q, n <= x, Fits(a, hist, c, q, n)
  PROVE  Fits(a, hist, c, s, x)
<1>1. \A r \in c .. n : Straight(a, hist, c, q, r) => Straight(a, hist, c, s, r) /\ r \in c .. x
  BY DEF Straight
<1>2. \A j, m \in c + 1 .. n : Broken(a, hist, c, q, j, m)
        => Broken(a, hist, c, s, j, m) /\ j \in c + 1 .. x /\ m \in c + 1 .. x
  BY DEF Broken
<1> QED BY <1>1, <1>2 DEF Fits

\* When the pass has seen the whole block, the history is straight, and the
\* next block finds it so.
LEMMA FitsDone ==
  ASSUME NEW a, NEW hist, NEW c \in Nat, NEW n \in Nat, Fits(a, hist, c, n, n)
  PROVE  Fits(a, hist, n, n, n)
<1>1. \A r \in c .. n : Straight(a, hist, c, n, r) => r = n /\ Straight(a, hist, n, n, n)
  BY DEF Straight
<1>2. \A j, m \in c + 1 .. n : ~Broken(a, hist, c, n, j, m)
  BY DEF Broken
<1>3. n \in n .. n
  OBVIOUS
<1> QED BY <1>1, <1>2, <1>3 DEF Fits

-----------------------------------------------------------------------------
(* The invariant of the histories *)

Current == LocalHeight + 1

Before(a) == Rank(a, Current, 0)

Last(a) == IF Current \in Begun THEN Rank(a, Current + 1, 0) ELSE Before(a)

\* Both addresses of the transaction have it in their history.
Noted == {"account", "balance", "nonce", "txIndex", "piece", "vm"}

Seen(a) ==
    IF pc \in InLoop
    THEN Rank(a, h, IF pc \in Noted \/ (pc = "histTo" /\ a = tx.from) THEN i ELSE i - 1)
    ELSE Before(a)

\* The addresses of what the conversion dropped have lost their histories.
Dropped ==
    pc \in Working \ {"fetch"} =>
        \A k \in DOMAIN Txs : k > got.txs =>
            HistoryKey(Txs[k].from) \in lapsed /\ HistoryKey(Txs[k].to) \in lapsed

HistoryFits ==
    \A a \in Addrs : HistoryKey(a) \notin lapsed =>
        Fits(a, history[a], Before(a), Seen(a), Last(a))

Calm == mishaps \subseteq {"crash"}

HistoryInv ==
    /\ SyncInv
    /\ Dropped
    /\ Calm => Begun \subseteq 1 .. Current /\ HistoryFits

LEMMA HistoryInit == Init => HistoryInv
<1> SUFFICES ASSUME Init PROVE Dropped /\ Begun \subseteq 1 .. Current /\ HistoryFits
  BY SyncInit DEF HistoryInv
<1>1. Current = LegacyHeight + 1 /\ Begun = {} /\ pc \notin Working /\ LegacyHeight \in Nat
  BY ChainTypes DEF Init, Current, LocalHeight, Working, Begun
<1>2. ASSUME NEW a \in Addrs PROVE Fits(a, history[a], Before(a), Seen(a), Last(a))
  <2>1. Upto(a, LegacyHeight + 1, 0) = {}
    BY <1>1, PlaceFacts, ChainTypes DEF Upto, Mine
  <2>2. Before(a) = 0 /\ Seen(a) = 0 /\ Last(a) = 0
    BY <1>1, <2>1, FS_EmptySet DEF Before, Seen, Last, Rank, InLoop, InBlock
  <2>3. history[a] = <<>>
    BY DEF Init
  <2>4. Straight(a, <<>>, 0, 0, 0)
    BY DEF Straight, UpToCap
  <2> QED BY <2>2, <2>3, <2>4 DEF Fits
<1> QED BY <1>1, <1>2 DEF HistoryFits, Dropped

\* Where the crawler is, in ranks.
LEMMA HistoryFacts ==
  ASSUME HistoryInv, Calm, NEW a \in Addrs
  PROVE  /\ Current \in Nat /\ Current > LegacyHeight
         /\ Before(a) \in Nat /\ Seen(a) \in Nat /\ Last(a) \in Nat
         /\ Before(a) <= Seen(a)
         /\ pc \in Working => h = Current /\ h \in 1 .. Len(Chain)
         /\ pc \in InLoop => h \in Begun /\ i \in Nat /\ i > 0 /\ Last(a) = Rank(a, h + 1, 0)
<1>1. ControlOK /\ CrawlInv /\ WorkInv
      /\ mishaps \cap Lost = {} /\ "oldHeight" \notin mishaps
  BY DEF HistoryInv, SyncInv, Calm, Lost
<1>2. Current \in Nat /\ Current > LegacyHeight /\ LocalHeight \in Nat
  BY <1>1, ChainTypes DEF Current, LocalHeight, ControlOK, CrawlInv
<1>3. Before(a) \in Nat /\ Seen(a) \in Nat /\ Last(a) \in Nat
  BY RankNat DEF Before, Seen, Last
<1>4. pc \in Working => h = Current /\ h \in 1 .. Len(Chain)
  <2>1. pc \in Working => h \in 1 .. Len(Chain) /\ h > LocalHeight /\ h <= LocalHeight + 1
    BY <1>1, CurrentTx DEF CrawlInv
  <2> QED BY <1>2, <2>1 DEF Current
<1>5. pc \in InLoop => h \in Begun /\ i \in Nat /\ i > 0 /\ Last(a) = Rank(a, h + 1, 0)
  <2>1. pc \in InLoop => pc \in InBlock /\ pc \in Working
    BY DEF InLoop, InBlock
  <2>2. pc \in InLoop => h \in Begun
    BY <1>1, <1>4, <2>1, ChainTypes DEF WorkInv, Held, Begun
  <2>3. pc \in InLoop => i \in Nat /\ i > 0
    BY <1>1, <2>1 DEF CrawlInv, ControlOK
  <2> QED BY <1>4, <2>1, <2>2, <2>3 DEF Last
<1>6. Before(a) <= Seen(a)
  <2>1. CASE pc \in InLoop
    <3>1. h = Current /\ h \in 1 .. Len(Chain) /\ i \in Nat /\ i - 1 \in Nat
      BY <1>4, <1>5, <2>1 DEF InLoop, InBlock
    <3> QED BY <2>1, <3>1, BlockRank DEF Before, Seen
  <2>2. CASE pc \notin InLoop
    BY <1>3, <2>2 DEF Seen
  <2> QED BY <2>1, <2>2
<1> QED BY <1>2, <1>3, <1>4, <1>5, <1>6

LEMMA HistoryKeyStays ==
  ASSUME [Next]_vars, NEW a, HistoryKey(a) \in lapsed PROVE HistoryKey(a) \in lapsed'
  BY Keeps, Lapses DEF HistoryKey, BlockKey, BalanceKey, NonceKey, TxKey, PaidKey, AssetKey

\* The keys of blocks lapse only at the block at work.
LEMMA BlockKeyLapses ==
  ASSUME [Next]_vars, NEW b, BlockKey(b) \in lapsed', BlockKey(b) \notin lapsed
  PROVE  pc \in Working /\ b = h
<1> USE DEF BlockKey, Working, Steps
<1>1. CASE PollIdle \/ Poll \/ PollReadFails \/ FetchFails \/ Fetch \/ UNCHANGED vars
  BY <1>1 DEF vars, PollIdle, Poll, PollReadFails, StartFrom, FetchFails, Fetch
<1>2. CASE FetchGarbled
  <2>1. \A t : BlockKey(b) \notin KeysOf(t)
    BY DEF KeysOf, TxKey, PaidKey, AssetKey, HistoryKey, BalanceKey, NonceKey
  <2> QED BY <1>2, <2>1 DEF FetchGarbled, Fetched
<1>3. CASE PutBlock \/ PutBalance \/ PutNonce \/ PutTx \/ PutPiece \/ ExecuteNative
  BY <1>3, Lapses
<1>4. CASE PutShelf \/ GetIdentity \/ IdentityReadFails \/ PutReward \/ NextTx \/ PutHistory
           \/ GetAccount \/ Commit \/ Panic \/ Crash
  BY <1>4 DEF PutShelf, GetIdentity, IdentityReadFails, PutReward, NextTx, PutHistory,
              GetAccount, Commit, Panic, Crash
<1>5. CASE HistoryReadFails \/ AccountFails
  BY <1>5 DEF HistoryReadFails, AccountFails, HistoryKey, BalanceKey, NonceKey
<1>6. CASE PutFails
  BY <1>6 DEF PutFails, Unwritten, TxKey, PaidKey, AssetKey, HistoryKey, BalanceKey, NonceKey
<1>7. CASE \/ Grow \/ \E m \in Miners : MapValidator(m)
           \/ \E asset \in shelf : Sell(asset)
           \/ \E a \in Visitors, height \in 0 .. coreHeight : StoreBalance(a, height)
           \/ \E a \in Visitors, list \in Answers : StoreHistory(a, list)
  BY <1>7 DEF Grow, MapValidator, Sell, StoreBalance, StoreHistory, HistoryKey, BalanceKey
<1> QED BY <1>1, <1>2, <1>3, <1>4, <1>5, <1>6, <1>7 DEF Next, SyncStep

\* The crawler never unbegins a block, and begins only the one at work.
LEMMA BegunStep ==
  ASSUME SyncInv, [Next]_vars
  PROVE  /\ Begun \subseteq Begun'
         /\ \A b \in Begun' : b \in Begun \/ (pc \in Working /\ b = h)
<1>1. blocks \subseteq DOMAIN Chain
  BY ChainTypes DEF SyncInv, DataOK
<1>2. ASSUME NEW b \in Begun PROVE b \in Begun'
  <2>1. Held(b) /\ b \in DOMAIN Chain
    BY <1>1 DEF Begun, Held
  <2>2. Held(b)'
    BY <2>1, HeldStays
  <2> QED BY <2>1, <2>2 DEF Begun, Held
<1>3. ASSUME NEW b \in Begun' PROVE b \in Begun \/ (pc \in Working /\ b = h)
  <2>1. CASE b \in blocks' /\ b \notin blocks
    <3>1. PutBlock
      BY <2>1, Keeps
    <3>2. blocks' \subseteq blocks \cup {h} /\ pc = "block"
      BY <3>1 DEF PutBlock
    <3> QED BY <2>1, <3>2 DEF Working, Steps
  <2>2. CASE b \in blocks
    BY <2>2 DEF Begun
  <2>3. CASE b \in DOMAIN Chain /\ BlockKey(b) \in lapsed'
    BY <2>3, BlockKeyLapses DEF Begun
  <2> QED BY <2>1, <2>2, <2>3 DEF Begun
<1> QED BY <1>2, <1>3

LEMMA DroppedStep ==
  ASSUME HistoryInv, [Next]_vars PROVE Dropped'
<1> SUFFICES ASSUME pc' \in Working \ {"fetch"}, NEW k \in DOMAIN Txs', k > got'.txs
             PROVE  HistoryKey(Txs'[k].from) \in lapsed' /\ HistoryKey(Txs'[k].to) \in lapsed'
  BY DEF Dropped
<1>1. SyncInv /\ ControlOK /\ CrawlInv /\ Dropped
  BY DEF HistoryInv, SyncInv
<1>2. CASE pc = "fetch" /\ (Fetch \/ FetchGarbled)
  <2>1. Txs' = Txs /\ DOMAIN Txs = 1 .. Len(Txs) /\ Len(Txs) \in Nat /\ Txs = Chain[h].txs
    BY <1>1, <1>2, CurrentTx
    DEF Fetch, FetchGarbled, Fetched, loopVars, Txs, Working, Steps
  <2>2. CASE Fetch
    BY <2>1, <2>2 DEF Fetch, Whole
  <2>3. CASE FetchGarbled
    <3>1. got'.txs \in Nat
      <4>1. got' \in Parts(h)
        BY <2>3 DEF FetchGarbled
      <4> QED BY <2>1, <4>1 DEF Parts
    <3>2. k \in got'.txs + 1 .. Len(Txs)
      BY <2>1, <3>1
    <3>3. KeysOf(Txs[k]) \subseteq lapsed'
      BY <2>3, <3>2 DEF FetchGarbled
    <3> QED BY <2>1, <3>3 DEF KeysOf
  <2> QED BY <1>2, <2>2, <2>3
<1>3. CASE ~(pc = "fetch" /\ (Fetch \/ FetchGarbled))
  <2>1. pc \in Working \ {"fetch"} /\ UNCHANGED <<h, got>>
    BY <1>1, <1>3, Course DEF Working, Steps
  <2>2. Txs' = Txs
    BY <2>1 DEF Txs
  <2>3. HistoryKey(Txs[k].from) \in lapsed /\ HistoryKey(Txs[k].to) \in lapsed
    BY <1>1, <2>1, <2>2 DEF Dropped
  <2>4. \A a : HistoryKey(a) \in lapsed => HistoryKey(a) \in lapsed'
    BY HistoryKeyStays
  <2> QED BY <2>2, <2>3, <2>4
<1> QED BY <1>2, <1>3

-----------------------------------------------------------------------------
(* A step other than a commit: what it does to one history *)

LEMMA HistoryFrame ==
  ASSUME [Next]_vars, ~PutHistory, ~HistoryReadFails,
         ~(\E a \in Visitors, list \in Answers : StoreHistory(a, list))
  PROVE  history' = history
  BY DEF Next, SyncStep, vars, indexVars, PollIdle, Poll, PollReadFails, StartFrom, FetchFails,
         Fetch, FetchGarbled, Fetched, PutBlock, PutShelf, GetIdentity, IdentityReadFails,
         PutReward, NextTx, GetAccount, AccountFails, PutBalance, PutNonce, PutTx, PutPiece,
         ExecuteNative, Commit, PutFails, Panic, Grow, MapValidator, Sell, StoreBalance, Crash

\* A history changes only with its transaction, unless its key lapses.
LEMMA HistoryKept ==
  ASSUME DataOK, [Next]_vars, NEW a \in Addrs, HistoryKey(a) \notin lapsed',
         ~(PutHistory /\ a = Owner)
  PROVE  history'[a] = history[a]
<1>1. history \in [Addrs -> Seq(TxIds)]
  BY DEF DataOK
<1>2. CASE PutHistory
  BY <1>1, <1>2 DEF PutHistory
<1>3. CASE HistoryReadFails
  BY <1>1, <1>3 DEF HistoryReadFails, HistoryKey
<1>4. CASE \E b \in Visitors, list \in Answers : StoreHistory(b, list)
  BY <1>1, <1>4 DEF StoreHistory, HistoryKey
<1> QED BY <1>2, <1>3, <1>4, HistoryFrame

\* Without a commit the pass over a history stays where it is or starts anew,
\* except at the Put of one of its transactions.
LEMMA SeenStays ==
  ASSUME HistoryInv, Calm, [Next]_vars, ~Commit,
         mishaps' \subseteq {"crash"},
         NEW a \in Addrs, HistoryKey(a) \notin lapsed', ~(PutHistory /\ a = Owner)
  PROVE  Seen(a)' \in {Before(a), Seen(a)}
<1>1. /\ ControlOK /\ CrawlInv /\ latest' = latest /\ Current' = Current
      /\ ControlOK' /\ CrawlInv'
  BY LatestFrame, SyncNext DEF HistoryInv, SyncInv, Current, LocalHeight
<1>2. CASE pc' \notin InLoop
  BY <1>1, <1>2 DEF Seen, Before
<1>3. ASSUME pc' \in InLoop PROVE Seen(a)' \in {Before(a), Seen(a)}
  <2>1. pc' \in Working
    BY <1>3 DEF InLoop, InBlock
  <2>2. pc \in Working /\ h' = h
    BY <1>1, <1>3, <2>1, Course DEF InLoop, InBlock, Working, Steps
  <2>3. h = Current /\ h \in 1 .. Len(Chain) /\ i \in Nat /\ h > LegacyHeight
    BY <1>1, <2>2, HistoryFacts DEF ControlOK
  <2>4. Txs' = Txs /\ (i' = i => tx' = tx)
    BY <2>2 DEF Txs, tx
  <2> USE DEF InLoop, InBlock, Noted, Working, Steps
  <2>5. CASE pc' = "tx" /\ i' = 1
    <3>1. 1 - 1 = 0
      OBVIOUS
    <3> QED BY <2>2, <2>3, <2>5, <3>1 DEF Seen, Before
  <2>6. CASE pc \in InLoop /\ i' = i /\ pc \notin Noted \cup {"histTo"}
             /\ pc' \notin Noted \cup {"histTo"}
    BY <1>3, <2>2, <2>6 DEF Seen
  <2>7. CASE i' = i /\ pc \in Noted /\ pc' \in Noted
    BY <2>2, <2>7 DEF Seen
  <2>8. CASE pc = "vm" /\ pc' = "tx" /\ i' = i + 1
    <3>1. i' - 1 = i
      BY <2>3, <2>8
    <3>2. Seen(a)' = Rank(a, h, i' - 1) /\ Seen(a) = Rank(a, h, i)
      BY <2>2, <2>8 DEF Seen
    <3> QED BY <3>1, <3>2
  <2>9. CASE UNCHANGED <<pc, i>>
    BY <1>3, <2>2, <2>4, <2>9 DEF Seen
  <2>10. ASSUME pc \in {"histFrom", "histTo"}, PutHistory \/ HistoryReadFails \/ PutFails
         PROVE  a # Owner
    BY <2>10 DEF HistoryReadFails, PutFails, Unwritten
  <2>11. CASE pc = "histFrom" /\ pc' = "histTo" /\ i' = i /\ a # Owner
    <3>1. a # tx'.from
      BY <2>4, <2>11 DEF Owner
    <3> QED BY <2>2, <2>11, <3>1 DEF Seen
  <2>12. CASE pc = "histTo" /\ pc' = "account" /\ i' = i /\ a # Owner
    <3>1. Seen(a)' = Rank(a, h, i)
      BY <2>2, <2>12 DEF Seen
    <3>2. Seen(a) = IF a = tx.from THEN Rank(a, h, i) ELSE Rank(a, h, i - 1)
      BY <2>12 DEF Seen
    <3>3. a # tx.from => Rank(a, h, i) = Rank(a, h, i - 1)
      <4>1. i \in 1 .. Len(Chain[h].txs) /\ tx = Chain[h].txs[i]
        BY <1>1, <2>2, <2>12, CurrentTx DEF Txs, tx, InTx
      <4>2. a # tx.to
        BY <2>12 DEF Owner
      <4> QED BY <2>3, <4>1, <4>2, NextRank
    <3> QED BY <3>1, <3>2, <3>3
  <2>13. \/ pc' = "tx" /\ i' = 1
         \/ pc \in InLoop /\ i' = i /\ pc \notin Noted \cup {"histTo"}
               /\ pc' \notin Noted \cup {"histTo"}
         \/ i' = i /\ pc \in Noted /\ pc' \in Noted
         \/ pc = "vm" /\ pc' = "tx" /\ i' = i + 1
         \/ UNCHANGED <<pc, i>>
         \/ /\ pc = "histFrom" /\ pc' = "histTo" /\ i' = i
            /\ PutHistory \/ HistoryReadFails \/ PutFails
         \/ /\ pc = "histTo" /\ pc' = "account" /\ i' = i
            /\ PutHistory \/ HistoryReadFails \/ PutFails
    BY <1>1, <1>3, <2>1, Course DEF CrawlInv
  <2> QED BY <2>5, <2>6, <2>7, <2>8, <2>9, <2>10, <2>11, <2>12, <2>13
<1> QED BY <1>2, <1>3

\* Such a step may begin the block at work: an earlier pass may get further.
LEMMA LastGrows ==
  ASSUME HistoryInv, Calm, [Next]_vars, ~Commit, NEW a \in Addrs
  PROVE  /\ Current' = Current /\ Before(a)' = Before(a) /\ Begun' \subseteq 1 .. Current
         /\ Last(a)' \in Nat /\ Last(a) <= Last(a)'
<1>1. Current' = Current
  BY LatestFrame DEF Current, LocalHeight
<1>2. SyncInv /\ SyncInv'
  BY SyncNext DEF HistoryInv
<1>3. /\ Begun \subseteq Begun' /\ \A b \in Begun' : b \in Begun \/ b = Current
  BY <1>2, BegunStep, HistoryFacts
<1>4. Begun' \subseteq 1 .. Current
  <2>1. Current \in Nat /\ Current > 0
    BY ChainTypes, HistoryFacts
  <2> QED BY <1>3, <2>1 DEF HistoryInv
<1>5. Last(a)' \in Nat /\ Last(a) <= Last(a)'
  <2>1. CASE Current \in Begun
    BY <1>1, <1>3, <2>1, HistoryFacts, RankNat DEF Last
  <2>2. CASE Current \notin Begun /\ Current \in Begun'
    <3>1. Begun' \subseteq 1 .. Len(Chain)
      <4>1. blocks' \subseteq 1 .. Len(Chain)
        BY <1>2 DEF SyncInv, DataOK
      <4> QED BY <4>1, ChainTypes DEF Begun
    <3>2. Rank(a, Current, 0) <= Rank(a, Current + 1, 0)
      BY <2>2, <3>1, BlockRank
    <3> QED BY <1>1, <2>2, <3>2, RankNat DEF Last, Before
  <2>3. CASE Current \notin Begun'
    BY <1>1, <1>3, <2>3, HistoryFacts DEF Last, Before
  <2> QED BY <2>1, <2>2, <2>3
<1> QED BY <1>1, <1>4, <1>5 DEF Before

\* At its Put the history takes the next transaction in, or has it already.
LEMMA HistoryPut ==
  ASSUME HistoryInv, Calm, PutHistory, NEW a \in Addrs, a = Owner,
         HistoryKey(a) \notin lapsed
  PROVE  Fits(a, history'[a], Before(a), Seen(a)', Last(a))
<1>1. /\ pc \in {"histFrom", "histTo"} /\ pc \in InTx /\ pc \in InLoop /\ pc \in Working
      /\ ControlOK /\ CrawlInv /\ DataOK
  BY DEF PutHistory, InTx, InLoop, InBlock, Working, Steps, HistoryInv, SyncInv
<1>2. /\ h \in 1 .. Len(Chain) /\ i \in 1 .. Len(Txs) /\ i \in Nat
      /\ tx = Chain[h].txs[i] /\ Txs = Chain[h].txs
      /\ h = Current /\ h > LegacyHeight /\ Last(a) = Rank(a, h + 1, 0)
      /\ Before(a) \in Nat /\ Last(a) \in Nat
  <2>1. h \in 1 .. Len(Chain) /\ i \in 1 .. Len(Txs)
    BY <1>1, CurrentTx
  <2> QED BY <1>1, <2>1, HistoryFacts DEF tx, Txs
<1>3. UNCHANGED <<h, i>> /\ tx' = tx
  BY <1>1, Way DEF PutHistory, tx, Txs
<1>4. a \in {tx.from, tx.to}
  BY DEF Owner
<1>5. /\ <<h, i>> \in Mine(a) /\ TxAt(<<h, i>>) = tx
      /\ RankOf(a, <<h, i>>) = Rank(a, h, i)
      /\ Rank(a, h, i) = Rank(a, h, i - 1) + 1
      /\ Before(a) <= Rank(a, h, i - 1) /\ Rank(a, h, i) <= Last(a)
      /\ Rank(a, h, i - 1) \in Nat
  <2>1. i - 1 \in Nat
    BY <1>2
  <2>2. <<h, i>> \in Mine(a) /\ Rank(a, h, i) = Rank(a, h, i - 1) + 1
    BY <1>2, <1>4, NextRank
  <2>3. Before(a) <= Rank(a, h, i - 1) /\ Rank(a, h, i) <= Last(a)
    BY <1>2, <2>1, BlockRank DEF Before
  <2> QED BY <1>2, <2>2, <2>3, RankNat DEF RankOf, TxAt
<1>6. /\ history[a] \in Seq(TxIds) /\ Len(history[a]) <= HistoryCap
      /\ Fits(a, history[a], Before(a), Seen(a), Last(a))
      /\ history'[a] = Remember(history[a], TxAt(<<h, i>>).id)
  BY <1>1, <1>5 DEF DataOK, HistoryInv, HistoryFits, PutHistory
<1> USE DEF Noted, InLoop, InBlock, Working, Steps
<1>7. Seen(a)' = Rank(a, h, i)
  <2>1. CASE pc = "histFrom"
    BY <1>1, <1>3, <2>1, Way DEF PutHistory, Seen, Owner
  <2>2. CASE pc = "histTo"
    BY <1>1, <1>3, <2>2, Way DEF PutHistory, Seen
  <2> QED BY <1>1, <2>1, <2>2
<1>8. CASE pc = "histTo" /\ a = tx.from
  <2>1. Seen(a) = Rank(a, h, i)
    BY <1>8 DEF Seen
  <2>2. RankOf(a, <<h, i>>) > Before(a)
    BY <1>2, <1>5
  <2>3. Remember(history[a], TxAt(<<h, i>>).id) = history[a]
    BY <1>2, <1>5, <1>6, <2>1, <2>2, SeenIsThere
  <2> QED BY <1>6, <1>7, <2>1, <2>3
<1>9. CASE ~(pc = "histTo" /\ a = tx.from)
  <2>1. Seen(a) = Rank(a, h, i - 1)
    BY <1>1, <1>9 DEF Seen
  <2>2. Fits(a, Remember(history[a], TxAt(<<h, i>>).id), Before(a),
             Rank(a, h, i - 1) + 1, Last(a))
    BY <1>2, <1>5, <1>6, <2>1, UpdateFits
  <2> QED BY <1>5, <1>6, <1>7, <2>2
<1> QED BY <1>8, <1>9

\* The saved height moves on: what was the last rank is the first one now.
\* The transactions that the conversion dropped are none of this address.
LEMMA HistoryCommit ==
  ASSUME HistoryInv, Calm, Commit
  PROVE  /\ Begun' \subseteq (1 .. Current)'
         /\ \A a \in Addrs : HistoryKey(a) \notin lapsed =>
               Fits(a, history[a], Before(a), Seen(a), Last(a))'
<1>1. /\ pc = "commit" /\ pc \in Working /\ pc \in InLoop
      /\ ControlOK /\ CrawlInv /\ DataOK
      /\ latest' = h /\ UNCHANGED <<blocks, history, lapsed>> /\ pc' \notin InLoop
  <2>1. pc = "commit" /\ latest' = h /\ UNCHANGED <<blocks, history, lapsed>>
    BY DEF Commit, indexVars
  <2>2. pc' \in {"fetch", "poll"}
    BY <2>1, Way DEF Commit
  <2> QED BY <2>1, <2>2 DEF InLoop, InBlock, Working, Steps, HistoryInv, SyncInv
<1>2. /\ h \in 1 .. Len(Chain) /\ Txs = Chain[h].txs /\ h = Current /\ h > LegacyHeight
      /\ Len(Txs) \in Nat /\ DOMAIN Txs = 1 .. Len(Txs) /\ \A k \in DOMAIN Txs : Txs[k] \in Tx
  <2>1. h \in 1 .. Len(Chain) /\ Txs = Chain[h].txs /\ Len(Txs) \in Nat
        /\ DOMAIN Txs = 1 .. Len(Txs) /\ \A k \in DOMAIN Txs : Txs[k] \in Tx
    BY <1>1, CurrentTx DEF Txs
  <2>2. h = Current /\ h > LegacyHeight
    <3>1. MarketAddress \in Addrs
      OBVIOUS
    <3> QED BY <1>1, <3>1, HistoryFacts
  <2> QED BY <2>1, <2>2
<1>3. i \in Nat /\ i > 0 /\ got.txs \in Nat /\ i > got.txs
  BY <1>1 DEF CrawlInv, ControlOK, InBlock, Working, Steps
<1>4. Current' = h + 1 /\ h \in Nat
  BY <1>1, <1>2 DEF Current, LocalHeight
<1>5. Begun' = Begun /\ Begun \subseteq 1 .. h
  BY <1>1, <1>2 DEF Begun, HistoryInv
<1>6. ASSUME NEW a \in Addrs, HistoryKey(a) \notin lapsed
      PROVE  Fits(a, history[a], Before(a), Seen(a), Last(a))'
  <2>1. Before(a)' = Rank(a, h + 1, 0) /\ Last(a)' = Before(a)' /\ Seen(a)' = Before(a)'
    <3>1. Current' \notin Begun'
      BY <1>4, <1>5
    <3> QED BY <1>1, <1>4, <3>1 DEF Before, Last, Seen
  <2>2. Last(a) = Rank(a, h + 1, 0) /\ Before(a) \in Nat /\ Last(a) \in Nat
    BY <1>1, HistoryFacts
  <2>3. Seen(a) = Rank(a, h, i - 1) /\ i - 1 \in Nat
    BY <1>1, <1>3 DEF Seen, Noted
  <2>4. Rank(a, h, i - 1) = Rank(a, h + 1, 0)
    <3>1. \A k \in DOMAIN Txs : k >= i => a \notin {Txs[k].from, Txs[k].to}
      BY <1>1, <1>2, <1>3, <1>6 DEF HistoryInv, Dropped, Working, Steps
    <3>2. \A p \in Mine(a) : p[1] = h => p[2] < i
      BY <1>2, <1>3, <3>1, PlaceFacts DEF Mine, TxAt
    <3>3. Upto(a, h, i - 1) = Upto(a, h + 1, 0)
      <4>1. \A p \in Mine(a) : p[1] \in Nat /\ p[2] \in Nat /\ p[2] > 0
        BY PlaceFacts, ChainTypes DEF Mine
      <4>2. \A p \in Mine(a) : p[1] < h + 1 \/ (p[1] = h + 1 /\ p[2] <= 0)
                               <=> p[1] < h \/ (p[1] = h /\ p[2] <= i - 1)
        BY <1>2, <1>3, <1>4, <3>2, <4>1
      <4> QED BY <4>2 DEF Upto
    <3> QED BY <3>3 DEF Rank
  <2>5. Fits(a, history[a], Before(a), Last(a), Last(a))
    BY <1>6, <2>2, <2>3, <2>4 DEF HistoryInv, HistoryFits
  <2>6. Fits(a, history[a], Last(a), Last(a), Last(a))
    BY <2>2, <2>5, FitsDone
  <2> QED BY <1>1, <2>1, <2>2, <2>6
<1>7. Begun' \subseteq (1 .. Current)'
  BY <1>4, <1>5
<1> QED BY <1>6, <1>7

LEMMA HistoryStep == HistoryInv /\ [Next]_vars => HistoryInv'
<1> SUFFICES ASSUME HistoryInv, [Next]_vars PROVE HistoryInv'
  OBVIOUS
<1>1. SyncInv' /\ Dropped'
  BY SyncNext, DroppedStep DEF HistoryInv
<1>2. ASSUME Calm' PROVE Begun' \subseteq (1 .. Current)' /\ HistoryFits'
  <2>1. Calm /\ mishaps' \subseteq {"crash"}
    BY <1>2, Keeps DEF Calm
  <2>2. CASE Commit
    <3>1. lapsed' = lapsed
      BY <2>2 DEF Commit
    <3> QED BY <2>1, <2>2, <3>1, HistoryCommit DEF HistoryFits
  <2>3. CASE ~Commit
    <3>1. Begun' \subseteq 1 .. Current /\ Current' = Current
      <4>1. MarketAddress \in Addrs
        OBVIOUS
      <4> QED BY <2>1, <2>3, <4>1, LastGrows
    <3>2. ASSUME NEW a \in Addrs, HistoryKey(a) \notin lapsed'
          PROVE  Fits(a, history'[a], Before(a)', Seen(a)', Last(a)')
      <4>1. HistoryKey(a) \notin lapsed /\ DataOK
        BY <3>2, HistoryKeyStays DEF HistoryInv, SyncInv
      <4>2. Before(a)' = Before(a) /\ Last(a)' \in Nat /\ Last(a) <= Last(a)'
        BY <2>1, <2>3, LastGrows
      <4>3. /\ Before(a) \in Nat /\ Seen(a) \in Nat /\ Last(a) \in Nat /\ Before(a) <= Seen(a)
            /\ Fits(a, history[a], Before(a), Seen(a), Last(a))
        BY <2>1, <4>1, HistoryFacts DEF HistoryInv, HistoryFits
      <4>4. CASE PutHistory /\ a = Owner
        <5>1. Fits(a, history'[a], Before(a), Seen(a)', Last(a))
          BY <2>1, <4>1, <4>4, HistoryPut
        <5>2. blocks' = blocks /\ lapsed' = lapsed
          BY <4>4 DEF PutHistory
        <5>3. Last(a)' = Last(a)
          BY <3>1, <4>2, <5>2 DEF Last, Begun
        <5> QED BY <4>2, <5>1, <5>3
      <4>5. CASE ~(PutHistory /\ a = Owner)
        <5>1. history'[a] = history[a]
          BY <3>2, <4>1, <4>5, HistoryKept
        <5>2. Seen(a)' \in {Before(a), Seen(a)}
          BY <2>1, <2>3, <3>2, <4>5, SeenStays
        <5>3. PICK s \in {Before(a), Seen(a)}, x \in Nat : s = Seen(a)' /\ x = Last(a)'
          BY <4>2, <5>2
        <5>4. Fits(a, history[a], Before(a), s, x)
          BY <4>2, <4>3, <5>3, FitsAgain
        <5> QED BY <4>2, <5>1, <5>3, <5>4
      <4> QED BY <4>4, <4>5
    <3> QED BY <3>1, <3>2 DEF HistoryFits
  <2> QED BY <2>2, <2>3
<1> QED BY <1>1, <1>2 DEF HistoryInv

\* The committed blocks are those of this index before the current one.
LEMMA CommittedBlocks ==
  ASSUME ControlOK, CrawlInv, Calm
  PROVE  /\ Current \notin Committed /\ Current \in Nat
         /\ \A b \in Nat : b > LegacyHeight => (b < Current <=> b \in Committed)
         /\ \A b \in Committed : b > LegacyHeight /\ b \in Nat
<1>1. latest \in Nat /\ LegacyHeight \in Nat
  BY ChainTypes DEF ControlOK
<1>2. CASE latest = 0
  <2>1. Current = LegacyHeight + 1 /\ Committed = {}
    BY <1>1, <1>2 DEF Current, LocalHeight, Committed
  <2> QED BY <1>1, <2>1
<1>3. CASE latest # 0
  <2>1. Current = latest + 1 /\ latest > LegacyHeight
    BY <1>1, <1>3 DEF Current, LocalHeight, CrawlInv, Calm
  <2>2. \A b : b \in Committed <=> b \in Nat /\ b > LegacyHeight /\ b <= latest
    BY <1>1 DEF Committed
  <2> QED BY <1>1, <2>1, <2>2
<1> QED BY <1>2, <1>3

\* Whatever crashed and was replayed before, between two blocks a history on
\* which no access failed and that no handler stored is exactly the newest of
\* the committed transactions of its address, in order.
THEOREM HistoriesAreExact == Spec => []HistoryExact
<1>1. ASSUME HistoryInv PROVE HistoryExact
  <2> SUFFICES ASSUME Calm, Begun \subseteq Committed, NEW a \in Addrs,
                      HistoryKey(a) \notin lapsed
               PROVE  /\ Len(history[a]) = UpToCap(Cardinality(Own(a)))
                      /\ \A p \in Own(a) :
                            LET n == Cardinality(Newer(a, p))
                            IN  n < HistoryCap => history[a][n + 1] = TxAt(p).id
    BY DEF HistoryExact, Calm
  <2>2. /\ Current \notin Committed /\ Current \in Nat /\ DataOK
        /\ \A b \in Nat : b > LegacyHeight => (b < Current <=> b \in Committed)
        /\ \A b \in Committed : b > LegacyHeight /\ b \in Nat
    BY <1>1, CommittedBlocks DEF HistoryInv, SyncInv
  <2>3. \A p \in Places : p[1] \in Nat /\ p[2] \in Nat /\ p[2] > 0
    BY PlaceFacts, ChainTypes
  <2>4. Own(a) = Upto(a, Current, 0)
    BY <2>2, <2>3 DEF Own, Upto, Mine
  <2>5. Current \notin Begun
    BY <2>2
  <2> DEFINE c == Before(a)
             hist == history[a]
  <2>6. c \in Nat /\ Last(a) = c /\ Cardinality(Own(a)) = c
    BY <1>1, <2>4, <2>5, HistoryFacts DEF Last, Before, Rank
  <2>7. hist \in Seq(TxIds) /\ DOMAIN hist = 1 .. Len(hist)
    BY <2>2, LenProperties DEF DataOK
  <2>8. Len(hist) = UpToCap(c) /\ \A l \in DOMAIN hist : Ranked(a, hist[l], c + 1 - l)
    <3>1. Fits(a, hist, c, Seen(a), c)
      BY <1>1, <2>6 DEF HistoryInv, HistoryFits
    <3> HIDE DEF c, hist
    <3>2. \A j, m \in c + 1 .. c : FALSE
      BY <2>6
    <3>3. PICK r \in c .. c : Straight(a, hist, c, Seen(a), r)
      BY <3>1, <3>2 DEF Fits
    <3>4. r = c
      BY <2>6
    <3> QED BY <3>3, <3>4 DEF Straight
  <2>9. ASSUME NEW p \in Own(a), Cardinality(Newer(a, p)) < HistoryCap
        PROVE  hist[Cardinality(Newer(a, p)) + 1] = TxAt(p).id
    <3>1. p \in Mine(a) /\ p \in Places /\ p[1] < Current
      BY <2>2, <2>3, <2>4 DEF Upto, Mine
    <3>2. Newer(a, p) = Own(a) \ Upto(a, p[1], p[2])
      BY <2>2, <2>3, <2>4, <3>1 DEF Newer, Upto, Own, Mine
    <3>3. Upto(a, p[1], p[2]) \subseteq Own(a)
      BY <2>2, <2>3, <2>4, <3>1 DEF Upto, Mine
    <3>4. /\ IsFiniteSet(Own(a)) /\ RankOf(a, p) \in Nat
          /\ Cardinality(Own(a) \cap Upto(a, p[1], p[2])) = RankOf(a, p)
      BY <2>4, <3>3, RankNat DEF RankOf, Rank
    <3>5. Cardinality(Newer(a, p)) = c - RankOf(a, p)
      BY <2>6, <3>2, <3>4, FS_Difference
    <3>6. RankOf(a, p) > 0 /\ RankOf(a, p) <= c
      <4>1. p \in Upto(a, p[1], p[2])
        BY <2>3, <3>1 DEF Upto
      <4>2. RankOf(a, p) # 0
        BY <4>1, RankNat, FS_EmptySet DEF RankOf, Rank
      <4>3. RankOf(a, p) <= c
        BY <2>6, <3>3, <3>4, FS_Subset DEF RankOf, Rank
      <4> QED BY <3>4, <4>2, <4>3
    <3> DEFINE l == Cardinality(Newer(a, p)) + 1
    <3>7. l \in 1 .. UpToCap(c) /\ c + 1 - l = RankOf(a, p)
      BY <2>6, <2>9, <3>4, <3>5, <3>6 DEF UpToCap
    <3> HIDE DEF l, c, hist
    <3>8. Ranked(a, hist[l], RankOf(a, p))
      BY <2>7, <2>8, <3>7
    <3>9. hist[l] = TxAt(p).id
      BY <3>1, <3>8, SameRank
    <3> QED BY <3>9 DEF l
  <2> QED BY <2>6, <2>8, <2>9
<1> QED BY HistoryInit, HistoryStep, <1>1, PTL DEF Spec
=============================================================================
